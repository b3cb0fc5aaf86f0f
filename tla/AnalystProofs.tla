---------------------------- MODULE AnalystProofs ---------------------------
(***************************************************************************)
(* Proofs about AnalystReports, for any number of requests, users and      *)
(* assets and any limits: the counted, dropped and remade locks still let  *)
(* one report of an asset be made at a time, a request that did not ask    *)
(* for a refresh replaces a report only when its time was up, and the      *)
(* slots taken are those of requests that work or kept theirs.             *)
(***************************************************************************)
EXTENDS AnalystReports, FiniteSetTheorems, SequenceTheorems, WellFoundedInduction, TLAPS

Objects == Assets \X Locks

Busy(p) == pc[p] # "idle"

(* The requests that hold or wait for the lock of an asset.                *)
AskersOf(a) == {p \in Procs : req[p] # NoRequest /\ Asset(p) = a}

Kinds ==
  /\ clock \in Nat
  /\ cached \in [Assets -> Nat \cup {Never}]
  /\ lockOf \in [Assets -> Objects \cup {NoLock}]
  /\ \A a \in Assets : lockOf[a] \in ({a} \X Locks) \cup {NoLock}
  /\ lockUsers \in [Assets -> Nat]
  /\ queue \in [Objects -> Seq(Procs)]
  /\ mine \in [Procs -> Objects \cup {NoLock}]
  /\ pc \in [Procs -> {"idle", "waiting", "working"}]
  /\ req \in [Procs -> Requests \cup {NoRequest}]
  /\ started \in [Procs -> Nat]

Counted == \A a \in Assets : lockUsers[a] = Cardinality(AskersOf(a))

(* A busy request has the one lock object that is registered for its asset.*)
Registered ==
  \A p \in Procs :
    /\ Busy(p) <=> req[p] # NoRequest
    /\ Busy(p) => /\ mine[p] \in {Asset(p)} \X Locks
                  /\ lockOf[Asset(p)] = mine[p]
                  /\ started[p] <= clock

(* The queue of a lock object has busy requests that have it, once each.   *)
Queued(l) ==
  /\ \A i \in 1..Len(queue[l]) : Busy(queue[l][i]) /\ mine[queue[l][i]] = l
  /\ \A i, j \in 1..Len(queue[l]) : queue[l][i] = queue[l][j] => i = j

Lines == \A l \in Objects : Queued(l)

(* Whoever makes a report holds its lock, and it is still due.             *)
Exclusive == \A p \in Procs : Working(p) => Holds(p) /\ Due(p)

AInv == Kinds /\ Counted /\ Registered /\ Lines /\ Exclusive

-----------------------------------------------------------------------------
LEMMA AppendFacts ==
  ASSUME NEW S, NEW s \in Seq(S), NEW e \in S
  PROVE  /\ Append(s, e) \in Seq(S) /\ Append(s, e) # << >>
         /\ Len(Append(s, e)) = Len(s) + 1 /\ Len(s) \in Nat
         /\ \A i \in 1..Len(s) : Append(s, e)[i] = s[i]
         /\ Append(s, e)[Len(s) + 1] = e
         /\ s # << >> => Head(Append(s, e)) = Head(s)
<1>1. /\ Append(s, e) \in Seq(S) /\ Len(Append(s, e)) = Len(s) + 1 /\ Len(s) \in Nat
      /\ \A i \in 1..Len(s) : Append(s, e)[i] = s[i]
      /\ Append(s, e)[Len(s) + 1] = e
  OBVIOUS
<1>2. Append(s, e) # << >>
  BY <1>1
<1>3. s # << >> => Head(Append(s, e)) = Head(s)
  <2> SUFFICES ASSUME s # << >> PROVE Head(Append(s, e)) = Head(s)
    OBVIOUS
  <2>1. 1 \in 1..Len(s)
    OBVIOUS
  <2>2. Head(s) = s[1] /\ Head(Append(s, e)) = Append(s, e)[1]
    BY <1>1, <1>2
  <2> QED BY <1>1, <2>1, <2>2
<1> QED BY <1>1, <1>2, <1>3

LEMMA TailFacts ==
  ASSUME NEW S, NEW s \in Seq(S), s # << >>
  PROVE  /\ Tail(s) \in Seq(S)
         /\ Len(s) \in Nat /\ Len(s) >= 1 /\ Len(Tail(s)) = Len(s) - 1
         /\ \A i \in 1..Len(Tail(s)) : Tail(s)[i] = s[i + 1]
         /\ Head(s) = s[1]
OBVIOUS

LEMMA AskersFinite ==
  ASSUME NEW a \in Assets
  PROVE  IsFiniteSet(AskersOf(a)) /\ Cardinality(AskersOf(a)) \in Nat
<1>1. AskersOf(a) \subseteq Procs
  BY DEF AskersOf
<1> QED BY <1>1, ProcsFinite, FS_Subset, FS_CardinalityType

LEMMA SomeLock == Locks # {}
<1> SUFFICES ASSUME Locks = {} PROVE FALSE
  OBVIOUS
<1>1. Cardinality(Locks) = 0
  BY FS_EmptySet
<1>2. Cardinality(Procs) \in Nat
  BY ProcsFinite, FS_CardinalityType
<1> QED BY <1>1, <1>2, LocksEnough

LEMMA InitAInv == Init => AInv
<1> SUFFICES ASSUME Init PROVE AInv
  OBVIOUS
<1>1. Kinds
  BY DEF Init, Kinds, Objects
<1>2. Counted
  <2> SUFFICES ASSUME NEW a \in Assets PROVE lockUsers[a] = Cardinality(AskersOf(a))
    BY DEF Counted
  <2>1. AskersOf(a) = {}
    BY DEF AskersOf, Init
  <2> QED BY <2>1, FS_EmptySet DEF Init
<1>3. Registered
  BY DEF Init, Registered, Busy
<1>4. Lines
  BY DEF Init, Lines, Queued, Objects
<1>5. Exclusive
  BY DEF Init, Exclusive, Working
<1> QED BY <1>1, <1>2, <1>3, <1>4, <1>5 DEF AInv

-----------------------------------------------------------------------------
(* A new request joins the line of its asset's lock. Without a lock nobody *)
(* is busy with the asset, so no object of the asset has a line, and the   *)
(* new lock is one of them.                                                *)
LEMMA AskAInv ==
  ASSUME AInv, NEW p \in Procs, NEW r \in Requests, Ask(p, r)
  PROVE  AInv'
<1> DEFINE a == r.asset
           l == IF lockOf[a] = NoLock THEN NewLock(a) ELSE lockOf[a]
<1> USE DEF AInv
<1>0. a \in Assets /\ r # NoRequest /\ ~Busy(p) /\ req[p] = NoRequest
  BY NothingAssumption DEF Requests, Ask, Registered, Busy
<1>1. /\ lockOf' = [lockOf EXCEPT ![a] = l]
      /\ lockUsers' = [lockUsers EXCEPT ![a] = @ + 1]
      /\ queue' = [queue EXCEPT ![l] = Append(@, p)]
      /\ mine' = [mine EXCEPT ![p] = l]
      /\ pc' = [pc EXCEPT ![p] = "waiting"]
      /\ req' = [req EXCEPT ![p] = r]
      /\ started' = [started EXCEPT ![p] = clock]
      /\ clock' = clock /\ cached' = cached
  BY DEF Ask
<1>2. l \in {a} \X Locks
  <2>1. CASE lockOf[a] = NoLock
    <3>1. \A k \in {a} \X Locks : queue[k] = << >>
      <4> SUFFICES ASSUME NEW k \in {a} \X Locks, queue[k] # << >> PROVE FALSE
        OBVIOUS
      <4>1. k \in Objects /\ queue[k] \in Seq(Procs)
        BY <1>0 DEF Objects, Kinds
      <4>2. 1 \in 1..Len(queue[k]) /\ queue[k][1] \in Procs
        BY <4>1
      <4>3. PICK q \in Procs : Busy(q) /\ mine[q] = k
        BY <4>1, <4>2 DEF Lines, Queued
      <4>4. mine[q] \in {Asset(q)} \X Locks /\ lockOf[Asset(q)] = mine[q]
        BY <4>3 DEF Registered
      <4>5. Asset(q) = a
        BY <4>3, <4>4
      <4> QED BY <4>3, <4>4, <4>5, <4>1, <2>1, NothingAssumption DEF Objects
    <3>2. PICK name \in Locks : TRUE
      BY SomeLock
    <3>3. \E m \in {a} \X Locks : queue[m] = << >>
      BY <3>1, <3>2, <<a, name>> \in {a} \X Locks
    <3> QED BY <2>1, <3>3 DEF NewLock
  <2>2. CASE lockOf[a] # NoLock
    BY <2>2, <1>0 DEF Kinds
  <2> QED BY <2>1, <2>2
<1>3. l \in Objects /\ l # NoLock
  BY <1>2, <1>0, NothingAssumption DEF Objects
<1>4. Kinds'
  <2>1. /\ lockOf' \in [Assets -> Objects \cup {NoLock}]
        /\ \A b \in Assets : lockOf'[b] \in ({b} \X Locks) \cup {NoLock}
    BY <1>0, <1>1, <1>2, <1>3 DEF Kinds
  <2>2. queue' \in [Objects -> Seq(Procs)]
    <3>1. Append(queue[l], p) \in Seq(Procs)
      BY <1>3 DEF Kinds
    <3> QED BY <1>1, <1>3, <3>1 DEF Kinds
  <2>3. lockUsers' \in [Assets -> Nat]
    BY <1>0, <1>1 DEF Kinds
  <2>4. mine' \in [Procs -> Objects \cup {NoLock}]
    BY <1>1, <1>3 DEF Kinds
  <2>5. /\ pc' \in [Procs -> {"idle", "waiting", "working"}]
        /\ req' \in [Procs -> Requests \cup {NoRequest}]
        /\ started' \in [Procs -> Nat]
    BY <1>1 DEF Kinds
  <2> QED BY <1>1, <2>1, <2>2, <2>3, <2>4, <2>5 DEF Kinds
<1>5. \A q \in Procs : q # p => /\ req'[q] = req[q] /\ pc'[q] = pc[q] /\ mine'[q] = mine[q]
                                /\ started'[q] = started[q]
  BY <1>1 DEF Kinds
<1>6. req'[p] = r /\ pc'[p] = "waiting" /\ mine'[p] = l /\ started'[p] = clock
  BY <1>1 DEF Kinds
<1>7. Counted'
  <2> SUFFICES ASSUME NEW b \in Assets PROVE lockUsers'[b] = Cardinality(AskersOf(b))'
    BY DEF Counted
  <2>1. CASE b = a
    <3>1. AskersOf(b)' = AskersOf(b) \cup {p} /\ p \notin AskersOf(b)
      BY <1>0, <1>5, <1>6, <2>1 DEF AskersOf, Asset
    <3>2. Cardinality(AskersOf(b) \cup {p}) = Cardinality(AskersOf(b)) + 1
      BY <3>1, AskersFinite, FS_AddElement
    <3>3. lockUsers'[b] = lockUsers[b] + 1
      BY <1>0, <1>1, <2>1 DEF Kinds
    <3> QED BY <3>1, <3>2, <3>3 DEF Counted
  <2>2. CASE b # a
    <3>1. AskersOf(b)' = AskersOf(b)
      BY <1>0, <1>5, <1>6, <2>2 DEF AskersOf, Asset
    <3>2. lockUsers'[b] = lockUsers[b]
      BY <1>1, <2>2 DEF Kinds
    <3> QED BY <3>1, <3>2 DEF Counted
  <2> QED BY <2>1, <2>2
<1>8. Registered'
  <2> SUFFICES ASSUME NEW q \in Procs
               PROVE  /\ (Busy(q) <=> req[q] # NoRequest)'
                      /\ (Busy(q) => /\ mine[q] \in {Asset(q)} \X Locks
                                     /\ lockOf[Asset(q)] = mine[q]
                                     /\ started[q] <= clock)'
    BY DEF Registered
  <2>1. CASE q = p
    <3>1. lockOf'[a] = l
      BY <1>0, <1>1 DEF Kinds
    <3> QED BY <1>0, <1>1, <1>2, <1>6, <2>1, <3>1 DEF Busy, Asset, Kinds
  <2>2. CASE q # p
    <3>1. Busy(q)' <=> Busy(q)
      BY <1>5, <2>2 DEF Busy
    <3>2. ASSUME Busy(q) PROVE lockOf'[Asset(q)] = mine[q]
      <4>1. mine[q] \in {Asset(q)} \X Locks /\ lockOf[Asset(q)] = mine[q] /\ req[q] # NoRequest
        BY <3>2 DEF Registered
      <4>2. Asset(q) \in Assets
        BY <4>1 DEF Kinds, Requests, Asset
      <4>3. mine[q] # NoLock
        BY <4>1, <4>2, NothingAssumption
      <4> QED BY <1>0, <1>1, <4>1, <4>2, <4>3 DEF Kinds
    <3> QED BY <1>1, <1>5, <2>2, <3>1, <3>2 DEF Registered, Asset
  <2> QED BY <2>1, <2>2
<1>9. Lines'
  <2> SUFFICES ASSUME NEW k \in Objects PROVE Queued(k)'
    BY DEF Lines
  <2>1. queue[k] \in Seq(Procs) /\ Queued(k)
    BY DEF Kinds, Lines
  <2>2. \A i \in 1..Len(queue[k]) : queue[k][i] \in Procs /\ queue[k][i] # p
    BY <1>0, <2>1 DEF Queued
  <2>3. CASE k = l
    <3>1. queue'[k] = Append(queue[k], p)
      BY <1>1, <2>3 DEF Kinds
    <3> HIDE DEF l
    <3>2. /\ Len(queue'[k]) = Len(queue[k]) + 1 /\ Len(queue[k]) \in Nat
          /\ \A i \in 1..Len(queue[k]) : queue'[k][i] = queue[k][i]
          /\ queue'[k][Len(queue[k]) + 1] = p
      BY <2>1, <3>1, AppendFacts
    <3>3. \A i \in 1..Len(queue'[k]) : i \in 1..Len(queue[k]) \/ i = Len(queue[k]) + 1
      BY <3>2
    <3>4. \A i \in 1..Len(queue'[k]) : (Busy(queue[k][i]) /\ mine[queue[k][i]] = k)'
      BY <1>5, <1>6, <2>1, <2>2, <2>3, <3>2, <3>3 DEF Queued, Busy
    <3>5. \A i, j \in 1..Len(queue'[k]) : queue'[k][i] = queue'[k][j] => i = j
      BY <2>1, <2>2, <3>2, <3>3 DEF Queued
    <3> QED BY <3>4, <3>5 DEF Queued
  <2>4. CASE k # l
    <3>1. queue'[k] = queue[k]
      BY <1>1, <2>4 DEF Kinds
    <3> QED BY <1>5, <2>1, <2>2, <3>1 DEF Queued, Busy
  <2> QED BY <2>3, <2>4
<1>10. Exclusive'
  <2> SUFFICES ASSUME NEW q \in Procs, Working(q)' PROVE (Holds(q) /\ Due(q))'
    BY DEF Exclusive
  <2>1. q # p /\ Working(q)
    BY <1>5, <1>6 DEF Working
  <2>2. Holds(q) /\ Due(q) /\ mine[q] \in Objects
    BY <2>1, NothingAssumption DEF Exclusive, Kinds, Holds
  <2>3. queue'[mine[q]] # << >> /\ Head(queue'[mine[q]]) = q
    <3>1. CASE mine[q] = l
      <4>1. queue'[mine[q]] = Append(queue[mine[q]], p) /\ queue[mine[q]] \in Seq(Procs)
        BY <1>1, <2>2, <3>1 DEF Kinds
      <4> QED BY <2>2, <4>1, AppendFacts DEF Holds
    <3>2. CASE mine[q] # l
      BY <1>1, <2>2, <3>2 DEF Kinds, Holds
    <3> QED BY <3>1, <3>2
  <2>4. Due(q)'
    BY <1>1, <1>5, <2>1, <2>2 DEF Due, YoungerThan, Asset
  <2> QED BY <1>5, <2>1, <2>2, <2>3, <2>4 DEF Holds
<1> QED BY <1>4, <1>7, <1>8, <1>9, <1>10

(* The holder leaves. The lock is dropped only when nobody else is busy    *)
(* with the asset; the reports of the other assets do not change.          *)
LEMMA LeaveAInv ==
  ASSUME AInv, NEW p \in Procs, Busy(p), Holds(p), Leave(p),
         clock' = clock, cached' \in [Assets -> Nat \cup {Never}],
         \A b \in Assets : b # Asset(p) => cached'[b] = cached[b]
  PROVE  AInv'
<1> DEFINE a == Asset(p)
           l == mine[p]
<1> USE DEF AInv
<1>0. /\ req[p] \in Requests /\ req[p] # NoRequest /\ a \in Assets
      /\ l \in {a} \X Locks /\ l \in Objects /\ lockOf[a] = l
      /\ queue[l] \in Seq(Procs) /\ queue[l] # << >> /\ Head(queue[l]) = p
  BY DEF Registered, Kinds, Requests, Asset, Holds, Objects
<1>1. /\ lockOf' = [lockOf EXCEPT ![a] = IF lockUsers[a] = 1 /\ @ = l THEN NoLock ELSE @]
      /\ lockUsers' = [lockUsers EXCEPT ![a] = @ - 1]
      /\ queue' = [queue EXCEPT ![l] = Tail(@)]
      /\ mine' = [mine EXCEPT ![p] = NoLock]
      /\ pc' = [pc EXCEPT ![p] = "idle"]
      /\ req' = [req EXCEPT ![p] = NoRequest]
      /\ started' = [started EXCEPT ![p] = 0]
  BY DEF Leave, Done
<1>2. /\ \A q \in Procs : q # p => /\ req'[q] = req[q] /\ pc'[q] = pc[q] /\ mine'[q] = mine[q]
                                   /\ started'[q] = started[q]
      /\ req'[p] = NoRequest /\ pc'[p] = "idle"
  BY <1>1 DEF Kinds
<1>3. p \in AskersOf(a) /\ lockUsers[a] = Cardinality(AskersOf(a)) /\ lockUsers[a] \in Nat
  BY <1>0 DEF AskersOf, Counted, Kinds
<1>4. Cardinality(AskersOf(a) \ {p}) = lockUsers[a] - 1 /\ lockUsers[a] - 1 \in Nat
  <2>1. IsFiniteSet(AskersOf(a)) /\ Cardinality(AskersOf(a) \ {p}) = Cardinality(AskersOf(a)) - 1
    BY <1>0, <1>3, AskersFinite, FS_RemoveElement
  <2>2. IsFiniteSet(AskersOf(a) \ {p})
    BY <2>1, FS_Subset
  <2> QED BY <1>3, <2>1, <2>2, FS_CardinalityType
<1>5. ASSUME lockUsers[a] = 1, NEW q \in Procs, q # p, Busy(q) PROVE Asset(q) # a
  <2> SUFFICES ASSUME Asset(q) = a PROVE FALSE
    OBVIOUS
  <2>1. q \in AskersOf(a) \ {p}
    BY <1>5 DEF AskersOf, Registered
  <2>2. IsFiniteSet(AskersOf(a) \ {p})
    BY <1>0, AskersFinite, FS_Subset
  <2>3. AskersOf(a) \ {p} = {}
    BY <1>4, <1>5, <2>2, FS_EmptySet
  <2> QED BY <2>1, <2>3
<1>6. /\ Tail(queue[l]) \in Seq(Procs)
      /\ Len(queue[l]) \in Nat /\ Len(queue[l]) >= 1 /\ Len(Tail(queue[l])) = Len(queue[l]) - 1
      /\ \A i \in 1..Len(Tail(queue[l])) : Tail(queue[l])[i] = queue[l][i + 1]
      /\ queue[l][1] = p
  <2> HIDE DEF l
  <2> QED BY <1>0, TailFacts
<1>7. Kinds'
  <2>1. /\ lockOf' \in [Assets -> Objects \cup {NoLock}]
        /\ \A b \in Assets : lockOf'[b] \in ({b} \X Locks) \cup {NoLock}
    BY <1>0, <1>1 DEF Kinds
  <2>2. lockUsers' \in [Assets -> Nat]
    BY <1>0, <1>1, <1>4 DEF Kinds
  <2>3. queue' \in [Objects -> Seq(Procs)]
    BY <1>1, <1>6 DEF Kinds
  <2>4. /\ mine' \in [Procs -> Objects \cup {NoLock}]
        /\ pc' \in [Procs -> {"idle", "waiting", "working"}]
        /\ req' \in [Procs -> Requests \cup {NoRequest}]
        /\ started' \in [Procs -> Nat]
    BY <1>1 DEF Kinds
  <2> QED BY <2>1, <2>2, <2>3, <2>4 DEF Kinds
<1>8. Counted'
  <2> SUFFICES ASSUME NEW b \in Assets PROVE lockUsers'[b] = Cardinality(AskersOf(b))'
    BY DEF Counted
  <2>1. CASE b = a
    <3>1. AskersOf(b)' = AskersOf(b) \ {p}
      BY <1>2, <2>1 DEF AskersOf, Asset
    <3>2. lockUsers'[b] = lockUsers[b] - 1
      BY <1>0, <1>1, <2>1 DEF Kinds
    <3> QED BY <1>4, <2>1, <3>1, <3>2
  <2>2. CASE b # a
    <3>1. AskersOf(b)' = AskersOf(b)
      BY <1>0, <1>2, <2>2 DEF AskersOf, Asset
    <3>2. lockUsers'[b] = lockUsers[b]
      BY <1>1, <2>2 DEF Kinds
    <3> QED BY <3>1, <3>2 DEF Counted
  <2> QED BY <2>1, <2>2
<1>9. Registered'
  <2> SUFFICES ASSUME NEW q \in Procs
               PROVE  /\ (Busy(q) <=> req[q] # NoRequest)'
                      /\ (Busy(q) => /\ mine[q] \in {Asset(q)} \X Locks
                                     /\ lockOf[Asset(q)] = mine[q]
                                     /\ started[q] <= clock)'
    BY DEF Registered
  <2>1. CASE q = p
    BY <1>2, <2>1 DEF Busy
  <2>2. CASE q # p
    <3>1. Busy(q)' <=> Busy(q)
      BY <1>2, <2>2 DEF Busy
    <3>2. ASSUME Busy(q) PROVE lockOf'[Asset(q)] = mine[q]
      <4>1. lockOf[Asset(q)] = mine[q] /\ req[q] # NoRequest
        BY <3>2 DEF Registered
      <4>2. Asset(q) \in Assets
        BY <4>1 DEF Kinds, Requests, Asset
      <4>3. CASE Asset(q) = a
        BY <1>0, <1>1, <1>5, <2>2, <3>2, <4>1, <4>3 DEF Kinds
      <4>4. CASE Asset(q) # a
        BY <1>1, <4>1, <4>2, <4>4 DEF Kinds
      <4> QED BY <4>3, <4>4
    <3> QED BY <1>2, <2>2, <3>1, <3>2 DEF Registered, Asset
  <2> QED BY <2>1, <2>2
<1>10. Lines'
  <2> SUFFICES ASSUME NEW k \in Objects PROVE Queued(k)'
    BY DEF Lines
  <2>1. queue[k] \in Seq(Procs) /\ Queued(k)
    BY DEF Kinds, Lines
  <2>2. CASE k = l
    <3>1. queue'[k] = Tail(queue[l])
      BY <1>1, <2>2 DEF Kinds
    <3>2. \A i \in 1..Len(queue'[k]) :
            i + 1 \in 1..Len(queue[k]) /\ queue'[k][i] = queue[k][i + 1] /\ i + 1 # 1
      BY <1>6, <2>2, <3>1
    <3>3. \A i \in 1..Len(queue'[k]) : queue'[k][i] # p /\ queue'[k][i] \in Procs
      <4>1. 1 \in 1..Len(queue[k]) /\ queue[k][1] = p
        BY <1>6, <2>2
      <4> QED BY <2>1, <3>2, <4>1 DEF Queued
    <3>4. \A i \in 1..Len(queue'[k]) : (Busy(queue[k][i]) /\ mine[queue[k][i]] = k)'
      BY <1>2, <2>1, <3>2, <3>3 DEF Queued, Busy
    <3>5. \A i, j \in 1..Len(queue'[k]) : queue'[k][i] = queue'[k][j] => i = j
      <4> SUFFICES ASSUME NEW i \in 1..Len(queue'[k]), NEW j \in 1..Len(queue'[k]),
                          queue'[k][i] = queue'[k][j]
                   PROVE  i = j
        OBVIOUS
      <4>1. /\ i + 1 \in 1..Len(queue[k]) /\ j + 1 \in 1..Len(queue[k])
            /\ queue[k][i + 1] = queue[k][j + 1]
        BY <3>2
      <4>2. i + 1 = j + 1
        BY <2>1, <4>1 DEF Queued
      <4> QED BY <4>2
    <3> QED BY <3>4, <3>5 DEF Queued
  <2>3. CASE k # l
    <3>1. queue'[k] = queue[k]
      BY <1>1, <2>3 DEF Kinds
    <3>2. \A i \in 1..Len(queue[k]) : queue[k][i] \in Procs /\ queue[k][i] # p
      BY <2>1, <2>3 DEF Queued
    <3> QED BY <1>2, <2>1, <3>1, <3>2 DEF Queued, Busy
  <2> QED BY <2>2, <2>3
<1>11. Exclusive'
  <2> SUFFICES ASSUME NEW q \in Procs, Working(q)' PROVE (Holds(q) /\ Due(q))'
    BY DEF Exclusive
  <2>1. q # p /\ Working(q) /\ Busy(q)
    BY <1>2 DEF Working, Busy
  <2>2. Holds(q) /\ Due(q) /\ mine[q] \in {Asset(q)} \X Locks /\ lockOf[Asset(q)] = mine[q]
    BY <2>1 DEF Exclusive, Registered
  <2>3. Asset(q) \in Assets
    BY <2>1 DEF Registered, Kinds, Requests, Asset
  <2>4. Asset(q) # a
    BY <1>0, <2>1, <2>2 DEF Holds
  <2>5. mine[q] # l
    BY <1>0, <2>2, <2>4
  <2>6. queue'[mine[q]] = queue[mine[q]]
    BY <1>1, <2>2, <2>3, <2>5 DEF Kinds, Objects
  <2>7. Due(q)'
    BY <1>2, <2>1, <2>2, <2>3, <2>4 DEF Due, YoungerThan, Asset
  <2> QED BY <1>2, <2>1, <2>2, <2>6, <2>7 DEF Holds
<1> QED BY <1>7, <1>8, <1>9, <1>10, <1>11

LEMMA TakeAInv ==
  ASSUME AInv, NEW p \in Procs, Take(p)
  PROVE  AInv'
<1> USE DEF AInv
<1>1. /\ pc[p] = "waiting" /\ Holds(p) /\ Due(p)
      /\ pc' = [pc EXCEPT ![p] = "working"]
      /\ UNCHANGED <<clock, cached, lockOf, lockUsers, queue, mine, req, started>>
  BY DEF Take, locking
<1>2. \A q \in Procs : /\ Busy(q)' <=> Busy(q)
                       /\ q # p => (Working(q)' <=> Working(q))
                       /\ Holds(q)' <=> Holds(q)
                       /\ Due(q)' <=> Due(q)
  BY <1>1 DEF Busy, Kinds, Working, Holds, Due, YoungerThan, Asset
<1>3. Kinds'
  BY <1>1 DEF Kinds
<1>4. Counted'
  BY <1>1 DEF Counted, AskersOf, Asset
<1>5. Registered'
  BY <1>1, <1>2 DEF Registered, Asset
<1>6. Lines'
  BY <1>1, <1>2 DEF Lines, Queued, Kinds
<1>7. Exclusive'
  BY <1>1, <1>2 DEF Exclusive
<1> QED BY <1>3, <1>4, <1>5, <1>6, <1>7

(* Steps that leave the requests, the locks and the reports alone.         *)
LEMMA IdleAInv ==
  ASSUME AInv, UNCHANGED <<cached, lockOf, lockUsers, queue, mine, pc, req, started>>,
         clock' \in Nat, clock' >= clock
  PROVE  AInv'
<1> USE DEF AInv
<1>1. Kinds'
  BY DEF Kinds
<1>2. Counted'
  BY DEF Counted, AskersOf, Asset
<1>3. Registered'
  <2> SUFFICES ASSUME NEW q \in Procs, Busy(q) PROVE started[q] <= clock'
    BY DEF Registered, Busy, Asset
  <2>1. started[q] <= clock /\ started[q] \in Nat /\ clock \in Nat
    BY DEF Registered, Kinds
  <2> QED BY <2>1
<1>4. Lines'
  BY DEF Lines, Queued, Busy
<1>5. Exclusive'
  BY DEF Exclusive, Working, Holds, Due, YoungerThan, Asset
<1> QED BY <1>1, <1>2, <1>3, <1>4, <1>5

LEMMA RestartAInv == AInv /\ Restart => AInv'
<1> SUFFICES ASSUME AInv, Restart PROVE AInv'
  OBVIOUS
<1>1. Kinds'
  BY DEF AInv, Restart, Kinds, Objects
<1>2. Counted'
  <2> SUFFICES ASSUME NEW a \in Assets PROVE lockUsers'[a] = Cardinality(AskersOf(a))'
    BY DEF Counted
  <2>1. AskersOf(a)' = {}
    BY DEF AskersOf, Restart
  <2> QED BY <2>1, FS_EmptySet DEF Restart
<1>3. Registered' /\ Exclusive'
  BY DEF Restart, Registered, Busy, Exclusive, Working
<1>4. Lines'
  BY DEF Restart, Lines, Queued, Objects
<1> QED BY <1>1, <1>2, <1>3, <1>4 DEF AInv

LEMMA NextAInv == AInv /\ [Next]_vars => AInv'
<1> SUFFICES ASSUME AInv, [Next]_vars PROVE AInv'
  OBVIOUS
<1> USE DEF AInv
<1>1. ASSUME NEW p \in Procs, NEW r \in Requests, Ask(p, r) PROVE AInv'
  BY <1>1, AskAInv
<1>2. ASSUME NEW p \in Procs, Serve(p) \/ OverLimit(p) PROVE AInv'
  <2>1. Busy(p) /\ Holds(p) /\ Leave(p) /\ clock' = clock /\ cached' = cached
    BY <1>2 DEF Serve, OverLimit, Busy
  <2> QED BY <2>1, LeaveAInv DEF Kinds
<1>3. ASSUME NEW p \in Procs, Take(p) PROVE AInv'
  BY <1>3, TakeAInv
<1>4. ASSUME NEW p \in Procs, NoData(p) \/ Break(p) PROVE AInv'
  <2>1. Working(p) /\ Leave(p) /\ clock' = clock /\ cached' = cached
    BY <1>4 DEF NoData, Break, Working
  <2>2. Busy(p) /\ Holds(p)
    BY <2>1 DEF Working, Busy, Exclusive
  <2> QED BY <2>1, <2>2, LeaveAInv DEF Kinds
<1>5. ASSUME NEW p \in Procs, Save(p) PROVE AInv'
  <2>1. /\ Working(p) /\ Leave(p) /\ clock' = clock
        /\ cached' = [cached EXCEPT ![Asset(p)] = clock]
    BY <1>5 DEF Save, Working
  <2>2. Busy(p) /\ Holds(p)
    BY <2>1 DEF Working, Busy, Exclusive
  <2> QED BY <2>1, <2>2, LeaveAInv DEF Kinds
<1>6. ASSUME NEW u \in Users, ForgetUser(u) PROVE AInv'
  BY <1>6, IdleAInv DEF ForgetUser, locking, asking, Kinds
<1>7. CASE Tick
  BY <1>7, IdleAInv DEF Tick, locking, asking, Kinds
<1>8. CASE Restart
  BY <1>8, RestartAInv
<1>9. CASE UNCHANGED vars
  BY <1>9, IdleAInv DEF vars, locking, asking, Kinds
<1> QED BY <1>1, <1>2, <1>3, <1>4, <1>5, <1>6, <1>7, <1>8, <1>9 DEF Next, Step

-----------------------------------------------------------------------------
(* However requests come, wait, fail and leave, and whenever the lock of   *)
(* an asset is dropped and made again, one report of it is made at a time. *)
THEOREM OneReportAtATime == Spec => []OneAtATime
<1>1. AInv => OneAtATime
  <2> SUFFICES ASSUME AInv, NEW p \in Procs, NEW q \in Procs,
                      Working(p), Working(q), Asset(p) = Asset(q)
               PROVE  p = q
    BY DEF OneAtATime
  <2>1. Holds(p) /\ Holds(q) /\ Busy(p) /\ Busy(q)
    BY DEF AInv, Exclusive, Working, Busy
  <2>2. mine[p] = mine[q]
    BY <2>1 DEF AInv, Registered
  <2> QED BY <2>1, <2>2 DEF Holds
<1> QED BY <1>1, InitAInv, NextAInv, PTL DEF Spec

(* The second look under the lock holds until the report is saved: nobody  *)
(* else saves one of this asset, and the clock only moves on.              *)
THEOREM NotReplacedEarly == Spec => ReplacedWhenDue
<1>1. AInv /\ [Next]_vars =>
        [\A p \in Procs : Save(p) /\ ~req[p].refresh /\ cached[Asset(p)] # Never =>
           clock - cached[Asset(p)] >= TTL]_vars
  <2> SUFFICES ASSUME AInv, NEW p \in Procs, Save(p), ~req[p].refresh, cached[Asset(p)] # Never
               PROVE  clock - cached[Asset(p)] >= TTL
    OBVIOUS
  <2>1. Busy(p) /\ Due(p) /\ started[p] <= clock /\ req[p] \in Requests
    BY DEF AInv, Exclusive, Save, Working, Registered, Busy, Kinds
  <2>2. cached[Asset(p)] \in Nat /\ started[p] \in Nat /\ clock \in Nat
    BY <2>1 DEF AInv, Kinds, Asset, Requests
  <2>3. ~(started[p] - cached[Asset(p)] < TTL)
    BY <2>1 DEF Due, YoungerThan
  <2> QED BY <2>1, <2>2, <2>3, TimesAssumption
<1> QED BY <1>1, InitAInv, NextAInv, PTL DEF Spec, ReplacedWhenDue

-----------------------------------------------------------------------------
(* The windows. Looking at the slots of some time or later, in time order, *)
(* there are never more than requests that work on one, or kept theirs,    *)
(* from that time on: whichever slot a refund takes, it takes one of the   *)
(* latest, and a slot that is gone is missing at every earlier time.       *)
Entry == [user : Users, at : Nat, made : BOOLEAN]

After(c) == {t \in Int : t >= c}

SpentAfter(U, c) == {e \in Entry : e.user \in U /\ e.at >= c}

At(s, T) == {i \in 1..Len(s) : s[i] \in T}

WorkFrom(U, c) == {p \in Procs : Working(p) /\ req[p].user \in U /\ slotAt[p] >= c}

Dropped(s, n, r) == n \in 0..Len(s) /\ r = SubSeq(s, n + 1, Len(s))

Missing(s, n, T) == \A i \in 1..n : s[i] \notin T

Shifted(s, n, r) == Len(r) = Len(s) - n /\ \A i \in 1..Len(r) : r[i] = s[n + i]

InOrder(s) ==
  /\ s \in Seq(Nat)
  /\ \A i \in 1..Len(s) : s[i] <= clock
  /\ \A i, j \in 1..Len(s) : i <= j => s[i] <= s[j]

Matched(s, U) ==
  \A c \in Int : c >= clock - Window =>
    Cardinality(At(s, After(c))) <= Cardinality(At(spent, SpentAfter(U, c))) + Cardinality(WorkFrom(U, c))

SlotsInv ==
  /\ slotAt \in [Procs -> Nat] /\ gone \subseteq Users /\ spent \in Seq(Entry)
  /\ userSlots \in [Users -> Seq(Nat)]
  /\ InOrder(globalSlots) /\ Matched(globalSlots, Users)
  /\ \A u \in Users : InOrder(userSlots[u]) /\ Matched(userSlots[u], {u})

(* How many entries of a sequence are in a set, as it grows and shrinks.   *)
LEMMA CountType ==
  ASSUME NEW S, NEW s \in Seq(S), NEW T
  PROVE  IsFiniteSet(At(s, T)) /\ Cardinality(At(s, T)) \in Nat
<1>1. Len(s) \in Nat
  OBVIOUS
<1>2. IsFiniteSet(1..Len(s))
  BY <1>1, FS_Interval
<1>3. At(s, T) \in SUBSET (1..Len(s))
  BY DEF At
<1> QED BY <1>2, <1>3, FS_Subset, FS_CardinalityType

LEMMA CountAppended ==
  ASSUME NEW S, NEW s \in Seq(S), NEW e \in S, NEW T
  PROVE  Cardinality(At(Append(s, e), T)) = Cardinality(At(s, T)) + (IF e \in T THEN 1 ELSE 0)
<1>1. Len(s) \in Nat /\ IsFiniteSet(At(s, T)) /\ Cardinality(At(s, T)) \in Nat
  BY CountType
<1>2. /\ Len(Append(s, e)) = Len(s) + 1 /\ Append(s, e)[Len(s) + 1] = e
      /\ \A i \in 1..Len(s) : Append(s, e)[i] = s[i]
  BY AppendFacts
<1>3. Len(s) + 1 \notin At(s, T)
  BY <1>1 DEF At
<1>4. CASE e \in T
  <2>1. At(Append(s, e), T) = At(s, T) \cup {Len(s) + 1}
    BY <1>1, <1>2, <1>4 DEF At
  <2> QED BY <1>1, <1>3, <1>4, <2>1, FS_AddElement
<1>5. CASE e \notin T
  <2>1. At(Append(s, e), T) = At(s, T)
    BY <1>1, <1>2, <1>5 DEF At
  <2> QED BY <1>1, <1>5, <2>1
<1> QED BY <1>4, <1>5

LEMMA CountWithoutNewest ==
  ASSUME NEW S, NEW s \in Seq(S), s # << >>, NEW T
  PROVE  /\ Len(s) \in 1..Len(s) /\ WithoutNewest(s) \in Seq(S) /\ Len(WithoutNewest(s)) = Len(s) - 1
         /\ \A i \in 1..Len(s) - 1 : WithoutNewest(s)[i] = s[i]
         /\ Cardinality(At(WithoutNewest(s), T)) = Cardinality(At(s, T)) - (IF s[Len(s)] \in T THEN 1 ELSE 0)
<1> DEFINE r == WithoutNewest(s)
<1>1. Len(s) \in Nat /\ Len(s) # 0 /\ IsFiniteSet(At(s, T)) /\ Cardinality(At(s, T)) \in Nat
  BY CountType
<1>2. r = SubSeq(s, 1, Len(s) - 1)
  BY DEF WithoutNewest
<1>3. r \in Seq(S) /\ Len(r) = Len(s) - 1 /\ \A i \in 1..Len(s) - 1 : r[i] = s[i]
  <2>1. \A i \in 1..Len(s) - 1 : s[i] \in S
    BY <1>1
  <2>2. 1 \in Int /\ Len(s) - 1 \in Int
    BY <1>1
  <2>3. /\ SubSeq(s, 1, Len(s) - 1) \in Seq(S)
        /\ Len(SubSeq(s, 1, Len(s) - 1)) = IF 1 <= Len(s) - 1 THEN Len(s) - 1 - 1 + 1 ELSE 0
        /\ \A i \in 1..Len(s) - 1 - 1 + 1 : SubSeq(s, 1, Len(s) - 1)[i] = s[1 + i - 1]
    BY <2>1, <2>2, SubSeqProperties
  <2>4. Len(r) = Len(s) - 1
    <3> DEFINE n == Len(s)
    <3>1. n \in Nat /\ n # 0 /\ Len(r) = IF 1 <= n - 1 THEN n - 1 - 1 + 1 ELSE 0
      BY <1>1, <1>2, <2>3
    <3> HIDE DEF n, r
    <3>2. Len(r) = n - 1
      BY <3>1
    <3> QED BY <3>2 DEF n
  <2>5. ASSUME NEW i \in 1..Len(s) - 1 PROVE r[i] = s[i]
    <3>1. i \in 1..Len(s) - 1 - 1 + 1 /\ 1 + i - 1 = i
      BY <1>1
    <3>2. SubSeq(s, 1, Len(s) - 1)[i] = s[1 + i - 1]
      BY <2>3, <3>1
    <3> QED BY <1>2, <3>1, <3>2
  <2> QED BY <1>2, <2>3, <2>4, <2>5
<1> HIDE DEF r
<1>4. At(r, T) = At(s, T) \ {Len(s)}
  BY <1>1, <1>3 DEF At
<1>5. Len(s) \in At(s, T) <=> s[Len(s)] \in T
  BY <1>1 DEF At
<1>6. Cardinality(At(r, T)) = Cardinality(At(s, T)) - (IF s[Len(s)] \in T THEN 1 ELSE 0)
  <2>1. CASE Len(s) \in At(s, T)
    BY <1>1, <1>4, <1>5, <2>1, FS_RemoveElement
  <2>2. CASE Len(s) \notin At(s, T)
    <3>1. At(s, T) \ {Len(s)} = At(s, T)
      BY <2>2
    <3>2. Cardinality(At(r, T)) = Cardinality(At(s, T)) /\ s[Len(s)] \notin T
      BY <1>4, <1>5, <2>2, <3>1
    <3> QED BY <1>1, <3>2
  <2> QED BY <2>1, <2>2
<1> QED BY <1>1, <1>3, <1>6 DEF r

LEMMA CountDropped ==
  ASSUME NEW S, NEW s \in Seq(S), NEW n, NEW r, Dropped(s, n, r), NEW T, Missing(s, n, T)
  PROVE  r \in Seq(S) /\ Shifted(s, n, r) /\ Cardinality(At(r, T)) = Cardinality(At(s, T))
<1> USE DEF Dropped, Missing, Shifted
<1>1. Len(s) \in Nat /\ n \in Nat /\ n <= Len(s)
  OBVIOUS
<1>2. r \in Seq(S) /\ Len(r) = Len(s) - n /\ \A i \in 1..Len(r) : r[i] = s[n + i]
  <2>1. \A i \in n + 1..Len(s) : s[i] \in S
    BY <1>1
  <2>2. n + 1 \in Int /\ Len(s) \in Int
    BY <1>1
  <2>3. /\ SubSeq(s, n + 1, Len(s)) \in Seq(S)
        /\ Len(SubSeq(s, n + 1, Len(s))) = IF n + 1 <= Len(s) THEN Len(s) - (n + 1) + 1 ELSE 0
        /\ \A i \in 1..Len(s) - (n + 1) + 1 : SubSeq(s, n + 1, Len(s))[i] = s[n + 1 + i - 1]
    BY <2>1, <2>2, SubSeqProperties
  <2>4. r \in Seq(S) /\ Len(r) = Len(s) - n
    BY <1>1, <2>3
  <2>5. ASSUME NEW i \in 1..Len(r) PROVE r[i] = s[n + i]
    <3>1. i \in 1..Len(s) - (n + 1) + 1 /\ n + 1 + i - 1 = n + i
      BY <1>1, <2>4
    <3>2. SubSeq(s, n + 1, Len(s))[i] = s[n + 1 + i - 1]
      BY <2>3, <3>1
    <3> QED BY <3>1, <3>2
  <2> QED BY <2>4, <2>5
<1>3. \A j \in At(s, T) : j \in Int /\ j > n /\ j - n \in At(r, T)
  <2> TAKE j \in At(s, T)
  <2>1. j \in 1..Len(s) /\ s[j] \in T
    BY DEF At
  <2>2. j > n
    BY <1>1, <2>1
  <2>3. j - n \in 1..Len(r) /\ n + (j - n) = j
    BY <1>1, <1>2, <2>1, <2>2
  <2>4. r[j - n] = s[j]
    BY <1>2, <2>3
  <2>5. j - n \in At(r, T)
    <3> DEFINE i == j - n
    <3>1. i \in 1..Len(r) /\ r[i] \in T
      BY <2>1, <2>3, <2>4
    <3> HIDE DEF i
    <3>2. i \in At(r, T)
      BY <3>1 DEF At
    <3> QED BY <3>2 DEF i
  <2> QED BY <2>1, <2>2, <2>5
<1>4. \A i \in At(r, T) : i \in Int /\ n + i \in At(s, T)
  BY <1>1, <1>2 DEF At
<1> DEFINE f == [i \in At(r, T) |-> n + i]
<1>5. f \in Bijection(At(r, T), At(s, T))
  <2>1. f \in [At(r, T) -> At(s, T)]
    BY <1>4
  <2>2. \A i, j \in At(r, T) : f[i] = f[j] => i = j
    BY <1>1, <1>4
  <2>3. \A j \in At(s, T) : \E i \in At(r, T) : f[i] = j
    <3> TAKE j \in At(s, T)
    <3>1. j - n \in At(r, T) /\ f[j - n] = j
      BY <1>1, <1>3
    <3> QED BY <3>1
  <2> QED BY <2>1, <2>2, <2>3 DEF Bijection, Injection, Surjection, IsInjective
<1>6. IsFiniteSet(At(r, T))
  BY <1>2, CountType
<1> QED BY <1>2, <1>5, <1>6, FS_Bijection DEF ExistsBijection

(* What is dropped in front is older than the window, and what is left     *)
(* begins within it.                                                       *)
LEMMA OlderFits ==
  ASSUME NEW s \in Seq(Int), clock \in Nat, Window \in Nat
  PROVE  /\ Older(s) \in 0..Len(s)
         /\ \A i \in 1..Older(s) : s[i] < clock - Window
         /\ Older(s) = Len(s) \/ s[Older(s) + 1] >= clock - Window
<1> DEFINE Fits(n) == n = Len(s) \/ s[n + 1] >= clock - Window
           Found == {n \in 0..Len(s) : Fits(n)}
<1>1. Len(s) \in Nat /\ Found \subseteq Nat /\ Len(s) \in Found
  OBVIOUS
<1>2. PICK m \in Found : \A n \in Found : ~(n < m)
  <2> HIDE DEF Found
  <2>1. \E x \in Found : \A y \in Found : ~(<<y, x>> \in OpToRel(<, Nat))
    BY <1>1, NatLessThanWellFounded, WFMin
  <2>2. \A x, y \in Found : y < x => <<y, x>> \in OpToRel(<, Nat)
    BY <1>1 DEF OpToRel
  <2> QED BY <2>1, <2>2
<1>3. ASSUME NEW i \in 1..m PROVE s[i] < clock - Window
  <2>1. i - 1 \in 0..Len(s) /\ i - 1 < m /\ i - 1 # Len(s) /\ i - 1 + 1 = i /\ i \in 1..Len(s)
    BY <1>1
  <2>2. i - 1 \notin Found
    BY <1>2, <2>1
  <2>3. ~(s[i] >= clock - Window)
    BY <2>1, <2>2
  <2>4. s[i] \in Int
    BY <2>1
  <2> QED BY <2>3, <2>4
<1>4. m \in 0..Len(s) /\ Fits(m)
  OBVIOUS
<1> HIDE DEF Found
<1> QED BY <1>3, <1>4 DEF Older

(* A window in time order: nothing in it is later than now, dropping the   *)
(* old ones and giving back the newest keep the order, and the newest is   *)
(* among the slots of any time from which there are some.                  *)
LEMMA CountUnexpired ==
  ASSUME NEW s, InOrder(s), clock \in Nat, NEW r, r = Unexpired(s)
  PROVE  /\ InOrder(r)
         /\ \A c \in Int : c >= clock - Window => Cardinality(At(r, After(c))) = Cardinality(At(s, After(c)))
         /\ Len(r) = Cardinality(At(r, After(clock - Window)))
<1> DEFINE n == Older(s)
<1>0. Window \in Nat /\ s \in Seq(Nat) /\ s \in Seq(Int) /\ Len(s) \in Nat
  BY TimesAssumption DEF InOrder
<1>1. /\ n \in 0..Len(s)
      /\ \A i \in 1..n : s[i] < clock - Window
      /\ n = Len(s) \/ s[n + 1] >= clock - Window
  BY <1>0, OlderFits
<1>2. r = SubSeq(s, n + 1, Len(s))
  BY DEF Unexpired
<1> HIDE DEF n
<1>3. ASSUME NEW c \in Int, c >= clock - Window
      PROVE  /\ r \in Seq(Nat) /\ Len(r) = Len(s) - n /\ \A i \in 1..Len(r) : r[i] = s[n + i]
             /\ Cardinality(At(r, After(c))) = Cardinality(At(s, After(c)))
  <2>1. \A i \in 1..n : s[i] \notin After(c)
    <3> SUFFICES ASSUME NEW i \in 1..n, s[i] >= c PROVE FALSE
      BY DEF After
    <3>1. i \in 1..Len(s)
      BY <1>0, <1>1
    <3>2. s[i] \in Nat /\ s[i] < clock - Window
      BY <1>0, <1>1, <3>1
    <3> QED BY <1>0, <1>3, <3>2
  <2>2. PICK T : T = After(c)
    OBVIOUS
  <2>3. \A i \in 1..n : s[i] \notin T
    BY <2>1, <2>2
  <2>4. /\ r \in Seq(Nat) /\ Len(r) = Len(s) - n /\ \A i \in 1..Len(r) : r[i] = s[n + i]
        /\ Cardinality(At(r, T)) = Cardinality(At(s, T))
    <3>1. Dropped(s, n, r) /\ Missing(s, n, T)
      BY <1>1, <1>2, <2>3 DEF Dropped, Missing
    <3>2. r \in Seq(Nat) /\ Shifted(s, n, r) /\ Cardinality(At(r, T)) = Cardinality(At(s, T))
      BY <1>0, <3>1, CountDropped
    <3> QED BY <3>2 DEF Shifted
  <2> QED BY <2>2, <2>4
<1>4. clock - Window \in Int
  BY <1>0
<1>5. r \in Seq(Nat) /\ Len(r) = Len(s) - n /\ \A i \in 1..Len(r) : r[i] = s[n + i]
  BY <1>0, <1>3, <1>4
<1>6. \A i \in 1..Len(r) : n + i \in 1..Len(s) /\ n + 1 \in 1..Len(s) /\ n + 1 <= n + i /\ n # Len(s)
  BY <1>0, <1>1, <1>5
<1>7. InOrder(r)
  <2>1. \A i \in 1..Len(r) : r[i] <= clock
    BY <1>5, <1>6 DEF InOrder
  <2>2. ASSUME NEW i \in 1..Len(r), NEW j \in 1..Len(r), i <= j PROVE r[i] <= r[j]
    <3>1. n + i <= n + j
      BY <1>1, <1>5, <2>2
    <3> QED BY <1>5, <1>6, <3>1 DEF InOrder
  <2> QED BY <1>5, <2>1, <2>2 DEF InOrder
<1>8. Len(r) = Cardinality(At(r, After(clock - Window)))
  <2>1. ASSUME NEW i \in 1..Len(r) PROVE r[i] \in After(clock - Window)
    <3>1. s[n + 1] >= clock - Window /\ s[n + 1] <= s[n + i] /\ s[n + 1] \in Nat /\ s[n + i] \in Nat
      BY <1>0, <1>1, <1>6 DEF InOrder
    <3>2. r[i] = s[n + i]
      BY <1>5
    <3> QED BY <1>0, <3>1, <3>2 DEF After
  <2>2. At(r, After(clock - Window)) = 1..Len(r)
    BY <2>1 DEF At
  <2>3. Len(r) \in Nat
    BY <1>5
  <2>4. Cardinality(1..Len(r)) = Len(r)
    BY <2>3, FS_Interval
  <2> QED BY <2>2, <2>4
<1> QED BY <1>3, <1>7, <1>8

LEMMA CountLater ==
  ASSUME NEW s, InOrder(s), clock \in Nat, NEW c \in Int, c > clock
  PROVE  Cardinality(At(s, After(c))) = 0
<1>1. \A i \in 1..Len(s) : s[i] \in Nat /\ s[i] <= clock
  BY DEF InOrder
<1>2. At(s, After(c)) = {}
  BY <1>1 DEF At, After
<1> QED BY <1>2, FS_EmptySet

LEMMA CountGivenBack ==
  ASSUME NEW s, InOrder(s), clock \in Nat, NEW r, r = WithoutNewest(s)
  PROVE  /\ InOrder(r)
         /\ \A c \in Int :
              /\ Cardinality(At(r, After(c))) <= Cardinality(At(s, After(c)))
              /\ \/ Cardinality(At(r, After(c))) = 0
                 \/ Cardinality(At(r, After(c))) = Cardinality(At(s, After(c))) - 1
<1>0. s \in Seq(Nat)
  BY DEF InOrder
<1>1. CASE s = << >>
  <2>1. r = s
    BY <1>1 DEF WithoutNewest
  <2>2. \A c \in Int : At(s, After(c)) = {}
    BY <1>1 DEF At
  <2> QED BY <2>1, <2>2, FS_EmptySet
<1>2. CASE s # << >>
  <2>1. /\ Len(s) \in 1..Len(s) /\ r \in Seq(Nat) /\ Len(r) = Len(s) - 1
        /\ \A i \in 1..Len(s) - 1 : r[i] = s[i]
        /\ \A c \in Int : Cardinality(At(r, After(c)))
             = Cardinality(At(s, After(c))) - (IF s[Len(s)] \in After(c) THEN 1 ELSE 0)
    BY <1>0, <1>2, CountWithoutNewest
  <2>2. Len(s) \in Nat /\ Len(s) > 0
    BY <1>0, <2>1
  <2>3. InOrder(r)
    <3>1. \A i \in 1..Len(r) : i \in 1..Len(s) /\ r[i] = s[i]
      BY <2>1, <2>2
    <3> QED BY <2>1, <3>1 DEF InOrder
  <2>4. ASSUME NEW c \in Int
        PROVE  /\ Cardinality(At(r, After(c))) <= Cardinality(At(s, After(c)))
               /\ \/ Cardinality(At(r, After(c))) = 0
                  \/ Cardinality(At(r, After(c))) = Cardinality(At(s, After(c))) - 1
    <3>1. Cardinality(At(s, After(c))) \in Nat
      BY <1>0, CountType
    <3>2. CASE s[Len(s)] \in After(c)
      <4>1. Cardinality(At(r, After(c))) = Cardinality(At(s, After(c))) - 1
        BY <2>1, <3>2
      <4> QED BY <3>1, <4>1
    <3>3. CASE s[Len(s)] \notin After(c)
      <4>1. Cardinality(At(r, After(c))) = Cardinality(At(s, After(c)))
        BY <2>1, <3>1, <3>3
      <4>2. \A i \in 1..Len(s) : s[i] \in Nat /\ s[i] <= s[Len(s)]
        BY <1>0, <2>1 DEF InOrder
      <4>3. \A i \in 1..Len(s) : s[i] \notin After(c)
        BY <2>1, <3>3, <4>2 DEF After
      <4>4. At(s, After(c)) = {}
        BY <4>3 DEF At
      <4>5. Cardinality(At(s, After(c))) = 0
        BY <4>4, FS_EmptySet
      <4> QED BY <4>1, <4>5
    <3> QED BY <3>2, <3>3
  <2> QED BY <2>3, <2>4
<1> QED BY <1>1, <1>2

(* The entries that no longer count are from before every time that does.  *)
LEMMA CountStill ==
  ASSUME spent \in Seq(Entry), clock \in Nat, NEW r, r = StillCounts(spent)
  PROVE  /\ r \in Seq(Entry)
         /\ \A U \in SUBSET Users : \A c \in Int : c >= clock - Window =>
              Cardinality(At(r, SpentAfter(U, c))) = Cardinality(At(spent, SpentAfter(U, c)))
<1> DEFINE times == [i \in 1..Len(spent) |-> spent[i].at]
           n == Older(times)
<1>0. Window \in Nat /\ Len(spent) \in Nat /\ \A i \in 1..Len(spent) : spent[i].at \in Nat
  <2>1. \A i \in 1..Len(spent) : spent[i] \in Entry
    OBVIOUS
  <2>2. \A e \in Entry : e.at \in Nat
    BY DEF Entry
  <2> QED BY <2>1, <2>2, TimesAssumption
<1>1. times \in Seq(Int) /\ Len(times) = Len(spent) /\ \A i \in 1..Len(spent) : times[i] = spent[i].at
  BY <1>0
<1>2. r = SubSeq(spent, n + 1, Len(spent))
  BY DEF StillCounts
<1> HIDE DEF times
<1>3. n \in 0..Len(spent) /\ \A i \in 1..n : times[i] < clock - Window
  BY <1>0, <1>1, OlderFits
<1> HIDE DEF n
<1>4. ASSUME NEW U \in SUBSET Users, NEW c \in Int, c >= clock - Window
      PROVE  r \in Seq(Entry) /\ Cardinality(At(r, SpentAfter(U, c))) = Cardinality(At(spent, SpentAfter(U, c)))
  <2>1. \A i \in 1..n : spent[i] \notin SpentAfter(U, c)
    <3> SUFFICES ASSUME NEW i \in 1..n, spent[i].at >= c PROVE FALSE
      BY DEF SpentAfter
    <3>1. i \in 1..Len(spent)
      BY <1>0, <1>3
    <3>2. spent[i].at \in Nat /\ spent[i].at < clock - Window
      BY <1>0, <1>1, <1>3, <3>1
    <3> QED BY <1>0, <1>4, <3>2
  <2>2. PICK T : T = SpentAfter(U, c)
    OBVIOUS
  <2>3. \A i \in 1..n : spent[i] \notin T
    BY <2>1, <2>2
  <2>4. PICK s : s = spent
    OBVIOUS
  <2>5. s \in Seq(Entry) /\ Dropped(s, n, r) /\ Missing(s, n, T)
    BY <1>2, <1>3, <2>3, <2>4 DEF Dropped, Missing
  <2>6. r \in Seq(Entry) /\ Cardinality(At(r, T)) = Cardinality(At(s, T))
    BY <2>5, CountDropped
  <2> QED BY <2>2, <2>4, <2>6
<1>5. clock - Window \in Int /\ {} \in SUBSET Users
  BY <1>0
<1>6. r \in Seq(Entry)
  <2>1. clock - Window >= clock - Window
    BY <1>5
  <2> QED BY <1>4, <1>5, <2>1
<1> QED BY <1>4, <1>6

LEMMA WorkType ==
  ASSUME NEW U, NEW c
  PROVE  IsFiniteSet(WorkFrom(U, c)) /\ Cardinality(WorkFrom(U, c)) \in Nat
<1>1. WorkFrom(U, c) \in SUBSET Procs
  BY DEF WorkFrom
<1> QED BY <1>1, ProcsFinite, FS_Subset, FS_CardinalityType

LEMMA EmptyWindow == InOrder(<< >>)' /\ \A T : Cardinality(At(<< >>, T)) = 0
<1>1. \A T : At(<< >>, T) = {}
  BY DEF At
<1> QED BY <1>1, FS_EmptySet DEF InOrder

(* Who is working keeps working on the same, nothing is spent, and the     *)
(* windows at most lose their expired slots.                               *)
LEMMA QuietSlots ==
  ASSUME SlotsInv, clock \in Nat, clock' \in Nat, clock' >= clock, spent' = spent, gone' \subseteq Users,
         slotAt' \in [Procs -> Nat], userSlots' \in [Users -> Seq(Nat)],
         \A q \in Procs : Working(q)' <=> Working(q),
         \A q \in Procs : Working(q) => req'[q] = req[q] /\ slotAt'[q] = slotAt[q],
         \A u \in Users : userSlots'[u] \in {userSlots[u], Unexpired(userSlots[u]), << >>},
         globalSlots' \in {globalSlots, Unexpired(globalSlots)}
  PROVE  SlotsInv'
<1>1. ASSUME NEW U, NEW c PROVE WorkFrom(U, c)' = WorkFrom(U, c)
  BY DEF WorkFrom
<1>2. ASSUME NEW s, NEW r, NEW U, InOrder(s), Matched(s, U), r \in {s, Unexpired(s), << >>}
      PROVE  InOrder(r)' /\ Matched(r, U)'
  <2>1. \A c \in Int : Cardinality(At(s, After(c))) \in Nat
    BY <1>2, CountType DEF InOrder
  <2>2. /\ InOrder(r)
        /\ \A c \in Int : c >= clock - Window => Cardinality(At(r, After(c))) <= Cardinality(At(s, After(c)))
    <3>1. CASE r = s
      BY <1>2, <2>1, <3>1
    <3>2. CASE r = Unexpired(s)
      BY <1>2, <2>1, <3>2, CountUnexpired
    <3>3. CASE r = << >>
      <4>1. InOrder(r)
        BY <3>3 DEF InOrder
      <4>2. \A c \in Int : Cardinality(At(r, After(c))) = 0
        BY <3>3, EmptyWindow
      <4> QED BY <2>1, <4>1, <4>2
    <3> QED BY <1>2, <3>1, <3>2, <3>3
  <2>3. InOrder(r)'
    <3>1. r \in Seq(Nat) /\ \A i \in 1..Len(r) : r[i] \in Nat /\ r[i] <= clock
      BY <2>2 DEF InOrder
    <3>2. \A i \in 1..Len(r) : r[i] <= clock'
      BY <3>1
    <3> QED BY <2>2, <3>1, <3>2 DEF InOrder
  <2>4. ASSUME NEW c \in Int, c >= clock' - Window
        PROVE  Cardinality(At(r, After(c)))
                 <= Cardinality(At(spent', SpentAfter(U, c))) + Cardinality(WorkFrom(U, c)')
    <3>1. c >= clock - Window /\ Window \in Nat
      BY <2>4, TimesAssumption
    <3>2. Cardinality(At(s, After(c))) <= Cardinality(At(spent, SpentAfter(U, c))) + Cardinality(WorkFrom(U, c))
      BY <1>2, <3>1 DEF Matched
    <3>3. Cardinality(At(r, After(c))) <= Cardinality(At(s, After(c)))
      BY <2>2, <3>1
    <3>4. Cardinality(At(spent, SpentAfter(U, c))) \in Nat
      BY CountType DEF SlotsInv
    <3>5. Cardinality(WorkFrom(U, c)) \in Nat
      BY WorkType
    <3>6. Cardinality(At(r, After(c))) \in Nat
      BY <2>2, CountType DEF InOrder
    <3> QED BY <1>1, <2>1, <3>2, <3>3, <3>4, <3>5, <3>6
  <2>5. Matched(r, U)'
    BY <2>4 DEF Matched
  <2> QED BY <2>3, <2>5
<1>3. InOrder(globalSlots)' /\ Matched(globalSlots, Users)'
  <2>1. PICK s, r : s = globalSlots /\ r = globalSlots'
    OBVIOUS
  <2>2. InOrder(s) /\ Matched(s, Users) /\ r \in {s, Unexpired(s), << >>}
    BY <2>1 DEF SlotsInv
  <2>3. InOrder(r)' /\ Matched(r, Users)'
    BY <1>2, <2>2
  <2> QED BY <2>1, <2>3 DEF InOrder, Matched
<1>4. ASSUME NEW u \in Users PROVE InOrder(userSlots[u])' /\ Matched(userSlots[u], {u})'
  <2>1. PICK s, r : s = userSlots[u] /\ r = userSlots'[u]
    OBVIOUS
  <2>2. InOrder(s) /\ Matched(s, {u}) /\ r \in {s, Unexpired(s), << >>}
    BY <2>1 DEF SlotsInv
  <2>3. InOrder(r)' /\ Matched(r, {u})'
    BY <1>2, <2>2
  <2> QED BY <2>1, <2>3 DEF InOrder, Matched
<1> QED BY <1>3, <1>4 DEF SlotsInv

(* The request that takes a slot starts to work: one more of both, from    *)
(* every time up to now; from later times there is no slot at all.         *)
LEMMA TakeSlots ==
  ASSUME SlotsInv, Kinds, Registered, NEW p \in Procs, Take(p)
  PROVE  SlotsInv'
<1> DEFINE u0 == req[p].user
<1>1. /\ pc[p] = "waiting" /\ ~Working(p) /\ clock \in Nat
      /\ userSlots' = [userSlots EXCEPT ![u0] = Append(Unexpired(@), clock)]
      /\ globalSlots' = Append(Unexpired(globalSlots), clock)
      /\ pc' = [pc EXCEPT ![p] = "working"]
      /\ slotAt' = [slotAt EXCEPT ![p] = clock]
      /\ UNCHANGED <<clock, req, gone, spent>>
  BY DEF Take, Working, Kinds
<1>2. u0 \in Users
  BY <1>1 DEF Registered, Busy, Kinds, Requests
<1>3. \A q \in Procs : q # p => (Working(q)' <=> Working(q)) /\ slotAt'[q] = slotAt[q]
  BY <1>1 DEF Working, Kinds, SlotsInv
<1>4. Working(p)' /\ slotAt'[p] = clock
  BY <1>1 DEF Working, Kinds, SlotsInv
<1> HIDE DEF u0
<1>5. ASSUME NEW U, NEW c \in Int
      PROVE  /\ p \notin WorkFrom(U, c)
             /\ WorkFrom(U, c)' = IF u0 \in U /\ clock >= c THEN WorkFrom(U, c) \cup {p} ELSE WorkFrom(U, c)
  BY <1>1, <1>3, <1>4 DEF WorkFrom, u0
<1>6. ASSUME NEW s, NEW r, NEW U, InOrder(s), Matched(s, U), u0 \in U, r = Append(Unexpired(s), clock)
      PROVE  InOrder(r)' /\ Matched(r, U)'
  <2>1. PICK e : e = Unexpired(s)
    OBVIOUS
  <2>2. PICK now : now = clock
    OBVIOUS
  <2>3. /\ InOrder(e) /\ e \in Seq(Nat) /\ now \in Nat
        /\ \A c \in Int : c >= clock - Window => Cardinality(At(e, After(c))) = Cardinality(At(s, After(c)))
    BY <1>1, <1>6, <2>1, <2>2, CountUnexpired DEF InOrder
  <2>4. r = Append(e, now)
    BY <1>6, <2>1, <2>2
  <2>5. /\ r \in Seq(Nat) /\ Len(r) = Len(e) + 1 /\ Len(e) \in Nat
        /\ \A i \in 1..Len(e) : r[i] = e[i]
        /\ r[Len(e) + 1] = now
    BY <2>3, <2>4, AppendFacts
  <2>6. InOrder(r)'
    <3>1. \A i \in 1..Len(r) : r[i] \in Nat /\ (i \in 1..Len(e) \/ i = Len(e) + 1)
      BY <2>5
    <3>2. \A i \in 1..Len(e) : e[i] \in Nat /\ e[i] <= now
      BY <2>2, <2>3 DEF InOrder
    <3>3. \A i \in 1..Len(r) : r[i] <= now
      BY <2>3, <2>5, <3>1, <3>2
    <3>4. ASSUME NEW i \in 1..Len(r), NEW j \in 1..Len(r), i <= j PROVE r[i] <= r[j]
      <4>1. CASE j = Len(e) + 1
        BY <2>5, <3>3, <4>1
      <4>2. CASE j \in 1..Len(e)
        <5>1. i \in 1..Len(e)
          BY <2>5, <3>4, <4>2
        <5> QED BY <2>3, <2>5, <3>4, <4>2, <5>1 DEF InOrder
      <4> QED BY <3>1, <4>1, <4>2
    <3> QED BY <1>1, <2>2, <2>5, <3>3, <3>4 DEF InOrder
  <2>7. ASSUME NEW c \in Int, c >= clock - Window
        PROVE  Cardinality(At(r, After(c)))
                 <= Cardinality(At(spent, SpentAfter(U, c))) + Cardinality(WorkFrom(U, c)')
    <3>1. Cardinality(At(spent, SpentAfter(U, c))) \in Nat
      BY CountType DEF SlotsInv
    <3>2. IsFiniteSet(WorkFrom(U, c)) /\ Cardinality(WorkFrom(U, c)) \in Nat
      BY WorkType
    <3>3. Cardinality(At(e, After(c))) \in Nat
      BY <2>3, CountType
    <3>4. Cardinality(At(r, After(c))) = Cardinality(At(e, After(c))) + (IF now \in After(c) THEN 1 ELSE 0)
      BY <2>3, <2>4, CountAppended
    <3>5. Cardinality(At(e, After(c))) <= Cardinality(At(spent, SpentAfter(U, c))) + Cardinality(WorkFrom(U, c))
      BY <1>6, <2>3, <2>7 DEF Matched
    <3>6. CASE now >= c
      <4>1. Cardinality(At(r, After(c))) = Cardinality(At(e, After(c))) + 1
        BY <2>3, <3>4, <3>6 DEF After
      <4>2. WorkFrom(U, c)' = WorkFrom(U, c) \cup {p} /\ p \notin WorkFrom(U, c)
        BY <1>5, <1>6, <2>2, <3>6
      <4>3. Cardinality(WorkFrom(U, c)') = Cardinality(WorkFrom(U, c)) + 1
        BY <3>2, <4>2, FS_AddElement
      <4> QED BY <3>1, <3>2, <3>3, <3>5, <4>1, <4>3
    <3>7. CASE ~(now >= c)
      <4>1. Cardinality(At(r, After(c))) = Cardinality(At(e, After(c)))
        BY <3>3, <3>4, <3>7 DEF After
      <4>2. WorkFrom(U, c)' = WorkFrom(U, c)
        BY <1>5, <2>2, <3>7
      <4> QED BY <3>5, <4>1, <4>2
    <3> QED BY <3>6, <3>7
  <2>8. Matched(r, U)'
    BY <1>1, <2>7 DEF Matched
  <2> QED BY <2>6, <2>8
<1>7. InOrder(globalSlots)' /\ Matched(globalSlots, Users)'
  <2>1. PICK s, r : s = globalSlots /\ r = globalSlots'
    OBVIOUS
  <2>2. InOrder(s) /\ Matched(s, Users) /\ r = Append(Unexpired(s), clock)
    BY <1>1, <2>1 DEF SlotsInv
  <2>3. InOrder(r)' /\ Matched(r, Users)'
    BY <1>2, <1>6, <2>2
  <2> QED BY <2>1, <2>3 DEF InOrder, Matched
<1>8. ASSUME NEW u \in Users
      PROVE  InOrder(userSlots[u])' /\ Matched(userSlots[u], {u})' /\ userSlots'[u] \in Seq(Nat)
  <2>1. PICK s, r : s = userSlots[u] /\ r = userSlots'[u]
    OBVIOUS
  <2>2. InOrder(s) /\ Matched(s, {u})
    BY <2>1 DEF SlotsInv
  <2>3. CASE u = u0
    <3>1. r = Append(Unexpired(s), clock)
      BY <1>1, <2>1, <2>3 DEF SlotsInv
    <3>2. InOrder(r)' /\ Matched(r, {u})'
      BY <1>6, <2>2, <2>3, <3>1
    <3> QED BY <2>1, <3>2 DEF InOrder, Matched
  <2>4. CASE u # u0
    <3>1. r = s
      BY <1>1, <2>1, <2>4 DEF SlotsInv
    <3>2. \A c \in Int : WorkFrom({u}, c)' = WorkFrom({u}, c)
      BY <1>5, <2>4
    <3> QED BY <1>1, <2>1, <2>2, <3>1, <3>2 DEF InOrder, Matched
  <2> QED BY <2>3, <2>4
<1>9. slotAt' \in [Procs -> Nat] /\ gone' \subseteq Users /\ spent' \in Seq(Entry)
  BY <1>1 DEF SlotsInv
<1>10. userSlots' \in [Users -> Seq(Nat)]
  BY <1>1, <1>8 DEF SlotsInv
<1> QED BY <1>7, <1>8, <1>9, <1>10 DEF SlotsInv

(* Whoever works and leaves is counted no more.                            *)
LEMMA WorkLeft ==
  ASSUME SlotsInv, Kinds, NEW p \in Procs, Working(p), Leave(p), NEW U, NEW c \in Int
  PROVE  /\ WorkFrom(U, c)' = WorkFrom(U, c) \ {p}
         /\ p \in WorkFrom(U, c) <=> req[p].user \in U /\ slotAt[p] >= c
         /\ Cardinality(WorkFrom(U, c)') \in Nat
         /\ Cardinality(WorkFrom(U, c)')
              = Cardinality(WorkFrom(U, c)) - (IF p \in WorkFrom(U, c) THEN 1 ELSE 0)
         /\ slotAt' \in [Procs -> Nat]
<1>1. /\ pc' = [pc EXCEPT ![p] = "idle"] /\ req' = [req EXCEPT ![p] = NoRequest]
      /\ slotAt' = [slotAt EXCEPT ![p] = 0]
  BY DEF Leave, Done
<1>2. ~Working(p)' /\ \A q \in Procs : q # p =>
        (Working(q)' <=> Working(q)) /\ req'[q] = req[q] /\ slotAt'[q] = slotAt[q]
  BY <1>1 DEF Working, Kinds, SlotsInv
<1>3. WorkFrom(U, c)' = WorkFrom(U, c) \ {p}
  BY <1>2 DEF WorkFrom
<1>4. p \in WorkFrom(U, c) <=> req[p].user \in U /\ slotAt[p] >= c
  BY DEF WorkFrom
<1>5. IsFiniteSet(WorkFrom(U, c)) /\ Cardinality(WorkFrom(U, c)) \in Nat
  BY WorkType
<1>6. CASE p \in WorkFrom(U, c)
  <2>1. /\ Cardinality(WorkFrom(U, c) \ {p}) = Cardinality(WorkFrom(U, c)) - 1
        /\ IsFiniteSet(WorkFrom(U, c) \ {p})
    BY <1>5, <1>6, FS_RemoveElement
  <2>2. Cardinality(WorkFrom(U, c) \ {p}) \in Nat
    BY <2>1, FS_CardinalityType
  <2> QED BY <1>1, <1>3, <1>4, <1>6, <2>1, <2>2 DEF SlotsInv
<1>7. CASE p \notin WorkFrom(U, c)
  <2>1. WorkFrom(U, c) \ {p} = WorkFrom(U, c)
    BY <1>7
  <2>2. Cardinality(WorkFrom(U, c)') = Cardinality(WorkFrom(U, c))
    BY <1>3, <2>1
  <2>3. slotAt' \in [Procs -> Nat]
    BY <1>1 DEF SlotsInv
  <2>4. Cardinality(WorkFrom(U, c)') = Cardinality(WorkFrom(U, c)) - (IF p \in WorkFrom(U, c) THEN 1 ELSE 0)
    BY <1>5, <1>7, <2>2
  <2> QED BY <1>3, <1>4, <1>5, <2>2, <2>3, <2>4
<1> QED BY <1>6, <1>7

(* No data: whoever took the newest slot, what is left from any time is    *)
(* one less, or nothing.                                                   *)
LEMMA NoDataSlots ==
  ASSUME SlotsInv, Kinds, Registered, NEW p \in Procs, NoData(p)
  PROVE  SlotsInv'
<1> DEFINE u0 == req[p].user
<1>1. /\ Working(p) /\ Leave(p) /\ clock \in Nat
      /\ userSlots' = [userSlots EXCEPT ![u0] = WithoutNewest(@)]
      /\ globalSlots' = WithoutNewest(globalSlots)
      /\ UNCHANGED <<clock, gone, spent>>
  BY DEF NoData, Refund, Working, Kinds
<1>2. u0 \in Users
  BY <1>1 DEF Registered, Busy, Working, Kinds, Requests
<1>3. ASSUME NEW U, NEW c \in Int
      PROVE  /\ p \in WorkFrom(U, c) => u0 \in U
             /\ Cardinality(WorkFrom(U, c)) \in Nat /\ Cardinality(WorkFrom(U, c)') \in Nat
             /\ Cardinality(WorkFrom(U, c)')
                  = Cardinality(WorkFrom(U, c)) - (IF p \in WorkFrom(U, c) THEN 1 ELSE 0)
             /\ Cardinality(At(spent, SpentAfter(U, c))) \in Nat
  <2>1. Cardinality(WorkFrom(U, c)) \in Nat
    BY WorkType
  <2>2. Cardinality(At(spent, SpentAfter(U, c))) \in Nat
    BY CountType DEF SlotsInv
  <2> QED BY <1>1, <2>1, <2>2, WorkLeft
<1> HIDE DEF u0
<1>4. ASSUME NEW s, NEW r, NEW U, InOrder(s), Matched(s, U),
             r = WithoutNewest(s) \/ (r = s /\ u0 \notin U)
      PROVE  InOrder(r)' /\ Matched(r, U)'
  <2>1. /\ InOrder(r)
        /\ \A c \in Int :
             \/ u0 \notin U /\ Cardinality(At(r, After(c))) = Cardinality(At(s, After(c)))
             \/ /\ Cardinality(At(r, After(c))) <= Cardinality(At(s, After(c)))
                /\ \/ Cardinality(At(r, After(c))) = 0
                   \/ Cardinality(At(r, After(c))) = Cardinality(At(s, After(c))) - 1
    BY <1>1, <1>4, CountGivenBack
  <2>2. InOrder(r)'
    BY <1>1, <2>1 DEF InOrder
  <2>3. ASSUME NEW c \in Int, c >= clock - Window
        PROVE  Cardinality(At(r, After(c)))
                 <= Cardinality(At(spent, SpentAfter(U, c))) + Cardinality(WorkFrom(U, c)')
    <3> DEFINE ks == Cardinality(At(s, After(c)))
               kr == Cardinality(At(r, After(c)))
               sp == Cardinality(At(spent, SpentAfter(U, c)))
               w == Cardinality(WorkFrom(U, c))
               v == Cardinality(WorkFrom(U, c)')
    <3>1. ks \in Nat
      BY <1>4, CountType DEF InOrder
    <3>2. kr \in Nat
      BY <2>1, CountType DEF InOrder
    <3>3. ks <= sp + w
      BY <1>4, <2>3 DEF Matched
    <3>4. sp \in Nat /\ w \in Nat /\ v \in Nat
      BY <1>3
    <3>5. (v = w) \/ (v = w - 1 /\ u0 \in U)
      BY <1>3
    <3>6. \/ u0 \notin U /\ kr = ks
          \/ kr <= ks /\ (kr = 0 \/ kr = ks - 1)
      BY <2>1
    <3> HIDE DEF ks, kr, sp, w, v
    <3>7. kr <= sp + v
      BY <3>1, <3>2, <3>3, <3>4, <3>5, <3>6
    <3> QED BY <3>7 DEF kr, sp, v
  <2>4. Matched(r, U)'
    BY <1>1, <2>3 DEF Matched
  <2> QED BY <2>2, <2>4
<1>5. InOrder(globalSlots)' /\ Matched(globalSlots, Users)'
  <2>1. PICK s, r : s = globalSlots /\ r = globalSlots'
    OBVIOUS
  <2>2. InOrder(s) /\ Matched(s, Users) /\ r = WithoutNewest(s)
    BY <1>1, <2>1 DEF SlotsInv
  <2>3. InOrder(r)' /\ Matched(r, Users)'
    BY <1>4, <2>2
  <2> QED BY <2>1, <2>3 DEF InOrder, Matched
<1>6. ASSUME NEW u \in Users
      PROVE  InOrder(userSlots[u])' /\ Matched(userSlots[u], {u})' /\ userSlots'[u] \in Seq(Nat)
  <2>1. PICK s, r : s = userSlots[u] /\ r = userSlots'[u]
    OBVIOUS
  <2>2. InOrder(s) /\ Matched(s, {u})
    BY <2>1 DEF SlotsInv
  <2>3. r = WithoutNewest(s) \/ (r = s /\ u0 \notin {u})
    BY <1>1, <1>2, <2>1 DEF SlotsInv
  <2>4. InOrder(r)' /\ Matched(r, {u})'
    BY <1>4, <2>2, <2>3
  <2> QED BY <2>1, <2>4 DEF InOrder, Matched
<1>7. slotAt' \in [Procs -> Nat] /\ gone' \subseteq Users /\ spent' \in Seq(Entry)
  <2>1. 0 \in Int
    OBVIOUS
  <2> QED BY <1>1, <2>1, WorkLeft DEF SlotsInv
<1>8. userSlots' \in [Users -> Seq(Nat)]
  BY <1>1, <1>6 DEF SlotsInv
<1> QED BY <1>5, <1>6, <1>7, <1>8 DEF SlotsInv

(* A slot that is kept: the request is counted as spent from now on.       *)
LEMMA KeepSlots ==
  ASSUME SlotsInv, Kinds, Registered, NEW p \in Procs, NEW made \in BOOLEAN, Working(p), Leave(p), Keep(p, made),
         UNCHANGED <<clock, windows, gone>>
  PROVE  SlotsInv'
<1>1. clock \in Nat /\ UNCHANGED <<clock, userSlots, globalSlots, gone>>
  BY DEF Kinds, windows
<1>2. req[p].user \in Users /\ slotAt[p] \in Nat
  BY DEF Registered, Busy, Working, Kinds, Requests, SlotsInv
<1>3. PICK e : e = [user |-> req[p].user, at |-> slotAt[p], made |-> made]
  OBVIOUS
<1>4. e \in Entry /\ e.user = req[p].user /\ e.at = slotAt[p]
  BY <1>2, <1>3 DEF Entry
<1>5. PICK k : k = StillCounts(spent)
  OBVIOUS
<1>6. spent' = Append(k, e)
  BY <1>3, <1>5 DEF Keep
<1>7. /\ k \in Seq(Entry)
      /\ \A U \in SUBSET Users : \A c \in Int : c >= clock - Window =>
           Cardinality(At(k, SpentAfter(U, c))) = Cardinality(At(spent, SpentAfter(U, c)))
  BY <1>1, <1>5, CountStill DEF SlotsInv
<1>8. spent' \in Seq(Entry)
  BY <1>4, <1>6, <1>7, AppendFacts
<1>9. ASSUME NEW s, NEW U \in SUBSET Users, InOrder(s), Matched(s, U)
      PROVE  InOrder(s)' /\ Matched(s, U)'
  <2>1. InOrder(s)'
    BY <1>1, <1>9 DEF InOrder
  <2>2. ASSUME NEW c \in Int, c >= clock - Window
        PROVE  Cardinality(At(s, After(c)))
                 <= Cardinality(At(spent', SpentAfter(U, c))) + Cardinality(WorkFrom(U, c)')
    <3> DEFINE sp == Cardinality(At(spent, SpentAfter(U, c)))
               tp == Cardinality(At(spent', SpentAfter(U, c)))
               w == Cardinality(WorkFrom(U, c))
               v == Cardinality(WorkFrom(U, c)')
    <3>1. Cardinality(At(s, After(c))) <= sp + w
      BY <1>9, <2>2 DEF Matched
    <3>2. sp \in Nat
      BY CountType DEF SlotsInv
    <3>3. w \in Nat
      BY WorkType
    <3>4. Cardinality(At(Append(k, e), SpentAfter(U, c)))
            = Cardinality(At(k, SpentAfter(U, c))) + (IF e \in SpentAfter(U, c) THEN 1 ELSE 0)
      BY <1>4, <1>7, CountAppended
    <3>5. tp = sp + (IF e \in SpentAfter(U, c) THEN 1 ELSE 0)
      BY <1>6, <1>7, <2>2, <3>4
    <3>6. v = w - (IF p \in WorkFrom(U, c) THEN 1 ELSE 0)
      BY WorkLeft
    <3>7. e \in SpentAfter(U, c) <=> p \in WorkFrom(U, c)
      BY <1>4, WorkLeft DEF SpentAfter
    <3>8. tp + v = sp + w
      <4> HIDE DEF sp, tp, w, v
      <4> QED BY <3>2, <3>3, <3>5, <3>6, <3>7
    <3> QED BY <3>1, <3>8
  <2>3. Matched(s, U)'
    BY <1>1, <2>2 DEF Matched
  <2> QED BY <2>1, <2>3
<1>10. InOrder(globalSlots)' /\ Matched(globalSlots, Users)'
  <2>1. PICK s : s = globalSlots /\ s = globalSlots'
    BY <1>1
  <2>2. InOrder(s) /\ Matched(s, Users)
    BY <2>1 DEF SlotsInv
  <2>3. InOrder(s)' /\ Matched(s, Users)'
    BY <1>9, <2>2
  <2> QED BY <2>1, <2>3 DEF InOrder, Matched
<1>11. ASSUME NEW u \in Users PROVE InOrder(userSlots[u])' /\ Matched(userSlots[u], {u})'
  <2>1. PICK s : s = userSlots[u] /\ s = userSlots'[u]
    BY <1>1
  <2>2. InOrder(s) /\ Matched(s, {u})
    BY <2>1 DEF SlotsInv
  <2>3. InOrder(s)' /\ Matched(s, {u})'
    BY <1>9, <2>2
  <2> QED BY <2>1, <2>3 DEF InOrder, Matched
<1>12. slotAt' \in [Procs -> Nat]
  <2>1. 0 \in Int
    OBVIOUS
  <2> QED BY <2>1, WorkLeft
<1> QED BY <1>1, <1>8, <1>10, <1>11, <1>12 DEF SlotsInv

LEMMA FreshSlots ==
  /\ Init => SlotsInv
  /\ SlotsInv /\ Restart => SlotsInv'
<1>0. \A T : At(<< >>, T) = {}
  BY DEF At
<1>1. ASSUME Init PROVE SlotsInv
  <2>1. \A U, c : WorkFrom(U, c) = {}
    BY <1>1 DEF Init, WorkFrom, Working
  <2>2. ASSUME NEW U PROVE Matched(<< >>, U)
    <3>1. \A T : Cardinality(At(<< >>, T)) = 0 /\ Cardinality(At(spent, T)) = 0
      BY <1>0, <1>1, FS_EmptySet DEF Init
    <3>2. \A c : Cardinality(WorkFrom(U, c)) = 0
      BY <2>1, FS_EmptySet
    <3> QED BY <3>1, <3>2 DEF Matched
  <2>3. InOrder(<< >>)
    BY DEF InOrder
  <2> QED BY <1>1, <2>2, <2>3 DEF Init, SlotsInv
<1>2. ASSUME SlotsInv, Restart PROVE SlotsInv'
  <2>1. \A U, c : WorkFrom(U, c)' = {}
    BY <1>2 DEF Restart, WorkFrom, Working
  <2>2. ASSUME NEW U PROVE Matched(<< >>, U)'
    <3>1. \A T : Cardinality(At(<< >>, T)) = 0 /\ Cardinality(At(spent', T)) = 0
      BY <1>0, <1>2, FS_EmptySet DEF Restart
    <3>2. \A c : Cardinality(WorkFrom(U, c)') = 0
      BY <2>1, FS_EmptySet
    <3> QED BY <3>1, <3>2 DEF Matched
  <2>3. InOrder(<< >>)'
    BY DEF InOrder
  <2>4. InOrder(globalSlots)' /\ Matched(globalSlots, Users)'
    BY <1>2, <2>2, <2>3 DEF Restart, InOrder, Matched
  <2>5. ASSUME NEW u \in Users PROVE InOrder(userSlots[u])' /\ Matched(userSlots[u], {u})'
    <3>1. userSlots'[u] = << >>
      BY <1>2 DEF Restart
    <3> QED BY <2>2, <2>3, <3>1 DEF InOrder, Matched
  <2> QED BY <1>2, <2>4, <2>5 DEF Restart, SlotsInv
<1> QED BY <1>1, <1>2

LEMMA NextSlots == AInv /\ SlotsInv /\ [Next]_vars => SlotsInv'
<1> SUFFICES ASSUME Kinds, Registered, SlotsInv, [Next]_vars PROVE SlotsInv'
  BY DEF AInv
<1>0. clock \in Nat /\ slotAt \in [Procs -> Nat] /\ gone \subseteq Users /\ userSlots \in [Users -> Seq(Nat)]
  BY DEF Kinds, SlotsInv
<1>1. ASSUME NEW p \in Procs, NEW r \in Requests, Ask(p, r) PROVE SlotsInv'
  <2>1. /\ pc[p] = "idle" /\ pc' = [pc EXCEPT ![p] = "waiting"] /\ req' = [req EXCEPT ![p] = r]
        /\ UNCHANGED <<clock, slotAt, userSlots, globalSlots, gone, spent>>
    BY <1>1 DEF Ask, windows
  <2>2. \A q \in Procs : (Working(q)' <=> Working(q)) /\ (Working(q) => req'[q] = req[q])
    BY <2>1 DEF Working, Kinds
  <2> QED BY <1>0, <2>1, <2>2, QuietSlots
<1>2. ASSUME NEW p \in Procs, Serve(p) \/ OverLimit(p) PROVE SlotsInv'
  <2>1. /\ pc[p] = "waiting" /\ pc' = [pc EXCEPT ![p] = "idle"] /\ req' = [req EXCEPT ![p] = NoRequest]
        /\ slotAt' = [slotAt EXCEPT ![p] = 0]
        /\ UNCHANGED <<clock, gone, spent>>
    BY <1>2 DEF Serve, OverLimit, Leave, Done
  <2>2. \A q \in Procs : /\ Working(q)' <=> Working(q)
                         /\ Working(q) => req'[q] = req[q] /\ slotAt'[q] = slotAt[q]
    BY <1>0, <2>1 DEF Working, Kinds
  <2>3. slotAt' \in [Procs -> Nat]
    BY <1>0, <2>1
  <2>4. globalSlots' \in {globalSlots, Unexpired(globalSlots)}
    BY <1>2 DEF Serve, OverLimit, windows
  <2>5. \A u \in Users : userSlots'[u] \in {userSlots[u], Unexpired(userSlots[u]), << >>}
    BY <1>0, <1>2 DEF Serve, OverLimit, windows
  <2>6. userSlots' \in [Users -> Seq(Nat)]
    <3>1. \A u \in Users : InOrder(userSlots[u])
      BY DEF SlotsInv
    <3>2. \A u \in Users : Unexpired(userSlots[u]) \in Seq(Nat)
      BY <1>0, <3>1, CountUnexpired DEF InOrder
    <3> QED BY <1>0, <1>2, <3>2 DEF Serve, OverLimit, windows
  <2> QED BY <1>0, <2>1, <2>2, <2>3, <2>4, <2>5, <2>6, QuietSlots
<1>3. ASSUME NEW p \in Procs, Take(p) PROVE SlotsInv'
  BY <1>3, TakeSlots
<1>4. ASSUME NEW p \in Procs, NoData(p) PROVE SlotsInv'
  BY <1>4, NoDataSlots
<1>5. ASSUME NEW p \in Procs, Save(p) \/ Break(p) PROVE SlotsInv'
  <2>1. /\ Working(p) /\ Leave(p) /\ UNCHANGED <<clock, windows, gone>>
        /\ Keep(p, TRUE) \/ Keep(p, FALSE)
    BY <1>5 DEF Save, Break, Working
  <2> QED BY <2>1, KeepSlots
<1>6. ASSUME NEW u \in Users, ForgetUser(u) PROVE SlotsInv'
  <2>1. /\ UNCHANGED <<clock, pc, req, slotAt, globalSlots, spent>>
        /\ gone' = gone \cup {u} /\ userSlots' = [userSlots EXCEPT ![u] = << >>]
    BY <1>6 DEF ForgetUser, asking
  <2>2. \A q \in Procs : Working(q)' <=> Working(q)
    BY <2>1 DEF Working
  <2>3. \A v \in Users : userSlots'[v] \in {userSlots[v], Unexpired(userSlots[v]), << >>}
    BY <1>0, <2>1
  <2>4. userSlots' \in [Users -> Seq(Nat)]
    BY <1>0, <2>1
  <2> QED BY <1>0, <2>1, <2>2, <2>3, <2>4, QuietSlots
<1>7. CASE Tick \/ UNCHANGED vars
  <2>1. /\ clock' \in Nat /\ clock' >= clock
        /\ UNCHANGED <<pc, req, slotAt, userSlots, globalSlots, gone, spent>>
    BY <1>0, <1>7 DEF Tick, vars, asking, windows
  <2>2. \A q \in Procs : Working(q)' <=> Working(q)
    BY <2>1 DEF Working
  <2> QED BY <1>0, <2>1, <2>2, QuietSlots
<1>8. CASE Restart
  BY <1>8, FreshSlots
<1> QED BY <1>1, <1>2, <1>3, <1>4, <1>5, <1>6, <1>7, <1>8 DEF Next, Step

(* A registered lock has somebody who holds it or waits for it.            *)
Awaited == \A a \in Assets : lockOf[a] # NoLock => lockUsers[a] > 0

LEMMA NextAwaited == AInv /\ Awaited /\ [Next]_vars => Awaited'
<1> SUFFICES ASSUME Kinds, Registered, Exclusive, Awaited, [Next]_vars PROVE Awaited'
  BY DEF AInv
<1>1. ASSUME NEW p \in Procs, NEW r \in Requests, Ask(p, r) PROVE Awaited'
  <2>1. /\ lockUsers' = [lockUsers EXCEPT ![r.asset] = @ + 1]
        /\ \A a \in Assets : a # r.asset => lockOf'[a] = lockOf[a]
    BY <1>1 DEF Ask, Kinds
  <2>2. \A a \in Assets : lockUsers[a] \in Nat
    BY DEF Kinds
  <2> QED BY <2>1, <2>2 DEF Awaited, Kinds
<1>2. ASSUME NEW p \in Procs, Busy(p), Leave(p) PROVE Awaited'
  <2>1. Asset(p) \in Assets /\ lockOf[Asset(p)] = mine[p] /\ mine[p] # NoLock
    BY <1>2, NothingAssumption DEF Registered, Busy, Kinds, Requests, Asset
  <2>2. lockUsers[Asset(p)] \in Nat /\ lockUsers[Asset(p)] > 0
    BY <2>1 DEF Awaited, Kinds
  <2>3. /\ lockUsers' = [lockUsers EXCEPT ![Asset(p)] = @ - 1]
        /\ lockOf' = [lockOf EXCEPT ![Asset(p)] = IF lockUsers[Asset(p)] = 1 THEN NoLock ELSE @]
    BY <1>2, <2>1 DEF Leave
  <2>4. \A a \in Assets : a # Asset(p) => lockOf'[a] = lockOf[a] /\ lockUsers'[a] = lockUsers[a]
    BY <2>3 DEF Kinds
  <2>5. lockUsers'[Asset(p)] = lockUsers[Asset(p)] - 1
    BY <2>1, <2>3 DEF Kinds
  <2>6. lockUsers[Asset(p)] = 1 => lockOf'[Asset(p)] = NoLock
    BY <2>1, <2>3 DEF Kinds
  <2>7. lockOf'[Asset(p)] # NoLock => lockUsers'[Asset(p)] > 0
    BY <2>2, <2>5, <2>6
  <2> QED BY <2>4, <2>7 DEF Awaited
<1>3. ASSUME NEW p \in Procs, Step(p), ~Take(p) PROVE Awaited'
  <2>1. Busy(p) /\ Leave(p)
    BY <1>3 DEF Step, Serve, OverLimit, NoData, Save, Break, Busy
  <2> QED BY <1>2, <2>1
<1>4. CASE UNCHANGED <<lockOf, lockUsers>>
  BY <1>4 DEF Awaited
<1>5. CASE Restart
  BY <1>5 DEF Restart, Awaited
<1>6. \A p \in Procs : Take(p) => UNCHANGED <<lockOf, lockUsers>>
  BY DEF Take, locking
<1>7. \A u \in Users : ForgetUser(u) => UNCHANGED <<lockOf, lockUsers>>
  BY DEF ForgetUser, locking
<1>8. Tick \/ UNCHANGED vars => UNCHANGED <<lockOf, lockUsers>>
  BY DEF Tick, vars, locking
<1> QED BY <1>1, <1>3, <1>4, <1>5, <1>6, <1>7, <1>8 DEF Next

(* Every variable keeps to its values, _lock_users counts the requests at  *)
(* the lock of each asset, and _locks has an asset exactly while somebody  *)
(* has its lock (_asset_lock).                                             *)
THEOREM TypeCorrect == Spec => []TypeOK
<1>1. Init => Awaited
  BY DEF Init, Awaited
<1>2. AInv /\ SlotsInv /\ Awaited => TypeOK
  <2> SUFFICES ASSUME AInv, SlotsInv, Awaited PROVE TypeOK
    OBVIOUS
  <2> USE DEF AInv
  <2>1. lockUsers = [a \in Assets |-> Cardinality({p \in Procs : req[p] # NoRequest /\ Asset(p) = a})]
    BY DEF Kinds, Counted, AskersOf
  <2>2. ASSUME NEW a \in Assets PROVE lockOf[a] = NoLock <=> lockUsers[a] = 0
    <3>1. ASSUME lockOf[a] = NoLock PROVE lockUsers[a] = 0
      <4>1. AskersOf(a) = {}
        BY <3>1, NothingAssumption DEF AskersOf, Registered
      <4> QED BY <4>1, FS_EmptySet DEF Counted
    <3>2. ASSUME lockOf[a] # NoLock PROVE lockUsers[a] # 0
      BY <3>2 DEF Awaited, Kinds
    <3> QED BY <3>1, <3>2
  <2> QED BY <2>1, <2>2 DEF TypeOK, Kinds, SlotsInv, InOrder, Entry, Objects
<1> QED BY <1>1, <1>2, InitAInv, NextAInv, FreshSlots, NextSlots, NextAwaited, PTL DEF Spec

(* A report without data does not use up a limit: the slots that count in  *)
(* a user's window, and in everyone's, are no more than the requests that  *)
(* work on one or kept theirs, whoever's slot a refund took (_refund).     *)
THEOREM SlotsAreGivenBack == Spec => []SlotsGivenBack
<1>1. AInv /\ SlotsInv => SlotsGivenBack
  <2> SUFFICES ASSUME Kinds, SlotsInv PROVE SlotsGivenBack
    BY DEF AInv
  <2>1. clock \in Nat /\ Window \in Nat /\ clock - Window \in Int
    BY TimesAssumption DEF Kinds
  <2>2. \A i \in 1..Len(spent) : spent[i] \in Entry
    BY DEF SlotsInv
  <2>3. ASSUME NEW U
        PROVE  TakenBy(U) = Cardinality(At(spent, SpentAfter(U, clock - Window)))
                              + Cardinality(WorkFrom(U, clock - Window))
    <3>1. {i \in 1..Len(spent) : spent[i].user \in U /\ spent[i].at >= clock - Window}
            = At(spent, SpentAfter(U, clock - Window))
      BY <2>2 DEF At, SpentAfter
    <3> QED BY <3>1 DEF TakenBy, WorkFrom
  <2>4. ASSUME NEW s, NEW U, InOrder(s), Matched(s, U) PROVE Len(Unexpired(s)) <= TakenBy(U)
    <3>1. PICK r : r = Unexpired(s)
      OBVIOUS
    <3>2. /\ Len(r) = Cardinality(At(r, After(clock - Window)))
          /\ Cardinality(At(r, After(clock - Window))) = Cardinality(At(s, After(clock - Window)))
      BY <2>1, <2>4, <3>1, CountUnexpired
    <3>3. Cardinality(At(s, After(clock - Window)))
            <= Cardinality(At(spent, SpentAfter(U, clock - Window))) + Cardinality(WorkFrom(U, clock - Window))
      BY <2>1, <2>4 DEF Matched
    <3> QED BY <2>3, <3>1, <3>2, <3>3
  <2> QED BY <2>4 DEF SlotsGivenBack, SlotsInv
<1> QED BY <1>1, InitAInv, NextAInv, FreshSlots, NextSlots, PTL DEF Spec
=============================================================================
