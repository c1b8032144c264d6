----------------------- MODULE NotificationRelay_proofs -----------------------
(***************************************************************************)
(* Proofs about NotificationRelay for any relays, notifications, batches   *)
(* and number of attempts.  The bound on dispatches rests on an account of *)
(* attempts: every claim opens one attempt of a notification, no two items *)
(* that relays hold share an attempt, and a dispatch closes its own.       *)
(***************************************************************************)
EXTENDS NotificationRelay, FiniteSetTheorems, TLAPS

Phases == {"idle", "claimed", "sending", "sent", "error"}
Items == [note: Notes, attempts: Nat]

RowsOK ==
  row \in [Notes -> [status: {"pending", "processing", "sent", "failed"},
                     attempts: 0..MaxAttempts, lease: Nat, due: BOOLEAN]]
RelaysOK == relay \in [Relays -> [phase: Phases, items: Seq(Items)]]
TypeOK == RowsOK /\ RelaysOK /\ dispatched \in [Notes -> Nat]

Slots(r) == 1..Len(relay[r].items)

\* A relay at work has an item.
AtWork == \A r \in Relays : relay[r].phase # "idle" => relay[r].items # <<>>

\* The lease of a claimed row is that of its last attempt.
LeaseIsLast == \A n \in Notes : row[n].status = "processing" => row[n].lease = row[n].attempts

\* An item is an attempt that its row has counted.
ItemsCounted ==
  \A r \in Relays : \A i \in Slots(r) :
    relay[r].items[i].attempts \in 1..row[relay[r].items[i].note].attempts

\* No attempt is held twice.
HeldOnce ==
  \A r, q \in Relays : \A i \in Slots(r), j \in Slots(q) :
    relay[r].items[i] = relay[q].items[j] => r = q /\ i = j

\* The item has been given to the adapter.
Tried(r, i) == i = 1 /\ relay[r].phase \in {"sent", "error"}

\* Attempts that may still dispatch n.
Open(n) ==
  {k \in 1..row[n].attempts :
     \E r \in Relays : \E i \in Slots(r) :
       relay[r].items[i] = [note |-> n, attempts |-> k] /\ ~Tried(r, i)}

Account == \A n \in Notes : dispatched[n] + Cardinality(Open(n)) <= row[n].attempts

Inv == TypeOK /\ AtWork /\ LeaseIsLast /\ ItemsCounted /\ HeldOnce /\ Account

\* There are no more open attempts of n than its row has counted.
LEMMA OpenIsFinite ==
  ASSUME TypeOK, NEW n \in Notes
  PROVE  IsFiniteSet(Open(n)) /\ Cardinality(Open(n)) \in Nat
<1>1. row[n].attempts \in Int
  BY RelayAssumption DEF TypeOK, RowsOK
<1>2. IsFiniteSet(1..row[n].attempts)
  BY <1>1, FS_Interval
<1>3. Open(n) \in SUBSET (1..row[n].attempts)
  BY DEF Open
<1> QED
  BY <1>2, <1>3, FS_Subset, FS_CardinalityType

\* Without a dispatch or a claim of n, its account stands if no attempt opens.
LEMMA AccountKept ==
  ASSUME TypeOK, Account, NEW n \in Notes,
         row'[n].attempts = row[n].attempts, dispatched'[n] = dispatched[n],
         Open(n)' \subseteq Open(n)
  PROVE  dispatched'[n] + Cardinality(Open(n)') <= row'[n].attempts
<1>1. IsFiniteSet(Open(n)) /\ Cardinality(Open(n)) \in Nat
  BY OpenIsFinite
<1>2. IsFiniteSet(Open(n)') /\ Cardinality(Open(n)') <= Cardinality(Open(n))
  BY <1>1, FS_Subset
<1>3. Cardinality(Open(n)') \in Nat
  BY <1>2, FS_CardinalityType
<1>4. dispatched[n] \in Nat /\ row[n].attempts \in Int
  BY RelayAssumption DEF TypeOK, RowsOK
<1>5. dispatched[n] + Cardinality(Open(n)) <= row[n].attempts
  BY DEF Account
<1> QED
  BY <1>1, <1>2, <1>3, <1>4, <1>5

\* The item a working relay is at.
LEMMA CurrentItem ==
  ASSUME TypeOK, AtWork, NEW r \in Relays, relay[r].phase # "idle"
  PROVE  /\ 1 \in Slots(r)
         /\ Current(r) = relay[r].items[1]
         /\ Current(r) \in Items
<1>1. relay[r].items \in Seq(Items) /\ relay[r].items # <<>>
  BY DEF TypeOK, RelaysOK, AtWork
<1>2. Len(relay[r].items) \in Nat /\ Len(relay[r].items) # 0
  BY <1>1
<1>3. 1 \in Slots(r)
  BY <1>2 DEF Slots
<1>4. Current(r) = relay[r].items[1]
  BY <1>1, <1>2 DEF Current
<1>5. relay[r].items[1] \in Items
  BY <1>1, <1>3 DEF Slots
<1> QED
  BY <1>3, <1>4, <1>5

\* Going to the next item renumbers the items and adds none.
LEMMA ItemsAfterNext ==
  ASSUME TypeOK, AtWork, NEW r \in Relays, relay[r].phase # "idle", NextItem(r)
  PROVE  /\ RelaysOK'
         /\ AtWork'
         /\ \A q \in Relays \ {r} : relay'[q] = relay[q]
         /\ relay'[r].phase \in {"idle", "claimed"}
         /\ \A i \in Slots(r)' : /\ i \in Nat
                                 /\ i + 1 \in Slots(r)
                                 /\ relay'[r].items[i] = relay[r].items[i + 1]
<1>1. relay[r].items \in Seq(Items) /\ relay[r].items # <<>>
  BY DEF TypeOK, RelaysOK, AtWork
<1>2. /\ Rest(r) \in Seq(Items)
      /\ Len(Rest(r)) = Len(relay[r].items) - 1
      /\ \A i \in 1..Len(Rest(r)) : Rest(r)[i] = relay[r].items[i + 1]
  BY <1>1 DEF Rest
<1>3. relay \in [Relays -> [phase: Phases, items: Seq(Items)]]
  BY DEF TypeOK, RelaysOK
<1>4. /\ relay' = [relay EXCEPT ![r] =
             [phase |-> IF Rest(r) = <<>> THEN "idle" ELSE "claimed", items |-> Rest(r)]]
  BY DEF NextItem
<1>5. [phase |-> IF Rest(r) = <<>> THEN "idle" ELSE "claimed", items |-> Rest(r)]
        \in [phase: Phases, items: Seq(Items)]
  BY <1>2 DEF Phases
<1>6. RelaysOK'
  BY <1>3, <1>4, <1>5 DEF RelaysOK
<1>7. /\ relay'[r].items = Rest(r)
      /\ relay'[r].phase = IF Rest(r) = <<>> THEN "idle" ELSE "claimed"
      /\ \A q \in Relays \ {r} : relay'[q] = relay[q]
  BY <1>3, <1>4
<1>8. AtWork'
  BY <1>7 DEF AtWork
<1>9. Len(relay[r].items) \in Nat
  BY <1>1
<1>10. \A i \in Slots(r)' : /\ i \in Nat
                            /\ i + 1 \in Slots(r)
                            /\ relay'[r].items[i] = relay[r].items[i + 1]
  BY <1>2, <1>7, <1>9 DEF Slots
<1> QED
  BY <1>6, <1>7, <1>8, <1>10

\* Where an item comes from when a relay goes on.
LEMMA ItemOrigin ==
  ASSUME TypeOK, AtWork, NEW r \in Relays, relay[r].phase # "idle", NextItem(r),
         NEW q \in Relays, NEW i \in Slots(q)'
  PROVE  LET j == IF q = r THEN i + 1 ELSE i IN
           /\ i \in Nat
           /\ j \in Slots(q)
           /\ relay'[q].items[i] = relay[q].items[j]
           /\ Tried(q, j) => Tried(q, i)'
           /\ relay[q].items[j] \in Items
<1>1. /\ \A p \in Relays \ {r} : relay'[p] = relay[p]
      /\ \A k \in Slots(r)' : /\ k \in Nat
                              /\ k + 1 \in Slots(r)
                              /\ relay'[r].items[k] = relay[r].items[k + 1]
  BY ItemsAfterNext
<1>2. /\ relay[q].items \in Seq(Items)
      /\ \A k \in Slots(q) : k \in Nat /\ relay[q].items[k] \in Items
  BY DEF TypeOK, RelaysOK, Slots
<1>3. CASE q = r
  <2>1. i \in Nat /\ i \in 1..Len(relay'[q].items)
    BY <1>1, <1>3 DEF Slots
  <2>2. i + 1 # 1
    BY <2>1
  <2> QED
    BY <1>1, <1>2, <1>3, <2>2 DEF Tried
<1>4. CASE q # r
  BY <1>1, <1>2, <1>4 DEF Slots, Tried
<1> QED
  BY <1>3, <1>4

\* Going to the next item, with no attempt counted or dispatched.
LEMMA NextItemKeepsInv ==
  ASSUME Inv, NEW r \in Relays, relay[r].phase # "idle", NextItem(r),
         RowsOK', LeaseIsLast', dispatched' = dispatched,
         \A n \in Notes : row'[n].attempts = row[n].attempts
  PROVE  Inv'
<1> DEFINE From(q, i) == IF q = r THEN i + 1 ELSE i
<1> USE DEF Inv
<1>1. TypeOK' /\ AtWork'
  BY ItemsAfterNext DEF TypeOK
<1>2. \A q \in Relays : \A i \in Slots(q)' :
        /\ i \in Nat
        /\ From(q, i) \in Slots(q)
        /\ relay'[q].items[i] = relay[q].items[From(q, i)]
        /\ Tried(q, From(q, i)) => Tried(q, i)'
        /\ relay[q].items[From(q, i)] \in Items
  BY ItemOrigin
<1>3. ItemsCounted'
  <2> SUFFICES ASSUME NEW q \in Relays, NEW i \in Slots(q)'
               PROVE  relay'[q].items[i].attempts \in 1..row'[relay'[q].items[i].note].attempts
    BY DEF ItemsCounted
  <2>1. relay[q].items[From(q, i)].note \in Notes
    BY <1>2 DEF Items
  <2> HIDE DEF From
  <2> QED
    BY <1>2, <2>1 DEF ItemsCounted
<1>4. HeldOnce'
  <2> SUFFICES ASSUME NEW q \in Relays, NEW p \in Relays,
                      NEW i \in Slots(q)', NEW j \in Slots(p)',
                      relay'[q].items[i] = relay'[p].items[j]
               PROVE  q = p /\ i = j
    BY DEF HeldOnce
  <2>1. q = p /\ From(q, i) = From(p, j)
    <3> HIDE DEF From
    <3> QED
      BY <1>2 DEF HeldOnce
  <2>2. i \in Nat /\ j \in Nat
    BY <1>2
  <2> QED
    BY <2>1, <2>2
<1>5. \A n \in Notes : Open(n)' \subseteq Open(n)
  <2> SUFFICES ASSUME NEW n \in Notes, NEW k \in 1..row'[n].attempts,
                      NEW q \in Relays, NEW i \in Slots(q)',
                      relay'[q].items[i] = [note |-> n, attempts |-> k], ~Tried(q, i)'
               PROVE  k \in Open(n)
    BY DEF Open
  <2> HIDE DEF From
  <2> QED
    BY <1>2 DEF Open
<1>6. Account'
  BY <1>5, AccountKept DEF Account
<1> QED
  BY <1>1, <1>3, <1>4, <1>6

\* The phase of a relay at work changes and its items stay; attempts do not reopen.
LEMMA PhaseKeepsItems ==
  ASSUME Inv, NEW r \in Relays, NEW phase \in Phases, relay[r].phase # "idle",
         relay' = [relay EXCEPT ![r].phase = phase], row' = row,
         phase \in {"sent", "error"} \/ relay[r].phase \notin {"sent", "error"}
  PROVE  /\ RowsOK' /\ RelaysOK' /\ AtWork' /\ LeaseIsLast' /\ ItemsCounted' /\ HeldOnce'
         /\ \A n \in Notes : Open(n)' \subseteq Open(n)
<1> USE DEF Inv
<1>1. relay \in [Relays -> [phase: Phases, items: Seq(Items)]]
  BY DEF TypeOK, RelaysOK
<1>2. RelaysOK'
  BY <1>1 DEF RelaysOK
<1>3. \A q \in Relays : /\ relay'[q].items = relay[q].items
                        /\ relay'[q].phase = IF q = r THEN phase ELSE relay[q].phase
  BY <1>1
<1>4. \A q \in Relays : Slots(q)' = Slots(q)
  BY <1>3 DEF Slots
<1>5. RowsOK' /\ LeaseIsLast'
  BY DEF TypeOK, RowsOK, LeaseIsLast
<1>6. AtWork'
  BY <1>3 DEF AtWork
<1>7. ItemsCounted'
  BY <1>3, <1>4 DEF ItemsCounted
<1>8. HeldOnce'
  BY <1>3, <1>4 DEF HeldOnce
<1>9. ASSUME NEW q \in Relays, NEW i, Tried(q, i)
      PROVE  Tried(q, i)'
  BY <1>3, <1>9 DEF Tried
<1>10. \A n \in Notes : Open(n)' \subseteq Open(n)
  BY <1>3, <1>4, <1>9 DEF Open
<1> QED
  BY <1>2, <1>5, <1>6, <1>7, <1>8, <1>10

\* The start of a dispatch, and a failed update to sent, change the phase alone.
LEMMA PhaseSteps ==
  ASSUME Inv, NEW r \in Relays, StartDispatch(r) \/ RecordSentFails(r)
  PROVE  Inv'
<1> PICK phase \in Phases :
      /\ relay' = [relay EXCEPT ![r].phase = phase] /\ row' = row /\ dispatched' = dispatched
      /\ relay[r].phase # "idle"
      /\ phase \in {"sent", "error"} \/ relay[r].phase \notin {"sent", "error"}
  BY DEF StartDispatch, RecordSentFails, Phases
<1> USE DEF Inv
<1>1. /\ RowsOK' /\ RelaysOK' /\ AtWork' /\ LeaseIsLast' /\ ItemsCounted' /\ HeldOnce'
      /\ \A n \in Notes : Open(n)' \subseteq Open(n)
  BY PhaseKeepsItems
<1>2. Account'
  BY <1>1, AccountKept DEF Account
<1> QED
  BY <1>1, <1>2 DEF TypeOK

\* A dispatch closes the attempt it stands for, which no other item holds.
LEMMA DispatchStep ==
  ASSUME Inv, NEW r \in Relays, NEW sent \in BOOLEAN, NEW outcome \in {"sent", "error"},
         Dispatch(r, sent, outcome)
  PROVE  Inv'
<1> USE DEF Inv
<1>0. PICK m \in Notes, a \in Nat :
        Current(r) = [note |-> m, attempts |-> a] /\ Current(r).note = m
  <2>1. Current(r) \in Items
    BY CurrentItem DEF Dispatch
  <2> QED
    BY <2>1 DEF Items
<1>1. /\ relay' = [relay EXCEPT ![r].phase = outcome] /\ row' = row
      /\ relay[r].phase = "sending" /\ outcome \in Phases
      /\ dispatched' = [dispatched EXCEPT ![m] = IF sent THEN @ + 1 ELSE @]
  BY <1>0 DEF Dispatch, Phases
<1>2. /\ RowsOK' /\ RelaysOK' /\ AtWork' /\ LeaseIsLast' /\ ItemsCounted' /\ HeldOnce'
      /\ \A n \in Notes : Open(n)' \subseteq Open(n)
  BY <1>1, PhaseKeepsItems
<1>3. /\ 1 \in Slots(r) /\ Current(r) = relay[r].items[1]
      /\ relay[r].items[1] = [note |-> m, attempts |-> a]
  BY <1>0, <1>1, CurrentItem
<1>4. dispatched \in [Notes -> Nat]
  BY DEF TypeOK
<1>5. dispatched' \in [Notes -> Nat]
  BY <1>1, <1>4
<1>6. ASSUME NEW n \in Notes, n # m
      PROVE  dispatched'[n] + Cardinality(Open(n)') <= row'[n].attempts
  <2>1. row'[n].attempts = row[n].attempts /\ dispatched'[n] = dispatched[n]
    BY <1>1, <1>4, <1>6
  <2> QED
    BY <1>2, <2>1, AccountKept
<1>7. dispatched'[m] + Cardinality(Open(m)') <= row'[m].attempts
  <2>1. a \in Open(m)
    <3>1. a \in 1..row[m].attempts
      BY <1>3 DEF ItemsCounted
    <3>2. ~Tried(r, 1)
      BY <1>1 DEF Tried
    <3> QED
      BY <1>3, <3>1, <3>2 DEF Open
  <2>2. a \notin Open(m)'
    <3> SUFFICES ASSUME NEW q \in Relays, NEW i \in Slots(q)',
                        relay'[q].items[i] = [note |-> m, attempts |-> a],
                        ~Tried(q, i)'
                 PROVE  FALSE
      BY DEF Open
    <3>1. relay'[q].items = relay[q].items /\ Slots(q)' = Slots(q)
      BY <1>1 DEF TypeOK, RelaysOK, Slots
    <3>2. q = r /\ i = 1
      BY <1>3, <3>1 DEF HeldOnce
    <3>3. relay'[r].phase = outcome
      BY <1>1 DEF TypeOK, RelaysOK
    <3> QED
      BY <3>2, <3>3 DEF Tried
  <2>3. IsFiniteSet(Open(m)) /\ Cardinality(Open(m)) \in Nat
    BY <1>3, OpenIsFinite
  <2>4. /\ IsFiniteSet(Open(m) \ {a})
        /\ Cardinality(Open(m) \ {a}) = Cardinality(Open(m)) - 1
    BY <2>1, <2>3, FS_RemoveElement
  <2>5. Open(m)' \in SUBSET (Open(m) \ {a})
    BY <1>2, <2>2
  <2>6. IsFiniteSet(Open(m)') /\ Cardinality(Open(m)') <= Cardinality(Open(m) \ {a})
    BY <2>4, <2>5, FS_Subset
  <2>7. Cardinality(Open(m)') \in Nat
    BY <2>6, FS_CardinalityType
  <2>8. dispatched'[m] \in {dispatched[m], dispatched[m] + 1} /\ dispatched[m] \in Nat
    BY <1>1, <1>4
  <2>9. row'[m].attempts = row[m].attempts /\ row[m].attempts \in Int
    BY <1>1, RelayAssumption DEF TypeOK, RowsOK
  <2>10. dispatched[m] + Cardinality(Open(m)) <= row[m].attempts
    BY DEF Account
  <2> QED
    BY <2>3, <2>4, <2>6, <2>7, <2>8, <2>9, <2>10
<1>8. Account'
  BY <1>6, <1>7 DEF Account
<1> QED
  BY <1>2, <1>5, <1>8 DEF TypeOK

\* A skipped item is dropped.
LEMMA SkipStep ==
  ASSUME Inv, NEW r \in Relays, Skip(r)
  PROVE  Inv'
<1>1. RowsOK' /\ LeaseIsLast'
  BY DEF Skip, Inv, TypeOK, RowsOK, LeaseIsLast
<1> QED
  BY <1>1, NextItemKeepsInv DEF Skip

\* What an outcome writes to a row leaves its attempts: a row under the lease of an
\* item has counted no attempt after it.
LEMMA RecordStep ==
  ASSUME Inv, NEW r \in Relays, relay[r].phase # "idle", NEW new,
         new \in [status: {"pending", "sent", "failed"}, attempts: Int, lease: Nat,
                  due: BOOLEAN],
         \/ new.attempts = row[Current(r).note].attempts
         \/ new.attempts = Current(r).attempts,
         Record(r, new)
  PROVE  Inv'
<1> DEFINE m == Current(r).note
<1> USE DEF Inv
<1>1. m \in Notes
  BY CurrentItem DEF Items
<1>2. row \in [Notes -> [status: {"pending", "processing", "sent", "failed"},
                         attempts: 0..MaxAttempts, lease: Nat, due: BOOLEAN]]
  BY DEF TypeOK, RowsOK
<1>3. NextItem(r) /\ dispatched' = dispatched
  BY DEF Record
<1>4. CASE ~Holds(r)
  <2>1. row' = row
    BY <1>4 DEF Record
  <2>2. RowsOK' /\ LeaseIsLast'
    BY <2>1 DEF TypeOK, RowsOK, LeaseIsLast
  <2> QED
    BY <1>3, <2>1, <2>2, NextItemKeepsInv
<1>5. CASE Holds(r)
  <2>1. row' = [row EXCEPT ![m] = new]
    BY <1>5 DEF Record
  <2>2. new.attempts = row[m].attempts
    BY <1>1, <1>5 DEF Holds, LeaseIsLast
  <2>3. new \in [status: {"pending", "processing", "sent", "failed"},
                 attempts: 0..MaxAttempts, lease: Nat, due: BOOLEAN]
    <3>1. row[m].attempts \in 0..MaxAttempts
      BY <1>1, <1>2
    <3> QED
      BY <2>2, <3>1
  <2>4. RowsOK'
    BY <1>2, <2>1, <2>3 DEF RowsOK
  <2>5. \A n \in Notes : row'[n] = IF n = m THEN new ELSE row[n]
    BY <1>2, <2>1
  <2>6. LeaseIsLast'
    BY <2>5 DEF LeaseIsLast
  <2>7. \A n \in Notes : row'[n].attempts = row[n].attempts
    BY <2>2, <2>5
  <2> QED
    BY <1>3, <2>4, <2>6, <2>7, NextItemKeepsInv
<1> QED
  BY <1>4, <1>5

\* Both outcomes are recorded in that way.
LEMMA OutcomeSteps ==
  ASSUME Inv, NEW r \in Relays, RecordSent(r) \/ RecordFailure(r)
  PROVE  Inv'
<1>1. relay[r].phase # "idle"
  BY DEF RecordSent, RecordFailure
<1>2. Current(r) \in Items
  BY <1>1, CurrentItem DEF Inv
<1>3. row[Current(r).note] \in [status: {"pending", "processing", "sent", "failed"},
                                attempts: 0..MaxAttempts, lease: Nat, due: BOOLEAN]
  BY <1>2 DEF Inv, TypeOK, RowsOK, Items
<1>4. CASE RecordSent(r)
  <2> DEFINE new == [row[Current(r).note] EXCEPT !.status = "sent", !.lease = NoLease,
                                                 !.due = FALSE]
  <2>1. /\ new \in [status: {"pending", "sent", "failed"}, attempts: Int, lease: Nat,
                    due: BOOLEAN]
        /\ new.attempts = row[Current(r).note].attempts
    BY <1>3, 0..MaxAttempts \in SUBSET Int DEF NoLease
  <2>2. Record(r, new)
    BY <1>4 DEF RecordSent
  <2> HIDE DEF new
  <2> QED
    BY <1>1, <2>1, <2>2, RecordStep
<1>5. CASE RecordFailure(r)
  <2> DEFINE new == [status |-> IF Current(r).attempts >= MaxAttempts THEN "failed" ELSE "pending",
                     attempts |-> Current(r).attempts, lease |-> NoLease, due |-> FALSE]
  <2>1. /\ new \in [status: {"pending", "sent", "failed"}, attempts: Int, lease: Nat,
                    due: BOOLEAN]
        /\ new.attempts = Current(r).attempts
    BY <1>2 DEF NoLease, Items
  <2>2. Record(r, new)
    BY <1>5 DEF RecordFailure
  <2> HIDE DEF new
  <2> QED
    BY <1>1, <2>1, <2>2, RecordStep
<1> QED
  BY <1>4, <1>5

\* Time only makes rows due.
LEMMA TimeStep ==
  ASSUME Inv, NEW n \in Notes, TimePasses(n)
  PROVE  Inv'
<1> USE DEF Inv
<1>1. row \in [Notes -> [status: {"pending", "processing", "sent", "failed"},
                         attempts: 0..MaxAttempts, lease: Nat, due: BOOLEAN]]
  BY DEF TypeOK, RowsOK
<1>2. row' = [row EXCEPT ![n].due = TRUE] /\ relay' = relay /\ dispatched' = dispatched
  BY DEF TimePasses
<1>3. RowsOK'
  BY <1>1, <1>2 DEF RowsOK
<1>4. \A k \in Notes : /\ row'[k].attempts = row[k].attempts
                       /\ row'[k].status = row[k].status
                       /\ row'[k].lease = row[k].lease
  BY <1>1, <1>2
<1>5. \A q \in Relays : Slots(q)' = Slots(q)
  BY <1>2 DEF Slots
<1>6. LeaseIsLast' /\ AtWork' /\ RelaysOK' /\ HeldOnce'
  BY <1>2, <1>4, <1>5 DEF LeaseIsLast, AtWork, TypeOK, RelaysOK, HeldOnce
<1>7. \A q \in Relays : \A i \in Slots(q) : relay[q].items[i].note \in Notes
  <2> SUFFICES ASSUME NEW q \in Relays, NEW i \in Slots(q)
               PROVE  relay[q].items[i].note \in Notes
    OBVIOUS
  <2>1. relay[q].items \in Seq(Items)
    BY DEF TypeOK, RelaysOK
  <2>2. relay[q].items[i] \in Items
    BY <2>1 DEF Slots
  <2> QED
    BY <2>2 DEF Items
<1>8. ItemsCounted'
  BY <1>2, <1>4, <1>5, <1>7 DEF ItemsCounted
<1>9. \A k \in Notes : Open(k)' \subseteq Open(k)
  BY <1>2, <1>4, <1>5 DEF Open, Tried
<1>10. Account'
  BY <1>2, <1>4, <1>9, AccountKept DEF Account
<1> QED
  BY <1>2, <1>3, <1>6, <1>8, <1>10 DEF TypeOK

\* What a claim does to the rows.
LEMMA ClaimedRows ==
  ASSUME Inv, NEW r \in Relays, Claim(r)
  PROVE  /\ RowsOK' /\ LeaseIsLast'
         /\ \A n \in Notes : row'[n].attempts = IF n \in Oldest(Available)
                                                THEN row[n].attempts + 1
                                                ELSE row[n].attempts
<1> DEFINE Row == [status: {"pending", "processing", "sent", "failed"},
                   attempts: 0..MaxAttempts, lease: Nat, due: BOOLEAN]
           Lost(n) == [row[n] EXCEPT !.status = "failed", !.lease = NoLease, !.due = FALSE]
           Leased(n) == [status |-> "processing", attempts |-> row[n].attempts + 1,
                         lease |-> row[n].attempts + 1, due |-> FALSE]
<1>1. row \in [Notes -> Row]
  BY DEF Inv, TypeOK, RowsOK
<1>2. row' = [n \in Notes |-> IF n \in ExpiredAtCap THEN Lost(n)
                              ELSE IF n \in Oldest(Available) THEN Leased(n) ELSE row[n]]
  BY DEF Claim
<1>3. ASSUME NEW n \in Notes
      PROVE  /\ Lost(n) \in Row
             /\ Lost(n).status = "failed"
             /\ Lost(n).attempts = row[n].attempts
  BY <1>1 DEF NoLease
<1>4. ASSUME NEW n \in Oldest(Available)
      PROVE  /\ n \in Notes /\ n \notin ExpiredAtCap
             /\ Leased(n) \in Row
             /\ Leased(n).attempts = row[n].attempts + 1
             /\ Leased(n).lease = Leased(n).attempts
  <2>1. n \in Notes /\ row[n].attempts < MaxAttempts
    BY DEF Oldest, Available
  <2>2. row[n].attempts \in 0..MaxAttempts
    BY <1>1, <2>1
  <2>3. row[n].attempts + 1 \in 0..MaxAttempts /\ row[n].attempts + 1 \in Nat
    BY <2>1, <2>2, RelayAssumption
  <2>4. n \notin ExpiredAtCap
    BY <2>1, <2>2, RelayAssumption DEF ExpiredAtCap
  <2> QED
    BY <2>1, <2>3, <2>4
<1> HIDE DEF Lost, Leased
<1>5. RowsOK'
  <2>1. \A n \in Notes : row'[n] \in Row
    BY <1>1, <1>2, <1>3, <1>4
  <2> QED
    BY <1>2, <2>1 DEF RowsOK
<1> HIDE DEF Row
<1>6. LeaseIsLast'
  BY <1>2, <1>3, <1>4 DEF LeaseIsLast, Inv
<1>7. \A n \in Notes : row'[n].attempts = IF n \in Oldest(Available)
                                          THEN row[n].attempts + 1 ELSE row[n].attempts
  BY <1>2, <1>3, <1>4
<1> QED
  BY <1>5, <1>6, <1>7

\* What a claim gives to its relay: one new attempt of each row.
LEMMA ClaimedItems ==
  ASSUME Inv, NEW r \in Relays, Claim(r)
  PROVE  /\ RelaysOK' /\ AtWork'
         /\ \A q \in Relays \ {r} : relay'[q] = relay[q]
         /\ \A i \in Slots(r)' :
              \E n \in Oldest(Available) : relay'[r].items[i] = Item(n)
         /\ \A i, j \in Slots(r)' : relay'[r].items[i] = relay'[r].items[j] => i = j
<1> DEFINE claimed == Oldest(Available)
           N == Cardinality(claimed)
<1>1. relay \in [Relays -> [phase: Phases, items: Seq(Items)]]
  BY DEF Inv, TypeOK, RelaysOK
<1>2. claimed \in SUBSET Notes /\ IsFiniteSet(claimed) /\ N \in Nat
  <2>1. claimed \in SUBSET Notes
    BY DEF Oldest, Available
  <2>2. IsFiniteSet(claimed)
    BY <2>1, RelayAssumption, FS_Subset
  <2> QED
    BY <2>1, <2>2, FS_CardinalityType
<1>3. PICK order \in [1..N -> claimed] :
        /\ InOrder(order)
        /\ relay' = [relay EXCEPT ![r] =
             [phase |-> IF claimed = {} THEN "idle" ELSE "claimed",
              items |-> [i \in DOMAIN order |-> Item(order[i])]]]
  BY DEF Claim
<1> DEFINE items == [i \in 1..N |-> Item(order[i])]
<1>4. \A n \in claimed : Item(n) \in Items
  <2> SUFFICES ASSUME NEW n \in claimed
               PROVE  Item(n) \in Items
    OBVIOUS
  <2>1. row[n].attempts \in 0..MaxAttempts
    BY <1>2 DEF Inv, TypeOK, RowsOK
  <2>2. row[n].attempts + 1 \in Nat
    BY <2>1
  <2> QED
    BY <1>2, <2>2 DEF Item, Items
<1>5. claimed # {} => N # 0
  BY <1>2, FS_EmptySet
<1> HIDE DEF N, claimed
<1>6. items \in Seq(Items) /\ Len(items) = N
  BY <1>2, <1>3, <1>4
<1>7. /\ relay'[r].items = items
      /\ relay'[r].phase = IF claimed = {} THEN "idle" ELSE "claimed"
      /\ \A q \in Relays \ {r} : relay'[q] = relay[q]
      /\ relay' \in [Relays -> [phase: Phases, items: Seq(Items)]]
  BY <1>1, <1>3, <1>6 DEF Phases
<1>8. \A i \in Slots(r)' : i \in 1..N /\ relay'[r].items[i] = Item(order[i]) /\ order[i] \in claimed
  BY <1>2, <1>3, <1>6, <1>7 DEF Slots
<1>9. \A i, j \in 1..N : Item(order[i]) = Item(order[j]) => i = j
  <2> SUFFICES ASSUME NEW i \in 1..N, NEW j \in 1..N, Item(order[i]) = Item(order[j])
               PROVE  i = j
    OBVIOUS
  <2>1. order[i] = order[j]
    BY DEF Item
  <2>2. order[i] \in Nat /\ order[j] \in Nat
    BY <1>2, <1>3, RelayAssumption
  <2>3. (i < j => order[i] < order[j]) /\ (j < i => order[j] < order[i])
    BY <1>3 DEF InOrder
  <2> QED
    BY <1>2, <2>1, <2>2, <2>3
<1>10. AtWork'
  <2>1. ASSUME relay'[r].phase # "idle"
        PROVE  relay'[r].items # <<>>
    <3>1. Len(items) # 0
      BY <1>5, <1>6, <1>7, <2>1
    <3> HIDE DEF items
    <3>2. items # <<>>
      BY <3>1
    <3> QED
      BY <1>7, <3>2
  <2> QED
    BY <1>7, <2>1 DEF AtWork, Inv
<1>11. RelaysOK'
  BY <1>7 DEF RelaysOK
<1>12. \A i \in Slots(r)' : \E n \in claimed : relay'[r].items[i] = Item(n)
  BY <1>8
<1>13. \A i, j \in Slots(r)' : relay'[r].items[i] = relay'[r].items[j] => i = j
  BY <1>8, <1>9
<1> QED
  BY <1>7, <1>10, <1>11, <1>12, <1>13 DEF claimed

\* A claim opens one attempt of each claimed row, later than all before it.
LEMMA ClaimStep ==
  ASSUME Inv, NEW r \in Relays, Claim(r)
  PROVE  Inv'
<1> DEFINE Later(n) == row[n].attempts + 1
<1> USE DEF Inv
<1>1. /\ RowsOK' /\ LeaseIsLast'
      /\ \A n \in Notes : row'[n].attempts = IF n \in Oldest(Available)
                                             THEN Later(n) ELSE row[n].attempts
  BY ClaimedRows
<1>2. /\ RelaysOK' /\ AtWork'
      /\ \A q \in Relays \ {r} : relay'[q] = relay[q]
      /\ \A i \in Slots(r)' : \E n \in Oldest(Available) : relay'[r].items[i] = Item(n)
      /\ \A i, j \in Slots(r)' : relay'[r].items[i] = relay'[r].items[j] => i = j
  BY ClaimedItems
<1>3. \A n \in Notes : row[n].attempts \in Nat
  BY RelayAssumption DEF TypeOK, RowsOK
<1>4. Oldest(Available) \in SUBSET Notes
  BY DEF Oldest, Available
<1>5. \A q \in Relays \ {r} : Slots(q)' = Slots(q)
  BY <1>2 DEF Slots
<1>6. ASSUME NEW q \in Relays \ {r}, NEW i \in Slots(q)'
      PROVE  /\ i \in Slots(q)
             /\ relay'[q].items[i] = relay[q].items[i]
             /\ relay[q].items[i] \in Items
             /\ relay[q].items[i].attempts \in 1..row[relay[q].items[i].note].attempts
             /\ Tried(q, i)' <=> Tried(q, i)
  <2>1. i \in Slots(q) /\ relay'[q] = relay[q]
    BY <1>2, <1>5
  <2>2. relay[q].items \in Seq(Items)
    BY DEF TypeOK, RelaysOK
  <2>3. relay[q].items[i] \in Items
    BY <2>1, <2>2 DEF Slots
  <2> QED
    BY <2>1, <2>3 DEF ItemsCounted, Tried
<1>7. ASSUME NEW i \in Slots(r)'
      PROVE  \E n \in Oldest(Available) :
               relay'[r].items[i] = [note |-> n, attempts |-> Later(n)]
  BY <1>2 DEF Item
<1>8. ItemsCounted'
  <2> SUFFICES ASSUME NEW q \in Relays, NEW i \in Slots(q)'
               PROVE  relay'[q].items[i].attempts \in 1..row'[relay'[q].items[i].note].attempts
    BY DEF ItemsCounted
  <2>1. CASE q # r
    BY <1>1, <1>3, <1>6, <2>1 DEF Items
  <2>2. CASE q = r
    <3>1. PICK n \in Oldest(Available) :
            relay'[r].items[i] = [note |-> n, attempts |-> Later(n)]
      BY <1>7, <2>2
    <3>2. row'[n].attempts = Later(n) /\ Later(n) \in 1..Later(n)
      BY <1>1, <1>3, <1>4
    <3> QED
      BY <2>2, <3>1, <3>2
  <2> QED
    BY <2>1, <2>2
<1>9. ASSUME NEW q \in Relays \ {r}, NEW i \in Slots(q)', NEW j \in Slots(r)'
      PROVE  relay'[q].items[i] # relay'[r].items[j]
  <2>1. PICK n \in Oldest(Available) :
          relay'[r].items[j] = [note |-> n, attempts |-> Later(n)]
    BY <1>7
  <2>2. Later(n) \notin 1..row[n].attempts
    BY <1>3, <1>4
  <2> QED
    BY <1>6, <2>1, <2>2
<1>10. HeldOnce'
  <2> SUFFICES ASSUME NEW q \in Relays, NEW p \in Relays,
                      NEW i \in Slots(q)', NEW j \in Slots(p)',
                      relay'[q].items[i] = relay'[p].items[j]
               PROVE  q = p /\ i = j
    BY DEF HeldOnce
  <2>1. CASE q = r /\ p = r
    BY <1>2, <2>1
  <2>2. CASE q # r /\ p # r
    BY <1>6, <2>2 DEF HeldOnce
  <2>3. CASE (q = r /\ p # r) \/ (q # r /\ p = r)
    BY <1>9, <2>3
  <2> QED
    BY <2>1, <2>2, <2>3
<1>11. ASSUME NEW n \in Notes, NEW k \in Open(n)'
       PROVE  k \in Open(n) \/ (n \in Oldest(Available) /\ k = Later(n))
  <2>1. PICK q \in Relays : \E i \in Slots(q)' :
          relay'[q].items[i] = [note |-> n, attempts |-> k] /\ ~Tried(q, i)'
    BY DEF Open
  <2> PICK i \in Slots(q)' : relay'[q].items[i] = [note |-> n, attempts |-> k] /\ ~Tried(q, i)'
    BY <2>1
  <2>2. CASE q # r
    <3>1. relay[q].items[i] = [note |-> n, attempts |-> k]
      BY <1>6, <2>2
    <3> QED
      BY <1>6, <2>2, <3>1 DEF Open
  <2>3. CASE q = r
    <3>1. PICK m \in Oldest(Available) :
            relay'[r].items[i] = [note |-> m, attempts |-> Later(m)]
      BY <1>7, <2>3
    <3>2. [note |-> m, attempts |-> Later(m)] = [note |-> n, attempts |-> k]
      BY <2>3, <3>1
    <3>3. m = n /\ k = Later(m)
      BY <3>2
    <3> QED
      BY <3>3
  <2> QED
    BY <2>2, <2>3
<1>12. dispatched' = dispatched /\ dispatched \in [Notes -> Nat]
  BY DEF Claim, TypeOK
<1>13. ASSUME NEW n \in Notes
       PROVE  dispatched'[n] + Cardinality(Open(n)') <= row'[n].attempts
  <2>1. CASE n \notin Oldest(Available)
    <3>1. Open(n)' \subseteq Open(n)
      BY <1>11, <2>1
    <3> QED
      BY <1>1, <1>12, <2>1, <3>1, AccountKept
  <2>2. CASE n \in Oldest(Available)
    <3>2. IsFiniteSet(Open(n)) /\ Cardinality(Open(n)) \in Nat
      BY OpenIsFinite
    <3>3. /\ IsFiniteSet(Open(n) \cup {Later(n)})
          /\ Cardinality(Open(n) \cup {Later(n)}) <= Cardinality(Open(n)) + 1
      <4>1. /\ IsFiniteSet(Open(n) \cup {Later(n)})
            /\ Cardinality(Open(n) \cup {Later(n)}) =
                 IF Later(n) \in Open(n) THEN Cardinality(Open(n)) ELSE Cardinality(Open(n)) + 1
        BY <3>2, FS_AddElement
      <4> HIDE DEF Later
      <4> QED
        BY <3>2, <4>1
    <3>4. Open(n)' \in SUBSET (Open(n) \cup {Later(n)})
      BY <1>11
    <3>5. IsFiniteSet(Open(n)') /\ Cardinality(Open(n)') <= Cardinality(Open(n) \cup {Later(n)})
      BY <3>3, <3>4, FS_Subset
    <3>6. Cardinality(Open(n)') \in Nat /\ Cardinality(Open(n) \cup {Later(n)}) \in Nat
      BY <3>3, <3>5, FS_CardinalityType
    <3>7. row'[n].attempts = row[n].attempts + 1 /\ row[n].attempts \in Nat
      BY <1>1, <1>3, <2>2
    <3>8. dispatched[n] + Cardinality(Open(n)) <= row[n].attempts /\ dispatched[n] \in Nat
      BY <1>12 DEF Account
    <3> QED
      BY <1>12, <3>2, <3>3, <3>5, <3>6, <3>7, <3>8
  <2> QED
    BY <2>1, <2>2
<1>14. Account'
  BY <1>13 DEF Account
<1> QED
  BY <1>1, <1>2, <1>8, <1>10, <1>12, <1>14 DEF TypeOK

\* Nothing is claimed at first.
LEMMA InvInitially == Init => Inv
<1> SUFFICES ASSUME Init
             PROVE  Inv
  OBVIOUS
<1>1. /\ \A n \in Notes : /\ row[n] = [status |-> "pending", attempts |-> 0,
                                       lease |-> NoLease, due |-> TRUE]
                          /\ dispatched[n] = 0
      /\ \A r \in Relays : relay[r] = [phase |-> "idle", items |-> <<>>]
  BY DEF Init
<1>2. TypeOK
  BY RelayAssumption DEF Init, TypeOK, RowsOK, RelaysOK, NoLease, Phases
<1>3. \A r \in Relays : Slots(r) = {}
  BY <1>1 DEF Slots
<1>4. AtWork /\ LeaseIsLast
  BY <1>1 DEF AtWork, LeaseIsLast
<1>5. ItemsCounted /\ HeldOnce
  BY <1>3 DEF ItemsCounted, HeldOnce
<1>6. \A n \in Notes : Open(n) = {}
  BY <1>3 DEF Open
<1>7. Account
  <2> SUFFICES ASSUME NEW n \in Notes
               PROVE  dispatched[n] + Cardinality(Open(n)) <= row[n].attempts
    BY DEF Account
  <2>1. Cardinality(Open(n)) = 0
    BY <1>6, FS_EmptySet
  <2> QED
    BY <1>1, <2>1
<1> QED
  BY <1>2, <1>4, <1>5, <1>7 DEF Inv

\* A crash drops the items of a relay; the attempts they stand for stay counted.
LEMMA CrashStep ==
  ASSUME Inv, NEW r \in Relays, Crash(r)
  PROVE  Inv'
<1> USE DEF Inv
<1>1. /\ row' = row /\ dispatched' = dispatched
      /\ relay' = [relay EXCEPT ![r] = [phase |-> "idle", items |-> <<>>]]
  BY DEF Crash
<1>2. relay \in [Relays -> [phase: Phases, items: Seq(Items)]]
  BY DEF TypeOK, RelaysOK
<1>3. TypeOK'
  BY <1>1, <1>2 DEF TypeOK, RowsOK, RelaysOK, Phases
<1>4. /\ relay'[r] = [phase |-> "idle", items |-> <<>>]
      /\ \A q \in Relays \ {r} : relay'[q] = relay[q]
  BY <1>1, <1>2
<1>5. /\ Slots(r)' = {}
      /\ \A q \in Relays \ {r} : Slots(q)' = Slots(q)
  BY <1>4 DEF Slots
<1>6. AtWork' /\ LeaseIsLast'
  BY <1>1, <1>4 DEF AtWork, LeaseIsLast
<1>7. ItemsCounted' /\ HeldOnce'
  BY <1>1, <1>4, <1>5 DEF ItemsCounted, HeldOnce
<1>8. \A n \in Notes : Open(n)' \subseteq Open(n)
  BY <1>1, <1>4, <1>5 DEF Open, Tried
<1>9. Account'
  BY <1>1, <1>8, AccountKept DEF Account
<1> QED
  BY <1>3, <1>6, <1>7, <1>9

\* Every step of the relays, and time, keeps the invariant.
LEMMA InvKept == Inv /\ [Next]_vars => Inv'
<1> SUFFICES ASSUME Inv, [Next]_vars
             PROVE  Inv'
  OBVIOUS
<1>1. ASSUME NEW r \in Relays, Claim(r)
      PROVE  Inv'
  BY <1>1, ClaimStep
<1>2. ASSUME NEW r \in Relays, Skip(r)
      PROVE  Inv'
  BY <1>2, SkipStep
<1>3. ASSUME NEW r \in Relays, StartDispatch(r) \/ RecordSentFails(r)
      PROVE  Inv'
  BY <1>3, PhaseSteps
<1>4. ASSUME NEW r \in Relays, NEW sent \in BOOLEAN, NEW outcome \in {"sent", "error"},
             Dispatch(r, sent, outcome)
      PROVE  Inv'
  BY <1>4, DispatchStep
<1>5. ASSUME NEW r \in Relays, RecordSent(r) \/ RecordFailure(r)
      PROVE  Inv'
  BY <1>5, OutcomeSteps
<1>6. ASSUME NEW r \in Relays, Crash(r)
      PROVE  Inv'
  BY <1>6, CrashStep
<1>7. ASSUME NEW n \in Notes, TimePasses(n)
      PROVE  Inv'
  BY <1>7, TimeStep
<1>8. CASE UNCHANGED vars
  BY <1>8 DEF vars, Inv, TypeOK, RowsOK, RelaysOK, AtWork, LeaseIsLast, ItemsCounted, HeldOnce,
              Account, Open, Slots, Tried
<1> QED
  BY <1>1, <1>2, <1>3, <1>4, <1>5, <1>6, <1>7, <1>8 DEF Next, Work

\* The account of attempts holds in every state that the relays reach.
THEOREM InvAlways == Spec => []Inv
  BY InvInitially, InvKept, PTL DEF Spec

\* However relays crash, stall, lose their leases and report late, a notification goes
\* out at most MAX_ATTEMPTS times.
THEOREM DispatchesBounded == Spec => []DispatchesAreBounded
<1>1. Inv => DispatchesAreBounded
  <2> SUFFICES ASSUME Inv, NEW n \in Notes
               PROVE  dispatched[n] <= MaxAttempts
    BY DEF DispatchesAreBounded
  <2>1. dispatched[n] \in Nat /\ row[n].attempts \in 0..MaxAttempts
    BY DEF Inv, TypeOK, RowsOK
  <2>2. Cardinality(Open(n)) \in Nat
    BY OpenIsFinite DEF Inv
  <2>3. dispatched[n] + Cardinality(Open(n)) <= row[n].attempts
    BY DEF Inv, Account
  <2> QED
    BY <2>1, <2>2, <2>3, RelayAssumption
<1> QED
  BY <1>1, InvAlways, PTL

\* No step changes a row that is sent or failed: claims, late results and the passing of
\* time leave it alone.
THEOREM OutcomesAreFinal == Spec => OutcomeIsFinal
<1>1. ASSUME Inv, [Next]_vars, NEW n \in Notes, Settled(n)
      PROVE  row'[n] = row[n]
  <2>1. row \in [Notes -> [status: {"pending", "processing", "sent", "failed"},
                           attempts: 0..MaxAttempts, lease: Nat, due: BOOLEAN]]
    BY <1>1 DEF Inv, TypeOK, RowsOK
  <2>2. row[n].status \in {"sent", "failed"}
    BY <1>1 DEF Settled
  <2>3. ASSUME NEW r \in Relays, Claim(r)
        PROVE  row'[n] = row[n]
    <3>1. n \notin ExpiredAtCap /\ n \notin Oldest(Available)
      BY <2>2 DEF ExpiredAtCap, Oldest, Available
    <3> QED
      BY <2>3, <3>1 DEF Claim
  <2>4. ASSUME NEW r \in Relays, NEW new, Record(r, new)
        PROVE  row'[n] = row[n]
    <3>1. CASE Holds(r)
      <4>1. Current(r).note # n
        BY <2>2, <3>1 DEF Holds
      <4> QED
        BY <2>1, <2>4, <3>1, <4>1 DEF Record
    <3>2. CASE ~Holds(r)
      BY <2>4, <3>2 DEF Record
    <3> QED
      BY <3>1, <3>2
  <2>5. ASSUME NEW r \in Relays, RecordSent(r) \/ RecordFailure(r)
        PROVE  row'[n] = row[n]
    BY <2>4, <2>5 DEF RecordSent, RecordFailure
  <2>6. ASSUME NEW k \in Notes, TimePasses(k)
        PROVE  row'[n] = row[n]
    <3>1. k # n
      BY <2>2, <2>6 DEF TimePasses
    <3> QED
      BY <2>1, <2>6, <3>1 DEF TimePasses
  <2>7. ASSUME row' = row
        PROVE  row'[n] = row[n]
    BY <2>7
  <2>8. ASSUME NEW r \in Relays,
               \/ Skip(r) \/ StartDispatch(r) \/ RecordSentFails(r) \/ Crash(r)
               \/ \E sent \in BOOLEAN, outcome \in {"sent", "error"} : Dispatch(r, sent, outcome)
        PROVE  row'[n] = row[n]
    BY <2>8 DEF Skip, StartDispatch, RecordSentFails, Crash, Dispatch
  <2> QED
    BY <1>1, <2>3, <2>5, <2>6, <2>7, <2>8 DEF Next, Work, vars
<1>2. Inv /\ [Next]_vars => [\A n \in Notes : Settled(n) => row'[n] = row[n]]_vars
  BY <1>1
<1> QED
  BY <1>2, InvAlways, PTL DEF Spec, OutcomeIsFinal
=============================================================================
