------------------------- MODULE CycleTimers_proofs -------------------------
(***************************************************************************)
(* Theorems about CycleTimers, for every value of its constants.           *)
(***************************************************************************)
EXTENDS CycleTimers, FiniteSetTheorems, SequenceTheorems, WellFoundedInduction, TLAPS

(* A nonempty set of naturals has a least element.                         *)
LEMMA LeastNatural ==
  ASSUME NEW K \in SUBSET Nat, K # {}
  PROVE  \E m \in K : \A k \in K : m <= k
<1> DEFINE Initials == {0 .. k : k \in K}
<1>1. Initials \subseteq FiniteSubsetsOf(Nat) /\ Initials # {}
  <2>1. ASSUME NEW k \in K PROVE 0 .. k \in FiniteSubsetsOf(Nat)
    <3>1. IsFiniteSet(0 .. k) /\ 0 .. k \subseteq Nat
      BY <2>1, FS_Interval
    <3> QED
      BY <3>1 DEF FiniteSubsetsOf
  <2> QED
    BY <2>1
<1>2. PICK x \in Initials : \A y \in Initials : <<y, x>> \notin StrictSubsetOrdering(Nat)
  BY <1>1, FS_StrictSubsetOrderingWellFounded, WFMin
<1>3. PICK m \in K : x = 0 .. m
  BY <1>2
<1>4. ASSUME NEW k \in K, k < m PROVE FALSE
  <2>1. 0 .. k \subseteq 0 .. m /\ 0 .. m \subseteq Nat /\ m \in 0 .. m /\ m \notin 0 .. k
    BY <1>4
  <2>2. 0 .. k # 0 .. m
    BY <2>1
  <2>3. <<0 .. k, x>> \in StrictSubsetOrdering(Nat)
    BY <1>3, <2>1, <2>2 DEF StrictSubsetOrdering
  <2>4. 0 .. k \in Initials
    OBVIOUS
  <2> QED
    BY <1>2, <2>3, <2>4
<1> QED
  BY <1>3, <1>4

-----------------------------------------------------------------------------
(* The list operations of sim_cycle_timers.c.                              *)

Sorted(q) == \A j, k \in 1 .. Len(q) : j < k => q[j].when <= q[k].when
Distinct(q) == \A j, k \in 1 .. Len(q) : q[j].id = q[k].id => j = k

(* What a list of slots holds.                                             *)
LEMMA SlotTypes ==
  ASSUME NEW q \in Seq(Slots)
  PROVE  /\ Len(q) \in Nat
         /\ \A k \in 1 .. Len(q) : q[k] \in Slots /\ q[k].when \in Int /\ q[k].id \in Timers
         /\ \A slot \in Slots : slot.when \in Int /\ slot.id \in Timers
<1>1. Len(q) \in Nat /\ \A k \in 1 .. Len(q) : q[k] \in Slots
  OBVIOUS
<1>2. \A slot \in Slots : slot.when \in Int /\ slot.id \in Timers
  BY DEF Slots
<1> QED
  BY <1>1, <1>2

(* On a sorted list, Place splits it into the timers due by w and the rest.*)
LEMMA PlaceProperties ==
  ASSUME NEW q \in Seq(Slots), Sorted(q), NEW w \in Int
  PROVE  /\ Place(q, w) \in 0 .. Len(q)
         /\ \A k \in 1 .. Place(q, w) : q[k].when <= w
         /\ \A k \in Place(q, w) + 1 .. Len(q) : q[k].when > w
<1> DEFINE Fits(n) == /\ \A k \in 1 .. n : q[k].when <= w
                      /\ n < Len(q) => q[n + 1].when > w
<1>0. Len(q) \in Nat /\ \A k \in 1 .. Len(q) : q[k] \in Slots /\ q[k].when \in Int
  BY SlotTypes
<1>1. \E n \in 0 .. Len(q) : Fits(n)
  <2> DEFINE K == {k \in 1 .. Len(q) : q[k].when > w}
  <2>1. CASE K = {}
    <3>1. \A k \in 1 .. Len(q) : q[k].when <= w
      BY <1>0, <2>1
    <3>2. Fits(Len(q)) /\ Len(q) \in 0 .. Len(q)
      BY <1>0, <3>1
    <3> QED
      BY <3>2
  <2>2. CASE K # {}
    <3>1. K \in SUBSET Nat
      BY <1>0
    <3>2. PICK m \in K : \A k \in K : m <= k
      BY <2>2, <3>1, LeastNatural
    <3>3. m \in 1 .. Len(q) /\ q[m].when > w
      BY <3>2
    <3>4. ASSUME NEW k \in 1 .. m - 1 PROVE q[k].when <= w
      <4>1. k \in 1 .. Len(q) /\ ~(m <= k)
        BY <1>0, <3>3
      <4>2. k \notin K
        BY <3>2, <4>1
      <4> QED
        BY <1>0, <4>1, <4>2
    <3>5. m - 1 \in 0 .. Len(q) /\ (m - 1) + 1 = m
      BY <1>0, <3>3
    <3>6. Fits(m - 1)
      BY <3>3, <3>4, <3>5
    <3> QED
      BY <3>5, <3>6
  <2> QED
    BY <2>1, <2>2
<1>2. Place(q, w) = CHOOSE n \in 0 .. Len(q) : Fits(n)
  BY DEF Place
<1>3. Place(q, w) \in 0 .. Len(q) /\ Fits(Place(q, w))
  BY <1>1, <1>2
<1> DEFINE n == Place(q, w)
<1>4. ASSUME NEW k \in n + 1 .. Len(q) PROVE q[k].when > w
  <2>1. /\ n + 1 \in 1 .. Len(q) /\ k \in 1 .. Len(q) /\ n < Len(q)
        /\ k = n + 1 \/ n + 1 < k
    BY <1>0, <1>3
  <2>2. q[n + 1].when > w
    BY <1>3, <2>1
  <2>3. k # n + 1 => q[n + 1].when <= q[k].when
    BY <2>1 DEF Sorted
  <2> QED
    BY <1>0, <2>1, <2>2, <2>3
<1> QED
  BY <1>3, <1>4

(* avr_cycle_timer_insert keeps the list sorted and adds just its timer.   *)
LEMMA InsertProperties ==
  ASSUME NEW q \in Seq(Slots), Sorted(q), NEW slot \in Slots
  PROVE  /\ InsertSlot(q, slot) \in Seq(Slots)
         /\ Len(InsertSlot(q, slot)) = Len(q) + 1
         /\ Sorted(InsertSlot(q, slot))
         /\ Ids(InsertSlot(q, slot)) = Ids(q) \cup {slot.id}
         /\ Distinct(q) /\ slot.id \notin Ids(q) => Distinct(InsertSlot(q, slot))
<1> DEFINE n == Place(q, slot.when)
           r == InsertSlot(q, slot)
           Old(k) == IF k <= n THEN k ELSE k - 1
<1>0. /\ Len(q) \in Nat /\ slot.when \in Int
      /\ \A k \in 1 .. Len(q) : q[k] \in Slots /\ q[k].when \in Int
  BY SlotTypes
<1>1. /\ n \in 0 .. Len(q)
      /\ \A k \in 1 .. n : q[k].when <= slot.when
      /\ \A k \in n + 1 .. Len(q) : q[k].when > slot.when
  BY <1>0, PlaceProperties
<1>2. r = [k \in 1 .. Len(q) + 1 |-> IF k <= n THEN q[k]
                                     ELSE IF k = n + 1 THEN slot ELSE q[k - 1]]
  BY DEF InsertSlot
<1> HIDE DEF n, r
<1>3. \A k \in 1 .. Len(q) + 1 :
        /\ k = n + 1 => r[k] = slot
        /\ k # n + 1 => Old(k) \in 1 .. Len(q) /\ r[k] = q[Old(k)]
  BY <1>0, <1>1, <1>2
<1>4. r \in Seq(Slots) /\ Len(r) = Len(q) + 1
  <2>1. \A k \in 1 .. Len(q) + 1 : r[k] \in Slots
    BY <1>0, <1>3
  <2>2. r \in [1 .. Len(q) + 1 -> Slots]
    BY <1>2, <2>1
  <2>3. Len(q) + 1 \in Nat
    BY <1>0
  <2> QED
    BY <2>2, <2>3
<1>5. Sorted(r)
  <2> SUFFICES ASSUME NEW j \in 1 .. Len(q) + 1, NEW k \in 1 .. Len(q) + 1, j < k
               PROVE  r[j].when <= r[k].when
    BY <1>4 DEF Sorted
  <2>1. CASE j = n + 1
    <3>1. k # n + 1 /\ Old(k) \in n + 1 .. Len(q)
      BY <1>0, <1>1, <2>1
    <3>2. q[Old(k)].when > slot.when
      BY <1>1, <3>1
    <3> QED
      BY <1>0, <1>3, <2>1, <3>1, <3>2
  <2>2. CASE k = n + 1
    <3>1. j # n + 1 /\ Old(j) \in 1 .. n
      BY <1>0, <1>1, <2>2
    <3> QED
      BY <1>1, <1>3, <2>2, <3>1
  <2>3. CASE j # n + 1 /\ k # n + 1
    <3>1. Old(j) < Old(k)
      BY <1>0, <1>1, <2>3
    <3> QED
      BY <1>3, <2>3, <3>1 DEF Sorted
  <2> QED
    BY <2>1, <2>2, <2>3
<1>6. Ids(r) = Ids(q) \cup {slot.id}
  <2>1. Ids(r) \subseteq Ids(q) \cup {slot.id}
    BY <1>3, <1>4 DEF Ids
  <2>2. slot.id \in Ids(r)
    <3>1. n + 1 \in 1 .. Len(q) + 1
      BY <1>0, <1>1
    <3> QED
      BY <1>3, <1>4, <3>1 DEF Ids
  <2>3. ASSUME NEW m \in 1 .. Len(q) PROVE q[m].id \in Ids(r)
    <3> DEFINE k == IF m <= n THEN m ELSE m + 1
    <3>1. k \in 1 .. Len(q) + 1 /\ k # n + 1 /\ Old(k) = m
      BY <1>0, <1>1
    <3>2. r[k] = q[m]
      BY <1>3, <3>1
    <3> QED
      BY <1>4, <3>1, <3>2 DEF Ids
  <2> QED
    BY <2>1, <2>2, <2>3 DEF Ids
<1>7. ASSUME Distinct(q), slot.id \notin Ids(q) PROVE Distinct(r)
  <2> SUFFICES ASSUME NEW j \in 1 .. Len(q) + 1, NEW k \in 1 .. Len(q) + 1,
                      r[j].id = r[k].id
               PROVE  j = k
    BY <1>4 DEF Distinct
  <2>1. \A i \in 1 .. Len(q) : q[i].id # slot.id
    BY <1>7 DEF Ids
  <2>2. (j = n + 1) <=> (k = n + 1)
    BY <1>3, <2>1
  <2>3. CASE j # n + 1 /\ k # n + 1
    <3>1. Old(j) = Old(k)
      BY <1>3, <1>7, <2>3 DEF Distinct
    <3> QED
      BY <1>0, <1>1, <2>3, <3>1
  <2> QED
    BY <2>2, <2>3
<1> QED
  BY <1>4, <1>5, <1>6, <1>7 DEF r

(* avr_cycle_timer_cancel takes out the timer's slot and nothing else.     *)
LEMMA WithoutProperties ==
  ASSUME NEW q \in Seq(Slots), Sorted(q), Distinct(q), NEW t
  PROVE  /\ Without(q, t) \in Seq(Slots)
         /\ Len(Without(q, t)) \in {Len(q), Len(q) - 1} /\ Len(Without(q, t)) \in Nat
         /\ Sorted(Without(q, t)) /\ Distinct(Without(q, t))
         /\ Ids(Without(q, t)) = Ids(q) \ {t}
<1> DEFINE r == Without(q, t)
<1>0. Len(q) \in Nat /\ \A k \in 1 .. Len(q) : q[k] \in Slots
  BY SlotTypes
<1>1. CASE t \notin Ids(q)
  <2>1. r = q
    BY <1>1 DEF Without
  <2> QED
    BY <1>0, <1>1, <2>1
<1>2. CASE t \in Ids(q)
  <2> DEFINE First(k) == q[k].id = t /\ \A j \in 1 .. k - 1 : q[j].id # t
             n == CHOOSE k \in 1 .. Len(q) : First(k)
             Old(k) == IF k < n THEN k ELSE k + 1
  <2>1. \E k \in 1 .. Len(q) : First(k)
    <3>1. PICK k \in 1 .. Len(q) : q[k].id = t
      BY <1>2 DEF Ids
    <3>2. ASSUME NEW j \in 1 .. k - 1 PROVE q[j].id # t
      <4>1. j \in 1 .. Len(q) /\ j # k
        BY <1>0, <3>1
      <4> QED
        BY <3>1, <4>1 DEF Distinct
    <3> QED
      BY <3>1, <3>2
  <2>2. n \in 1 .. Len(q) /\ q[n].id = t
    BY <2>1
  <2>3. r = [k \in 1 .. Len(q) - 1 |-> IF k < n THEN q[k] ELSE q[k + 1]]
    BY <1>2 DEF Without
  <2> HIDE DEF n, r
  <2>4. \A k \in 1 .. Len(q) - 1 : /\ Old(k) \in 1 .. Len(q) /\ Old(k) # n
                                   /\ r[k] = q[Old(k)]
    BY <1>0, <2>2, <2>3
  <2>5. r \in Seq(Slots) /\ Len(r) = Len(q) - 1 /\ Len(r) \in Nat
    <3>1. r \in [1 .. Len(q) - 1 -> Slots]
      BY <1>0, <2>3, <2>4
    <3>2. Len(q) - 1 \in Nat
      BY <1>0, <2>2
    <3> QED
      BY <3>1, <3>2
  <2>6. Sorted(r)
    <3> SUFFICES ASSUME NEW j \in 1 .. Len(q) - 1, NEW k \in 1 .. Len(q) - 1, j < k
                 PROVE  r[j].when <= r[k].when
      BY <2>5 DEF Sorted
    <3>1. Old(j) < Old(k)
      BY <1>0, <2>2
    <3> QED
      BY <2>4, <3>1 DEF Sorted
  <2>7. Distinct(r)
    <3> SUFFICES ASSUME NEW j \in 1 .. Len(q) - 1, NEW k \in 1 .. Len(q) - 1,
                        r[j].id = r[k].id
                 PROVE  j = k
      BY <2>5 DEF Distinct
    <3>1. Old(j) = Old(k)
      BY <2>4 DEF Distinct
    <3> QED
      BY <1>0, <2>2, <3>1
  <2>8. Ids(r) = Ids(q) \ {t}
    <3>1. Ids(r) \subseteq Ids(q) \ {t}
      <4>1. ASSUME NEW k \in 1 .. Len(q) - 1 PROVE r[k].id \in Ids(q) \ {t}
        <5>1. q[Old(k)].id # t
          BY <2>2, <2>4 DEF Distinct
        <5> QED
          BY <2>4, <5>1 DEF Ids
      <4> QED
        BY <2>5, <4>1 DEF Ids
    <3>2. ASSUME NEW m \in 1 .. Len(q), q[m].id # t PROVE q[m].id \in Ids(r)
      <4> DEFINE k == IF m < n THEN m ELSE m - 1
      <4>1. k \in 1 .. Len(q) - 1 /\ Old(k) = m
        BY <1>0, <2>2, <3>2
      <4>2. r[k] = q[m]
        BY <2>4, <4>1
      <4> QED
        BY <2>5, <4>1, <4>2 DEF Ids
    <3> QED
      BY <3>1, <3>2 DEF Ids
  <2> QED
    BY <2>5, <2>6, <2>7, <2>8 DEF r
<1> QED
  BY <1>1, <1>2

(* Time passing moves every timer alike.                                   *)
LEMMA LaterProperties ==
  ASSUME NEW q \in Seq(Slots), Sorted(q), Distinct(q), NEW cycles \in Int
  PROVE  /\ Later(q, cycles) \in Seq(Slots) /\ Len(Later(q, cycles)) = Len(q)
         /\ Sorted(Later(q, cycles)) /\ Distinct(Later(q, cycles))
         /\ Ids(Later(q, cycles)) = Ids(q)
<1> DEFINE r == Later(q, cycles)
<1>0. Len(q) \in Nat /\ \A k \in 1 .. Len(q) : q[k] \in Slots /\ q[k].when \in Int
  BY SlotTypes
<1>1. r = [k \in 1 .. Len(q) |-> [q[k] EXCEPT !.when = @ - cycles]]
  BY DEF Later
<1> HIDE DEF r
<1>2. \A k \in 1 .. Len(q) : /\ r[k] \in Slots
                             /\ r[k].id = q[k].id /\ r[k].when = q[k].when - cycles
  BY <1>0, <1>1 DEF Slots
<1>3. r \in Seq(Slots) /\ Len(r) = Len(q)
  <2>1. r \in [1 .. Len(q) -> Slots]
    BY <1>1, <1>2
  <2> QED
    BY <1>0, <2>1
<1>4. Sorted(r)
  <2> SUFFICES ASSUME NEW j \in 1 .. Len(q), NEW k \in 1 .. Len(q), j < k
               PROVE  r[j].when <= r[k].when
    BY <1>3 DEF Sorted
  <2>1. q[j].when <= q[k].when
    BY DEF Sorted
  <2> QED
    BY <1>0, <1>2, <2>1
<1>5. Distinct(r)
  BY <1>2, <1>3 DEF Distinct
<1>6. Ids(r) = Ids(q)
  BY <1>2, <1>3 DEF Ids
<1> QED
  BY <1>3, <1>4, <1>5, <1>6 DEF r

(* Detaching the head leaves the others as they were.                      *)
LEMMA TailKeeps ==
  ASSUME NEW q \in Seq(Slots), Sorted(q), Distinct(q), q # << >>
  PROVE  /\ Tail(q) \in Seq(Slots) /\ Head(q) \in Slots /\ Len(Tail(q)) = Len(q) - 1
         /\ Sorted(Tail(q)) /\ Distinct(Tail(q))
         /\ Ids(q) = Ids(Tail(q)) \cup {Head(q).id}
<1>1. /\ Tail(q) \in Seq(Slots) /\ Head(q) \in Slots /\ Len(Tail(q)) = Len(q) - 1
      /\ \A k \in 1 .. Len(q) - 1 : Tail(q)[k] = q[k + 1]
      /\ Head(q) = q[1] /\ Len(q) \in Nat /\ Len(q) >= 1
  BY HeadTailProperties, EmptySeq
<1>2. Sorted(Tail(q)) /\ Distinct(Tail(q))
  <2>1. ASSUME NEW j \in 1 .. Len(q) - 1, NEW k \in 1 .. Len(q) - 1
        PROVE  /\ j < k => Tail(q)[j].when <= Tail(q)[k].when
               /\ Tail(q)[j].id = Tail(q)[k].id => j = k
    <3>1. /\ j + 1 \in 1 .. Len(q) /\ k + 1 \in 1 .. Len(q)
          /\ j < k => j + 1 < k + 1
          /\ j + 1 = k + 1 => j = k
      BY <1>1
    <3> QED
      BY <1>1, <3>1 DEF Sorted, Distinct
  <2> QED
    BY <1>1, <2>1 DEF Sorted, Distinct
<1>3. Ids(q) = Ids(Tail(q)) \cup {Head(q).id}
  <2>1. ASSUME NEW k \in 1 .. Len(q) PROVE q[k].id \in Ids(Tail(q)) \cup {Head(q).id}
    <3>1. CASE k = 1
      BY <1>1, <3>1
    <3>2. CASE k # 1
      <4>1. k - 1 \in 1 .. Len(q) - 1 /\ (k - 1) + 1 = k
        BY <1>1, <3>2
      <4>2. Tail(q)[k - 1] = q[k]
        BY <1>1, <4>1
      <4> QED
        BY <1>1, <4>1, <4>2 DEF Ids
    <3> QED
      BY <3>1, <3>2
  <2>2. ASSUME NEW k \in 1 .. Len(q) - 1 PROVE Tail(q)[k].id \in Ids(q)
    <3>1. k + 1 \in 1 .. Len(q) /\ Tail(q)[k] = q[k + 1]
      BY <1>1
    <3> QED
      BY <3>1 DEF Ids
  <2>3. Head(q).id \in Ids(q)
    <3>1. 1 \in 1 .. Len(q)
      BY <1>1
    <3> QED
      BY <1>1, <3>1 DEF Ids
  <2> QED
    BY <1>1, <2>1, <2>2, <2>3 DEF Ids
<1> QED
  BY <1>1, <1>2, <1>3

(* A list that holds each timer once has as many timers as slots.          *)
LEMMA IdsCounted ==
  ASSUME NEW q \in Seq(Slots), Distinct(q)
  PROVE  IsFiniteSet(Ids(q)) /\ Cardinality(Ids(q)) = Len(q) /\ Ids(q) \subseteq Timers
<1> DEFINE f == [k \in 1 .. Len(q) |-> q[k].id]
<1>1. Len(q) \in Nat /\ \A k \in 1 .. Len(q) : q[k].id \in Timers
  BY SlotTypes
<1>2. f \in Bijection(1 .. Len(q), Ids(q))
  BY DEF Bijection, Injection, Surjection, IsInjective, Ids, Distinct
<1>3. ExistsBijection(1 .. Len(q), Ids(q))
  BY <1>2 DEF ExistsBijection
<1>4. IsFiniteSet(Ids(q)) /\ Cardinality(Ids(q)) = Len(q)
  BY <1>1, <1>3, FS_NatBijection, FS_CountingElements
<1> QED
  BY <1>1, <1>4 DEF Ids

-----------------------------------------------------------------------------
(* The inductive invariant: the list is sorted and without duplicates, the *)
(* slots add up, and exactly a running callback holds a slot of its own.   *)
FiringHeld == Len(firing) = IF phase = "callback" THEN 1 ELSE 0

IInv == TypeOK /\ SlotsConserved /\ ListSound /\ Scheduled /\ FiringHeld

LEMMA InvFacts ==
  ASSUME IInv
  PROVE  /\ timer \in Seq(Slots) /\ Sorted(timer) /\ Distinct(timer)
         /\ Len(timer) \in Nat /\ free \in Nat /\ MaxTimers \in Nat
         /\ Len(timer) + Len(firing) + free = MaxTimers
         /\ phase = "callback" => /\ Len(firing) = 1 /\ firing[1] \in Slots
                                  /\ Ids(firing) = {firing[1].id}
         /\ phase # "callback" => firing = << >>
<1>1. /\ timer \in Seq(Slots) /\ Len(timer) \in Nat /\ free \in Nat /\ MaxTimers \in Nat
      /\ Len(timer) + Len(firing) + free = MaxTimers /\ firing \in Seq(Slots)
  BY TimerAssumption DEF IInv, TypeOK, SlotsConserved
<1>2. Sorted(timer) /\ Distinct(timer)
  BY DEF IInv, ListSound, Sorted, Distinct
<1>3. ASSUME phase = "callback"
      PROVE  Len(firing) = 1 /\ firing[1] \in Slots /\ Ids(firing) = {firing[1].id}
  <2>1. Len(firing) = 1
    BY <1>3 DEF IInv, FiringHeld
  <2>2. firing[1] \in Slots
    BY <1>1, <2>1, ElementOfSeq
  <2>3. 1 .. Len(firing) = {1}
    BY <2>1
  <2>4. Ids(firing) = {firing[1].id}
    BY <2>3 DEF Ids
  <2> QED
    BY <2>1, <2>2, <2>4
<1>4. ASSUME phase # "callback" PROVE firing = << >>
  <2>1. Len(firing) = 0
    BY <1>4 DEF IInv, FiringHeld
  <2> QED
    BY <1>1, <2>1, EmptySeq
<1> QED
  BY <1>1, <1>2, <1>3, <1>4

(* A timer can only miss its slot when all slots are wanted.               *)
LEMMA MissingMeansCrowded ==
  ASSUME NEW q \in Seq(Slots), Distinct(q), NEW set \in SUBSET Timers, NEW t \in set,
         Ids(q) \subseteq set, t \notin Ids(q), Len(q) >= MaxTimers - 1
  PROVE  Cardinality(set) >= MaxTimers
<1>1. IsFiniteSet(Ids(q)) /\ Cardinality(Ids(q)) = Len(q) /\ Len(q) \in Nat
  BY IdsCounted, SlotTypes
<1>2. IsFiniteSet(set)
  BY TimerAssumption, FS_Subset
<1>3. Cardinality(Ids(q) \cup {t}) = Len(q) + 1
  BY <1>1, FS_AddElement
<1>4. Cardinality(Ids(q) \cup {t}) <= Cardinality(set) /\ Cardinality(set) \in Nat
  BY <1>2, FS_Subset, FS_CardinalityType
<1> QED
  BY <1>1, <1>3, <1>4, TimerAssumption

(* Putting the parts of the invariant together after a step.               *)
LEMMA InvFromParts ==
  ASSUME timer' \in Seq(Slots), Sorted(timer'), Distinct(timer'),
         free' \in 0 .. MaxTimers, firing' \in Seq(Slots),
         phase' \in {"run", "process", "callback", "idle"},
         Len(firing') = IF phase' = "callback" THEN 1 ELSE 0,
         Len(timer') + Len(firing') + free' = MaxTimers,
         wanted' \in SUBSET Timers, crowded' \in BOOLEAN,
         Ids(timer') \subseteq wanted',
         wanted' \subseteq Ids(timer') \cup Ids(firing') \/ crowded'
  PROVE  IInv'
<1>1. TypeOK' /\ FiringHeld'
  BY DEF TypeOK, FiringHeld
<1>2. SlotsConserved' /\ Scheduled'
  BY DEF SlotsConserved, Scheduled, Ids
<1>3. ListSound'
  BY DEF ListSound, Sorted, Distinct
<1> QED
  BY <1>1, <1>2, <1>3 DEF IInv

LEMMA InvInitially == Init => IInv
<1> SUFFICES ASSUME Init PROVE IInv
  OBVIOUS
<1>1. timer = << >> /\ firing = << >> /\ Len(<< >>) = 0 /\ << >> \in Seq(Slots)
  BY EmptySeq DEF Init
<1>2. TypeOK
  <2>1. free = MaxTimers /\ MaxTimers \in 0 .. MaxTimers
    BY TimerAssumption DEF Init
  <2>2. timer \in Seq(Slots) /\ firing \in Seq(Slots) /\ Len(firing) <= 1
    BY <1>1, EmptySeq
  <2>3. phase = "run" /\ wanted = {} /\ crowded = FALSE
    BY DEF Init
  <2> QED
    BY <2>1, <2>2, <2>3 DEF TypeOK
<1>5. SlotsConserved /\ FiringHeld
  BY <1>1, TimerAssumption DEF Init, SlotsConserved, FiringHeld
<1>3. ListSound
  BY <1>1 DEF ListSound
<1>4. Scheduled
  BY <1>1 DEF Init, Scheduled, Ids
<1> QED
  BY <1>2, <1>3, <1>4, <1>5 DEF IInv

(* Registering a timer: it is cancelled first, so it never appears twice.  *)
LEMMA RegisterKeeps ==
  ASSUME IInv, NEW t \in Timers, NEW d \in Int, Register(t, d)
  PROVE  IInv'
<1> DEFINE rest == Without(timer, t)
           left == free + Len(timer) - Len(rest)
           slot == [id |-> t, when |-> d]
<1>1. /\ timer \in Seq(Slots) /\ Sorted(timer) /\ Distinct(timer)
      /\ Len(timer) \in Nat /\ free \in Nat /\ MaxTimers \in Nat
      /\ Len(timer) + Len(firing) + free = MaxTimers
  BY InvFacts
<1>2. /\ rest \in Seq(Slots) /\ Len(rest) \in {Len(timer), Len(timer) - 1}
      /\ Len(rest) \in Nat /\ Sorted(rest) /\ Distinct(rest)
      /\ Ids(rest) = Ids(timer) \ {t}
  BY <1>1, WithoutProperties
<1>3. /\ UNCHANGED <<phase, firing>>
      /\ wanted' = wanted \cup {t}
      /\ crowded' = (crowded \/ Cardinality(wanted \cup {t}) >= MaxTimers)
      /\ IF left = 0 THEN timer' = rest /\ free' = left
         ELSE timer' = InsertSlot(rest, slot) /\ free' = left - 1
  BY DEF Register, Want
<1> HIDE DEF rest, left
<1>4. /\ Ids(timer) \subseteq wanted
      /\ wanted \subseteq Ids(timer) \cup Ids(firing) \/ crowded
      /\ wanted' \in SUBSET Timers
  BY <1>3 DEF IInv, Scheduled, TypeOK
<1>5. Ids(firing') = Ids(firing) /\ Len(firing) \in {0, 1} /\ firing \in Seq(Slots)
  <2>1. Len(firing) \in {0, 1} /\ firing \in Seq(Slots)
    BY DEF IInv, FiringHeld, TypeOK
  <2> QED
    BY <1>3, <2>1
<1>6. left \in Nat /\ left + Len(rest) + Len(firing) = MaxTimers
  BY <1>1, <1>2, <1>5 DEF left
<1>7. CASE left = 0
  <2>1. Cardinality(wanted \cup {t}) >= MaxTimers
    <3>1. Len(rest) >= MaxTimers - 1
      <4>1. Len(rest) + Len(firing) = MaxTimers
        BY <1>2, <1>5, <1>6, <1>7
      <4>2. Len(firing) = 0 \/ Len(firing) = 1
        BY <1>5
      <4>3. Len(rest) \in Nat /\ MaxTimers \in Nat
        BY <1>1, <1>2
      <4>4. \A r, m \in Nat, f \in {0, 1} : r + f = m => r >= m - 1
        OBVIOUS
      <4>5. Len(firing) \in {0, 1}
        BY <4>2
      <4> QED
        BY <4>1, <4>3, <4>4, <4>5
    <3>2. Ids(rest) \subseteq wanted \cup {t} /\ t \notin Ids(rest)
      BY <1>2, <1>4
    <3> QED
      BY <1>2, <1>3, <1>4, <3>1, <3>2, MissingMeansCrowded
  <2>2. crowded' = TRUE
    BY <1>3, <2>1
  <2>3. timer' = rest /\ free' \in 0 .. MaxTimers
    BY <1>1, <1>3, <1>7
  <2>4. Len(timer') + Len(firing') + free' = MaxTimers
    BY <1>2, <1>3, <1>5, <1>6, <1>7
  <2> QED
    BY <1>2, <1>3, <1>4, <1>5, <2>2, <2>3, <2>4, InvFromParts DEF IInv, TypeOK, FiringHeld
<1>8. CASE left # 0
  <2>1. slot \in Slots /\ slot.id = t
    BY DEF Slots
  <2>2. timer' = InsertSlot(rest, slot) /\ free' = left - 1
    BY <1>3, <1>8
  <2>3. /\ timer' \in Seq(Slots) /\ Len(timer') = Len(rest) + 1 /\ Sorted(timer')
        /\ Ids(timer') = Ids(rest) \cup {t} /\ Distinct(timer')
    BY <1>2, <2>1, <2>2, InsertProperties
  <2>4. free' \in 0 .. MaxTimers /\ Len(timer') + Len(firing') + free' = MaxTimers
    <3>1. /\ Len(timer') = Len(rest) + 1 /\ Len(firing') = Len(firing)
          /\ free' = left - 1 /\ left # 0
      BY <1>3, <1>8, <2>2, <2>3
    <3>2. /\ Len(rest) \in Nat /\ left \in Nat /\ Len(firing) \in Nat
          /\ MaxTimers \in Nat /\ left + Len(rest) + Len(firing) = MaxTimers
      BY <1>1, <1>2, <1>5, <1>6
    <3> QED
      BY <3>1, <3>2
  <2>5. /\ Ids(timer') \subseteq wanted'
        /\ wanted' \subseteq Ids(timer') \cup Ids(firing') \/ crowded'
    BY <1>2, <1>3, <1>4, <1>5, <2>3
  <2>6. crowded' \in BOOLEAN
    BY <1>3
  <2> QED
    BY <1>3, <1>4, <1>5, <2>3, <2>4, <2>5, <2>6, InvFromParts DEF IInv, TypeOK, FiringHeld
<1> QED
  BY <1>7, <1>8

LEMMA CancelKeeps ==
  ASSUME IInv, NEW t \in Timers, Cancel(t)
  PROVE  IInv'
<1>1. /\ timer \in Seq(Slots) /\ Sorted(timer) /\ Distinct(timer)
      /\ Len(timer) \in Nat /\ free \in Nat /\ MaxTimers \in Nat
      /\ Len(timer) + Len(firing) + free = MaxTimers
  BY InvFacts
<1>2. /\ UNCHANGED <<phase, firing>> /\ wanted' = wanted \ {t} /\ crowded' \in BOOLEAN
      /\ crowded => crowded'
      /\ timer' = Without(timer, t) /\ free' = free + Len(timer) - Len(timer')
  BY DEF Cancel, Want
<1>3. /\ timer' \in Seq(Slots) /\ Len(timer') \in {Len(timer), Len(timer) - 1}
      /\ Len(timer') \in Nat /\ Sorted(timer') /\ Distinct(timer')
      /\ Ids(timer') = Ids(timer) \ {t}
  BY <1>1, <1>2, WithoutProperties
<1>4. Ids(firing') = Ids(firing) /\ Len(firing) \in {0, 1} /\ firing \in Seq(Slots)
  <2>1. Len(firing) \in {0, 1} /\ firing \in Seq(Slots)
    BY DEF IInv, FiringHeld, TypeOK
  <2> QED
    BY <1>2, <2>1
<1>5. free' \in 0 .. MaxTimers /\ Len(timer') + Len(firing') + free' = MaxTimers
  BY <1>1, <1>2, <1>3, <1>4
<1>6. /\ Ids(timer') \subseteq wanted' /\ wanted' \in SUBSET Timers
      /\ wanted' \subseteq Ids(timer') \cup Ids(firing') \/ crowded'
  BY <1>2, <1>3, <1>4 DEF IInv, Scheduled, TypeOK
<1> QED
  BY <1>2, <1>3, <1>4, <1>5, <1>6, InvFromParts DEF IInv, TypeOK, FiringHeld

(* A callback that wants no later call gives its slot back.                *)
LEMMA ExpireKeeps ==
  ASSUME IInv, NEW w, Expire(w)
  PROVE  IInv'
<1>1. /\ timer \in Seq(Slots) /\ Sorted(timer) /\ Distinct(timer)
      /\ Len(timer) \in Nat /\ free \in Nat /\ MaxTimers \in Nat
      /\ Len(timer) + 1 + free = MaxTimers /\ Ids(firing) = {firing[1].id}
  BY InvFacts DEF Expire
<1>2. /\ timer' = timer /\ free' = free + 1 /\ firing' = << >> /\ phase' = "process"
      /\ wanted' = IF firing[1].id \in Ids(timer) THEN wanted ELSE wanted \ {firing[1].id}
      /\ crowded' \in BOOLEAN /\ (crowded => crowded')
  BY DEF Expire, Want
<1>3. firing' \in Seq(Slots) /\ Len(firing') = 0
  BY <1>2, EmptySeq
<1>4. free' \in 0 .. MaxTimers /\ Len(timer') + Len(firing') + free' = MaxTimers
  BY <1>1, <1>2, <1>3
<1>5. /\ Ids(timer') \subseteq wanted' /\ wanted' \in SUBSET Timers
      /\ wanted' \subseteq Ids(timer') \cup Ids(firing') \/ crowded'
  BY <1>1, <1>2 DEF IInv, Scheduled, TypeOK
<1> QED
  BY <1>1, <1>2, <1>3, <1>4, <1>5, InvFromParts

(* Catching up only moves the time the callback is called for.             *)
LEMMA CatchUpKeeps ==
  ASSUME IInv, NEW w \in Int, CatchUp(w)
  PROVE  IInv'
<1>1. /\ timer \in Seq(Slots) /\ Sorted(timer) /\ Distinct(timer) /\ firing[1] \in Slots
      /\ Len(timer) + 1 + free = MaxTimers /\ Ids(firing) = {firing[1].id}
  BY InvFacts DEF CatchUp
<1> DEFINE slot == [firing[1] EXCEPT !.when = w]
<1>2. /\ UNCHANGED <<phase, timer, free>> /\ firing' = <<slot>> /\ phase = "callback"
      /\ wanted' = wanted \cup {firing[1].id}
      /\ crowded' \in BOOLEAN /\ (crowded => crowded')
  BY DEF CatchUp, Want
<1>3. slot \in Slots /\ slot.id = firing[1].id /\ firing[1].id \in Timers
  BY <1>1 DEF Slots
<1> HIDE DEF slot
<1>4. firing' \in Seq(Slots) /\ Len(firing') = 1 /\ Ids(firing') = {firing[1].id}
  <2>1. firing' \in Seq(Slots) /\ Len(firing') = 1 /\ firing'[1] = slot
    BY <1>2, <1>3
  <2>2. 1 .. Len(firing') = {1}
    BY <2>1
  <2> QED
    BY <1>3, <2>1, <2>2 DEF Ids
<1>5. /\ Ids(timer') \subseteq wanted' /\ wanted' \in SUBSET Timers
      /\ wanted' \subseteq Ids(timer') \cup Ids(firing') \/ crowded'
  BY <1>1, <1>2, <1>3, <1>4 DEF IInv, Scheduled, TypeOK
<1>6. free' \in 0 .. MaxTimers /\ Len(timer') + Len(firing') + free' = MaxTimers
  BY <1>1, <1>2, <1>4 DEF IInv, TypeOK
<1> QED
  BY <1>1, <1>2, <1>4, <1>5, <1>6, InvFromParts

(* A rescheduled timer is lost only when the other slots are all taken.    *)
LEMMA RescheduleKeeps ==
  ASSUME IInv, NEW w \in Int, Reschedule(w), firing[1].id \notin Ids(timer)
  PROVE  IInv'
<1> DEFINE t == firing[1].id
           slot == [firing[1] EXCEPT !.when = w]
<1>1. /\ timer \in Seq(Slots) /\ Sorted(timer) /\ Distinct(timer) /\ firing[1] \in Slots
      /\ Len(timer) \in Nat /\ free \in Nat /\ MaxTimers \in Nat
      /\ Len(timer) + 1 + free = MaxTimers /\ Ids(firing) = {t}
  BY InvFacts DEF Reschedule
<1>2. slot \in Slots /\ slot.id = t /\ t \in Timers
  BY <1>1 DEF Slots
<1>3. /\ firing' = << >> /\ phase' = "process" /\ wanted' = wanted \cup {t}
      /\ crowded' = (crowded \/ Cardinality(wanted \cup {t}) >= MaxTimers)
      /\ IF free = 0 THEN timer' = timer /\ free' = 1
         ELSE timer' = InsertSlot(timer, slot) /\ free' = free - 1 + 1
  BY DEF Reschedule, Want, Freed
<1> HIDE DEF t, slot
<1>4. /\ Ids(timer) \subseteq wanted /\ wanted' \in SUBSET Timers /\ crowded' \in BOOLEAN
      /\ wanted \subseteq Ids(timer) \cup {t} \/ crowded
      /\ crowded => crowded'
  BY <1>1, <1>2, <1>3 DEF IInv, Scheduled, TypeOK
<1>5. firing' \in Seq(Slots) /\ Len(firing') = 0
  BY <1>3, EmptySeq
<1>6. CASE free = 0
  <2>1. Len(timer) >= MaxTimers - 1 /\ t \notin Ids(timer)
    BY <1>1, <1>6 DEF t
  <2>2. Cardinality(wanted \cup {t}) >= MaxTimers
    BY <1>1, <1>3, <1>4, <2>1, MissingMeansCrowded
  <2>3. crowded' = TRUE
    BY <1>3, <2>2
  <2>4. free' \in 0 .. MaxTimers /\ Len(timer') + Len(firing') + free' = MaxTimers
    BY <1>1, <1>3, <1>5, <1>6
  <2> QED
    BY <1>1, <1>3, <1>4, <1>5, <1>6, <2>3, <2>4, InvFromParts
<1>7. CASE free # 0
  <2>1. timer' = InsertSlot(timer, slot) /\ free' = free
    BY <1>1, <1>3, <1>7
  <2>2. /\ timer' \in Seq(Slots) /\ Len(timer') = Len(timer) + 1 /\ Sorted(timer')
        /\ Ids(timer') = Ids(timer) \cup {t} /\ Distinct(timer')
    BY <1>1, <1>2, <2>1, InsertProperties DEF t
  <2>3. free' \in 0 .. MaxTimers /\ Len(timer') + Len(firing') + free' = MaxTimers
    BY <1>1, <1>5, <2>1, <2>2
  <2>4. /\ Ids(timer') \subseteq wanted'
        /\ wanted' \subseteq Ids(timer') \cup Ids(firing') \/ crowded'
    BY <1>3, <1>4, <2>2
  <2> QED
    BY <1>3, <1>4, <1>5, <2>2, <2>3, <2>4, InvFromParts
<1> QED
  BY <1>6, <1>7

(* The head of a list is detached into the slot that fires.                *)
LEMMA FireKeeps ==
  ASSUME IInv, Fire
  PROVE  IInv'
<1>1. /\ timer \in Seq(Slots) /\ Sorted(timer) /\ Distinct(timer) /\ timer # << >>
      /\ Len(timer) \in Nat /\ firing = << >> /\ Len(firing) = 0
      /\ Len(timer) + Len(firing) + free = MaxTimers
  BY InvFacts, EmptySeq DEF Fire
<1>2. /\ timer' = Tail(timer) /\ firing' = <<Head(timer)>> /\ phase' = "callback"
      /\ UNCHANGED <<free, wanted, crowded>>
  BY DEF Fire
<1>3. /\ timer' \in Seq(Slots) /\ Head(timer) \in Slots /\ Len(timer') = Len(timer) - 1
      /\ Sorted(timer') /\ Distinct(timer')
      /\ Ids(timer) = Ids(timer') \cup {Head(timer).id}
  BY <1>1, <1>2, TailKeeps
<1>4. firing' \in Seq(Slots) /\ Len(firing') = 1 /\ Ids(firing') = {Head(timer).id}
  <2>1. firing' \in Seq(Slots) /\ Len(firing') = 1 /\ firing'[1] = Head(timer)
    BY <1>2, <1>3
  <2>2. 1 .. Len(firing') = {1}
    BY <2>1
  <2> QED
    BY <2>1, <2>2 DEF Ids
<1>5. Ids(firing) = {}
  BY <1>1 DEF Ids
<1>6. /\ Ids(timer') \subseteq wanted' /\ wanted' \in SUBSET Timers /\ crowded' \in BOOLEAN
      /\ wanted' \subseteq Ids(timer') \cup Ids(firing') \/ crowded'
  BY <1>2, <1>3, <1>4, <1>5 DEF IInv, Scheduled, TypeOK
<1>7. free' \in 0 .. MaxTimers /\ Len(timer') + Len(firing') + free' = MaxTimers
  BY <1>1, <1>2, <1>3, <1>4 DEF IInv, TypeOK
<1> QED
  BY <1>2, <1>3, <1>4, <1>6, <1>7, InvFromParts

(* Time passes, in an instruction or asleep.                               *)
LEMMA TimePasses ==
  ASSUME IInv, NEW cycles \in Int, timer' = Later(timer, cycles), phase # "callback",
         phase' = "process", UNCHANGED <<free, firing, wanted, crowded>>
  PROVE  IInv'
<1>1. /\ timer \in Seq(Slots) /\ Sorted(timer) /\ Distinct(timer)
      /\ firing = << >> /\ Len(timer) + Len(firing) + free = MaxTimers
  BY InvFacts
<1>2. /\ timer' \in Seq(Slots) /\ Len(timer') = Len(timer) /\ Sorted(timer')
      /\ Distinct(timer') /\ Ids(timer') = Ids(timer)
  BY <1>1, LaterProperties
<1>3. firing' \in Seq(Slots) /\ Len(firing') = 0 /\ Ids(firing') = Ids(firing)
  BY <1>1, EmptySeq
<1>4. /\ Ids(timer') \subseteq wanted' /\ wanted' \in SUBSET Timers /\ crowded' \in BOOLEAN
      /\ wanted' \subseteq Ids(timer') \cup Ids(firing') \/ crowded'
      /\ free' \in 0 .. MaxTimers
  BY <1>2, <1>3 DEF IInv, Scheduled, TypeOK
<1>5. Len(timer') + Len(firing') + free' = MaxTimers
  BY <1>1, <1>2
<1> QED
  BY <1>2, <1>3, <1>4, <1>5, InvFromParts

(* avr_cycle_timer_reset starts from an empty pool again.                  *)
LEMMA ResetKeeps ==
  ASSUME IInv, Reset
  PROVE  IInv'
<1>1. /\ timer' = << >> /\ free' = MaxTimers /\ phase' = "run" /\ wanted' = {}
      /\ crowded' = FALSE /\ firing' = << >>
  BY InvFacts DEF Reset
<1>2. /\ timer' \in Seq(Slots) /\ firing' \in Seq(Slots)
      /\ Len(timer') = 0 /\ Len(firing') = 0
  BY <1>1, EmptySeq
<1>3. Sorted(timer') /\ Distinct(timer') /\ Ids(timer') = {}
  BY <1>2 DEF Sorted, Distinct, Ids
<1>4. free' \in 0 .. MaxTimers /\ Len(timer') + Len(firing') + free' = MaxTimers
  BY <1>1, <1>2, TimerAssumption
<1> QED
  BY <1>1, <1>2, <1>3, <1>4, InvFromParts

LEMMA InvPreserved == IInv /\ [Next]_vars => IInv'
<1> SUFFICES ASSUME IInv, [Next]_vars PROVE IInv'
  OBVIOUS
<1>1. ASSUME NEW t \in Timers, NEW d \in Delays, Ask(t, d) PROVE IInv'
  BY <1>1, RegisterKeeps, TimerAssumption DEF Ask
<1>2. ASSUME NEW t \in Timers, Cancel(t) PROVE IInv'
  BY <1>2, CancelKeeps
<1>3. ASSUME NEW cycles \in 1 .. MaxCycles, Execute(cycles) PROVE IInv'
  <2>1. cycles \in Int /\ phase # "callback"
    BY <1>3, TimerAssumption DEF Execute
  <2> QED
    BY <1>3, <2>1, TimePasses DEF Execute
<1>4. CASE Return
  <2>1. PICK d \in Delays \cup {0} :
          /\ phase = "callback"
          /\ firing[1].id \in Ids(timer) => d = 0
          /\ \/ Expire(firing[1].when + d) \/ CatchUp(firing[1].when + d)
             \/ Reschedule(firing[1].when + d)
    BY <1>4 DEF Return
  <2>2. firing[1].when \in Int /\ firing[1].when + d \in Int
    <3>1. firing[1] \in Slots
      BY <2>1, InvFacts
    <3> QED
      BY <3>1, TimerAssumption DEF Slots
  <2>3. ASSUME Reschedule(firing[1].when + d) PROVE firing[1].id \notin Ids(timer)
    BY <2>1, <2>2, <2>3 DEF Reschedule, Again
  <2> QED
    BY <2>1, <2>2, <2>3, ExpireKeeps, CatchUpKeeps, RescheduleKeeps
<1>5. CASE Sleep
  <2>1. SleepCycles \in Int
    <3>1. timer \in Seq(Slots)
      BY InvFacts
    <3>2. timer # << >> => Head(timer) \in Slots
      BY <3>1, HeadTailProperties
    <3> QED
      BY <3>2, TimerAssumption DEF SleepCycles, Slots
  <2>2. 1 + SleepCycles \in Int /\ phase # "callback"
    BY <1>5, <2>1 DEF Sleep
  <2> QED
    BY <1>5, <2>2, TimePasses DEF Sleep
<1>6. CASE ProcessDone \/ Awake
  <2>1. UNCHANGED <<timer, free, firing, wanted, crowded>>
    BY <1>6 DEF ProcessDone, Awake
  <2>2. phase # "callback" /\ phase' \in {"idle", "run"}
    BY <1>6 DEF ProcessDone, Awake
  <2> QED
    BY <2>1, <2>2 DEF IInv, TypeOK, SlotsConserved, ListSound, Scheduled, FiringHeld, Ids
<1>7. CASE UNCHANGED vars
  BY <1>7 DEF vars, IInv, TypeOK, SlotsConserved, ListSound, Scheduled, FiringHeld, Ids
<1> QED
  BY <1>1, <1>2, <1>3, <1>4, <1>5, <1>6, <1>7, FireKeeps, ResetKeeps DEF Next, Process

-----------------------------------------------------------------------------
(* The inductive invariant holds throughout.                               *)
THEOREM InvAlways == Spec => []IInv
BY InvInitially, InvPreserved, PTL DEF Spec

(* For every number of timers and slots: no slot is lost or in two places, *)
(* and the active list stays sorted and free of duplicates (insert, cancel *)
(* and process, called from within callbacks).                             *)
THEOREM PoolSound == Spec => []PoolIntact
<1>1. IInv => PoolIntact
  BY DEF IInv, PoolIntact
<1> QED
  BY <1>1, InvAlways, PTL

(* A timer that was asked for is scheduled, unless all slots were wanted.  *)
THEOREM NothingForgotten == Spec => []Scheduled
<1>1. IInv => Scheduled
  BY DEF IInv
<1> QED
  BY <1>1, InvAlways, PTL

(* Behind a head that is not due, nothing is.                              *)
LEMMA NoneDueLeft ==
  ASSUME IInv, ProcessDone
  PROVE  \A k \in 1 .. Len(timer) : timer[k].when > 0
<1>1. timer # << >> => ~(Head(timer).when <= 0)
  BY DEF ProcessDone, Due
<1>2. /\ Len(timer) \in Nat /\ timer \in Seq(Slots) /\ Sorted(timer)
      /\ \A k \in 1 .. Len(timer) : timer[k].when \in Int
  BY InvFacts, SlotTypes
<1>3. ASSUME NEW k \in 1 .. Len(timer) PROVE timer[k].when > 0
  <2>1. timer # << >> /\ Head(timer) = timer[1] /\ 1 \in 1 .. Len(timer)
    BY <1>2
  <2>2. timer[1].when <= timer[k].when
    BY <1>2, <2>1 DEF Sorted
  <2> QED
    BY <1>1, <1>2, <2>1, <2>2
<1> QED
  BY <1>3

(* Looking at the head of the sorted list is enough: when the core goes on *)
(* no timer, wherever it is in the list, is overdue.                       *)
THEOREM TimersOnTime == Spec => []NoneOverdue
<1>1. Init => NoneOverdue
  BY DEF Init, NoneOverdue
<1>2. IInv /\ NoneOverdue /\ [Next]_vars => NoneOverdue'
  <2> SUFFICES ASSUME IInv, NoneOverdue, [Next]_vars, phase' = "idle"
               PROVE  \A k \in 1 .. Len(timer') : timer'[k].when > 0
    BY DEF NoneOverdue
  <2>1. CASE ProcessDone
    BY <2>1, NoneDueLeft DEF ProcessDone
  <2>2. CASE UNCHANGED vars
    BY <2>2 DEF vars, NoneOverdue
  <2>3. ASSUME NEW t, NEW d, Ask(t, d) PROVE FALSE
    BY <2>3 DEF Ask, Register, MayCall
  <2>4. ASSUME NEW t, Cancel(t) PROVE FALSE
    BY <2>4 DEF Cancel, MayCall
  <2>5. ASSUME NEW cycles, Execute(cycles) PROVE FALSE
    BY <2>5 DEF Execute
  <2>6. CASE Reset \/ Fire \/ Sleep \/ Awake
    BY <2>6 DEF Reset, Fire, Sleep, Awake
  <2>7. CASE Return
    BY <2>7 DEF Return, Expire, CatchUp, Reschedule
  <2> QED
    BY <2>1, <2>2, <2>3, <2>4, <2>5, <2>6, <2>7 DEF Next, Process
<1> QED
  BY <1>1, <1>2, InvInitially, InvPreserved, PTL DEF Spec

-----------------------------------------------------------------------------
(* What the pool promises a peripheral, for the modules that extend this   *)
(* one: each call keeps the invariant, and wanted changes by the timer     *)
(* that the call is about and by no other.  In return no callback          *)
(* registers the timer that it was called for.                             *)
OwnSlotOnly == phase = "callback" => firing[1].id \notin Ids(timer)

PoolInv == IInv /\ OwnSlotOnly

LEMMA PoolInitially == Init => PoolInv
<1>1. Init => OwnSlotOnly
  BY DEF Init, OwnSlotOnly
<1> QED
  BY <1>1, InvInitially DEF PoolInv

LEMMA PoolUnchanged ==
  ASSUME PoolInv, UNCHANGED vars
  PROVE  PoolInv' /\ wanted' = wanted
<1>1. IInv'
  BY InvPreserved DEF PoolInv
<1>2. UNCHANGED <<phase, timer, firing, wanted>>
  BY DEF vars
<1>3. Ids(timer') = Ids(timer)
  BY <1>2
<1>4. OwnSlotOnly'
  BY <1>2, <1>3 DEF OwnSlotOnly, PoolInv
<1> QED
  BY <1>1, <1>2, <1>4 DEF PoolInv

LEMMA PoolRegister ==
  ASSUME PoolInv, NEW t \in Timers, NEW d \in Int, Register(t, d),
         phase = "callback" => firing[1].id # t
  PROVE  PoolInv' /\ wanted' = wanted \cup {t}
<1> DEFINE rest == Without(timer, t)
           slot == [id |-> t, when |-> d]
<1>1. IInv' /\ IInv
  BY RegisterKeeps DEF PoolInv
<1>2. timer \in Seq(Slots) /\ Sorted(timer) /\ Distinct(timer)
  BY <1>1, InvFacts
<1>3. rest \in Seq(Slots) /\ Sorted(rest) /\ Ids(rest) = Ids(timer) \ {t}
  BY <1>2, WithoutProperties
<1>4. slot \in Slots /\ slot.id = t
  BY DEF Slots
<1>5. /\ UNCHANGED <<phase, firing>> /\ wanted' = wanted \cup {t}
      /\ timer' = rest \/ timer' = InsertSlot(rest, slot)
  BY DEF Register, Want
<1> HIDE DEF rest, slot
<1>6. Ids(timer') \subseteq Ids(timer) \cup {t}
  <2>1. Ids(InsertSlot(rest, slot)) = Ids(rest) \cup {t}
    BY <1>3, <1>4, InsertProperties
  <2> QED
    BY <1>3, <1>5, <2>1
<1>7. OwnSlotOnly'
  BY <1>5, <1>6 DEF OwnSlotOnly, PoolInv
<1> QED
  BY <1>1, <1>5, <1>7 DEF PoolInv

LEMMA PoolCancel ==
  ASSUME PoolInv, NEW t \in Timers, Cancel(t)
  PROVE  PoolInv' /\ wanted' = wanted \ {t}
<1>1. IInv' /\ IInv
  BY CancelKeeps DEF PoolInv
<1>2. timer \in Seq(Slots) /\ Sorted(timer) /\ Distinct(timer)
  BY <1>1, InvFacts
<1>3. UNCHANGED <<phase, firing>> /\ wanted' = wanted \ {t} /\ timer' = Without(timer, t)
  BY DEF Cancel, Want
<1>4. Ids(timer') = Ids(timer) \ {t}
  BY <1>2, <1>3, WithoutProperties
<1>5. OwnSlotOnly'
  BY <1>3, <1>4 DEF OwnSlotOnly, PoolInv
<1> QED
  BY <1>1, <1>3, <1>5 DEF PoolInv

(* A list without duplicates does not hold the timer that is taken off it. *)
LEMMA PoolFire ==
  ASSUME PoolInv, Fire
  PROVE  PoolInv' /\ wanted' = wanted
<1>1. IInv' /\ IInv
  BY FireKeeps DEF PoolInv
<1>2. /\ timer # << >> /\ timer' = Tail(timer) /\ firing' = <<Head(timer)>>
      /\ wanted' = wanted
  BY DEF Fire
<1>3. timer \in Seq(Slots) /\ Distinct(timer)
  BY <1>1, InvFacts
<1>4. /\ Len(timer) \in Nat /\ Len(timer) >= 1 /\ Len(timer') = Len(timer) - 1
      /\ \A k \in 1 .. Len(timer') : timer'[k] = timer[k + 1]
      /\ firing'[1] = timer[1]
  BY <1>2, <1>3, HeadTailProperties, EmptySeq
<1>5. ASSUME NEW k \in 1 .. Len(timer'), timer'[k].id = firing'[1].id PROVE FALSE
  <2>1. k + 1 \in 1 .. Len(timer) /\ 1 \in 1 .. Len(timer) /\ k + 1 # 1
    BY <1>4
  <2>2. timer[k + 1].id = timer[1].id
    BY <1>4, <1>5
  <2> QED
    BY <1>3, <2>1, <2>2 DEF Distinct
<1>6. OwnSlotOnly'
  BY <1>5 DEF OwnSlotOnly, Ids
<1> QED
  BY <1>1, <1>2, <1>6 DEF PoolInv

(* The answer of a callback decides whether its timer is wanted again.     *)
LEMMA PoolAnswer ==
  ASSUME PoolInv, NEW w \in Int, Expire(w) \/ CatchUp(w) \/ Reschedule(w)
  PROVE  /\ PoolInv'
         /\ wanted' = IF w > firing[1].when THEN wanted \cup {firing[1].id}
                                            ELSE wanted \ {firing[1].id}
<1>1. phase = "callback" /\ IInv /\ firing[1].id \notin Ids(timer)
  BY DEF Expire, CatchUp, Reschedule, PoolInv, OwnSlotOnly
<1>2. IInv'
  BY <1>1, ExpireKeeps, CatchUpKeeps, RescheduleKeeps
<1>3. wanted' = IF w > firing[1].when THEN wanted \cup {firing[1].id}
                                     ELSE wanted \ {firing[1].id}
  BY <1>1 DEF Expire, CatchUp, Reschedule, Want, Again
<1>4. CASE CatchUp(w)
  <2>1. UNCHANGED <<timer, phase>> /\ firing' = <<[firing[1] EXCEPT !.when = w]>>
    BY <1>4 DEF CatchUp
  <2>2. firing[1] \in Slots
    BY <1>1, InvFacts
  <2>3. firing'[1].id = firing[1].id
    BY <2>1, <2>2 DEF Slots
  <2>4. Ids(timer') = Ids(timer)
    BY <2>1
  <2> QED
    BY <1>1, <1>2, <1>3, <2>3, <2>4 DEF PoolInv, OwnSlotOnly
<1>5. CASE Expire(w) \/ Reschedule(w)
  <2>1. phase' = "process"
    BY <1>5 DEF Expire, Reschedule
  <2> QED
    BY <1>2, <1>3, <2>1 DEF PoolInv, OwnSlotOnly
<1> QED
  BY <1>4, <1>5

(* The steps of the core.                                                  *)
LEMMA PoolGoesOn ==
  ASSUME PoolInv,
         ProcessDone \/ Awake \/ Sleep \/ (\E cycles \in 1 .. MaxCycles : Execute(cycles))
  PROVE  PoolInv' /\ wanted' = wanted
<1>1. IInv'
  BY InvPreserved DEF PoolInv, Next, Process
<1>2. wanted' = wanted /\ phase' # "callback"
  BY DEF ProcessDone, Awake, Sleep, Execute
<1> QED
  BY <1>1, <1>2 DEF PoolInv, OwnSlotOnly

LEMMA PoolReset ==
  ASSUME PoolInv, Reset
  PROVE  PoolInv' /\ wanted' = {}
<1>1. IInv'
  BY ResetKeeps DEF PoolInv
<1>2. wanted' = {} /\ phase' # "callback"
  BY DEF Reset
<1> QED
  BY <1>1, <1>2 DEF PoolInv, OwnSlotOnly

(* Unless the pool is crowded, a timer that is wanted is going to run.     *)
LEMMA WantedRuns ==
  ASSUME PoolInv, NEW t \in wanted, ~crowded
  PROVE  t \in Ids(timer) \cup Ids(firing)
BY DEF PoolInv, IInv, Scheduled

-----------------------------------------------------------------------------
(* The same for the times: which slots the list has after a step.          *)
LEMMA InsertContents ==
  ASSUME NEW q \in Seq(Slots), Sorted(q), NEW slot \in Slots
  PROVE  SlotsOf(InsertSlot(q, slot)) = SlotsOf(q) \cup {slot}
<1> DEFINE n == Place(q, slot.when)
           r == InsertSlot(q, slot)
<1>0. Len(q) \in Nat /\ slot.when \in Int
  BY SlotTypes
<1>1. n \in 0 .. Len(q)
  BY <1>0, PlaceProperties
<1>2. r = [k \in 1 .. Len(q) + 1 |-> IF k <= n THEN q[k]
                                     ELSE IF k = n + 1 THEN slot ELSE q[k - 1]]
  BY DEF InsertSlot
<1>3. Len(r) = Len(q) + 1
  BY InsertProperties
<1> HIDE DEF n, r
<1>4. ASSUME NEW k \in 1 .. Len(q) + 1 PROVE r[k] \in SlotsOf(q) \cup {slot}
  <2>1. CASE k <= n
    BY <1>0, <1>1, <1>2, <2>1 DEF SlotsOf
  <2>2. CASE k = n + 1
    BY <1>0, <1>1, <1>2, <2>2
  <2>3. CASE ~(k <= n) /\ k # n + 1
    <3>1. k - 1 \in 1 .. Len(q) /\ r[k] = q[k - 1]
      BY <1>0, <1>1, <1>2, <2>3
    <3> QED
      BY <3>1 DEF SlotsOf
  <2> QED
    BY <2>1, <2>2, <2>3
<1>5. ASSUME NEW m \in 1 .. Len(q) PROVE q[m] \in SlotsOf(r)
  <2> DEFINE k == IF m <= n THEN m ELSE m + 1
  <2>1. k \in 1 .. Len(q) + 1 /\ r[k] = q[m]
    BY <1>0, <1>1, <1>2
  <2> QED
    BY <1>3, <2>1 DEF SlotsOf
<1>6. slot \in SlotsOf(r)
  <2>1. n + 1 \in 1 .. Len(q) + 1 /\ r[n + 1] = slot
    BY <1>0, <1>1, <1>2
  <2> QED
    BY <1>3, <2>1 DEF SlotsOf
<1>7. SlotsOf(r) \subseteq SlotsOf(q) \cup {slot}
  BY <1>3, <1>4 DEF SlotsOf
<1>8. SlotsOf(q) \subseteq SlotsOf(r)
  BY <1>5 DEF SlotsOf
<1>9. SlotsOf(r) = SlotsOf(q) \cup {slot}
  BY <1>6, <1>7, <1>8
<1> QED
  BY <1>9 DEF r

LEMMA WithoutContents ==
  ASSUME NEW q \in Seq(Slots), Sorted(q), Distinct(q), NEW t
  PROVE  /\ SlotsOf(Without(q, t)) \subseteq SlotsOf(q)
         /\ \A s \in SlotsOf(q) : s.id # t => s \in SlotsOf(Without(q, t))
<1> DEFINE r == Without(q, t)
<1>0. Len(q) \in Nat
  BY SlotTypes
<1>1. CASE t \notin Ids(q)
  <2>1. r = q
    BY <1>1 DEF Without
  <2> QED
    BY <2>1
<1>2. CASE t \in Ids(q)
  <2> DEFINE First(k) == q[k].id = t /\ \A j \in 1 .. k - 1 : q[j].id # t
             n == CHOOSE k \in 1 .. Len(q) : First(k)
  <2>1. \E k \in 1 .. Len(q) : First(k)
    <3>1. PICK k \in 1 .. Len(q) : q[k].id = t
      BY <1>2 DEF Ids
    <3>2. ASSUME NEW j \in 1 .. k - 1 PROVE q[j].id # t
      <4>1. j \in 1 .. Len(q) /\ j # k
        BY <1>0, <3>1
      <4> QED
        BY <3>1, <4>1 DEF Distinct
    <3> QED
      BY <3>1, <3>2
  <2>2. n \in 1 .. Len(q) /\ q[n].id = t
    BY <2>1
  <2>3. r = [k \in 1 .. Len(q) - 1 |-> IF k < n THEN q[k] ELSE q[k + 1]]
    BY <1>2 DEF Without
  <2> HIDE DEF n, r
  <2>4. Len(r) = Len(q) - 1
    <3>1. Len(q) - 1 \in Nat
      BY <1>0, <2>2
    <3> QED
      BY <2>3, <3>1
  <2>5. ASSUME NEW k \in 1 .. Len(r) PROVE r[k] \in SlotsOf(q)
    <3>1. k \in 1 .. Len(q) /\ k + 1 \in 1 .. Len(q)
      BY <1>0, <2>4
    <3>2. r[k] = IF k < n THEN q[k] ELSE q[k + 1]
      BY <2>3, <2>4
    <3> QED
      BY <3>1, <3>2 DEF SlotsOf
  <2>6. ASSUME NEW m \in 1 .. Len(q), q[m].id # t PROVE q[m] \in SlotsOf(r)
    <3> DEFINE k == IF m < n THEN m ELSE m - 1
    <3>1. m # n
      BY <2>2, <2>6
    <3>2. k \in 1 .. Len(r)
      BY <1>0, <2>2, <2>4, <3>1
    <3>3. r[k] = q[m]
      BY <1>0, <2>2, <2>3, <2>4, <3>1, <3>2
    <3> QED
      BY <3>2, <3>3 DEF SlotsOf
  <2> QED
    BY <2>5, <2>6 DEF SlotsOf, r
<1> QED
  BY <1>1, <1>2

(* A call about the timer t leaves the other slots as they are, and adds at*)
(* most a slot for t that is due in d cycles.                              *)
OnlyAbout(t, d) ==
  /\ UNCHANGED <<phase, firing>> /\ (crowded => crowded')
  /\ \A s \in SlotsOf(timer) : s.id # t => s \in SlotsOf(timer')
  /\ \A s \in SlotsOf(timer') : s \in SlotsOf(timer) \/ s = [id |-> t, when |-> d]

LEMMA RegisterContents ==
  ASSUME IInv, NEW t \in Timers, NEW d \in Int, Register(t, d)
  PROVE  /\ OnlyAbout(t, d)
         /\ t \in Ids(timer') => [id |-> t, when |-> d] \in SlotsOf(timer')
<1> DEFINE rest == Without(timer, t)
           slot == [id |-> t, when |-> d]
<1>1. timer \in Seq(Slots) /\ Sorted(timer) /\ Distinct(timer)
  BY InvFacts
<1>2. /\ rest \in Seq(Slots) /\ Sorted(rest) /\ t \notin Ids(rest)
      /\ SlotsOf(rest) \subseteq SlotsOf(timer)
      /\ \A s \in SlotsOf(timer) : s.id # t => s \in SlotsOf(rest)
  BY <1>1, WithoutProperties, WithoutContents
<1>3. slot \in Slots
  BY DEF Slots
<1>4. SlotsOf(InsertSlot(rest, slot)) = SlotsOf(rest) \cup {slot}
  BY <1>2, <1>3, InsertContents
<1>5. /\ UNCHANGED <<phase, firing>> /\ (crowded => crowded')
      /\ timer' = rest \/ timer' = InsertSlot(rest, slot)
  BY DEF Register, Want
<1> HIDE DEF rest, slot
<1>6. t \in Ids(timer') => slot \in SlotsOf(timer')
  BY <1>2, <1>4, <1>5
<1>7. OnlyAbout(t, d)
  BY <1>2, <1>4, <1>5 DEF OnlyAbout, slot
<1> QED
  BY <1>6, <1>7 DEF slot

LEMMA CancelContents ==
  ASSUME IInv, NEW t \in Timers, Cancel(t), NEW d
  PROVE  OnlyAbout(t, d)
<1>1. timer \in Seq(Slots) /\ Sorted(timer) /\ Distinct(timer)
  BY InvFacts
<1>2. /\ UNCHANGED <<phase, firing>> /\ (crowded => crowded') /\ timer' = Without(timer, t)
  BY DEF Cancel, Want
<1> QED
  BY <1>1, <1>2, WithoutContents DEF OnlyAbout

LEMMA AnswerContents ==
  ASSUME PoolInv, NEW w \in Int, Expire(w) \/ CatchUp(w) \/ Reschedule(w)
  PROVE  SlotsOf(timer) \subseteq SlotsOf(timer') /\ (crowded => crowded')
<1>1. crowded => crowded'
  BY DEF Expire, CatchUp, Reschedule, Want
<1>2. /\ phase = "callback" /\ timer \in Seq(Slots) /\ Sorted(timer) /\ firing[1] \in Slots
  BY InvFacts DEF PoolInv, Expire, CatchUp, Reschedule
<1> DEFINE slot == [firing[1] EXCEPT !.when = w]
<1>3. slot \in Slots
  BY <1>2 DEF Slots
<1>4. timer' = timer \/ timer' = InsertSlot(timer, slot)
  BY DEF Expire, CatchUp, Reschedule
<1> HIDE DEF slot
<1>5. SlotsOf(timer) \subseteq SlotsOf(InsertSlot(timer, slot))
  BY <1>2, <1>3, InsertContents
<1> QED
  BY <1>1, <1>4, <1>5

LEMMA FireContents ==
  ASSUME PoolInv, Fire
  PROVE  \A s \in SlotsOf(timer) : s = firing'[1] \/ s \in SlotsOf(timer')
<1>1. timer # << >> /\ timer' = Tail(timer) /\ firing' = <<Head(timer)>>
  BY DEF Fire
<1>2. timer \in Seq(Slots)
  BY InvFacts DEF PoolInv
<1>3. /\ Len(timer) \in Nat /\ Len(timer') = Len(timer) - 1
      /\ \A k \in 1 .. Len(timer') : timer'[k] = timer[k + 1]
      /\ firing'[1] = timer[1]
  BY <1>1, <1>2, HeadTailProperties, EmptySeq
<1>4. ASSUME NEW k \in 1 .. Len(timer), k # 1 PROVE timer[k] \in SlotsOf(timer')
  <2>1. k - 1 \in 1 .. Len(timer') /\ (k - 1) + 1 = k
    BY <1>3, <1>4
  <2>2. timer'[k - 1] = timer[k]
    BY <1>3, <2>1
  <2> QED
    BY <2>1, <2>2 DEF SlotsOf
<1> QED
  BY <1>3, <1>4 DEF SlotsOf

LEMMA LaterContents ==
  ASSUME PoolInv, NEW cycles \in Int, timer' = Later(timer, cycles)
  PROVE  \A s \in SlotsOf(timer) :
           \E r \in SlotsOf(timer') : r.id = s.id /\ r.when = s.when - cycles
<1>1. /\ timer \in Seq(Slots) /\ Len(timer) \in Nat
      /\ \A k \in 1 .. Len(timer) : timer[k] \in Slots
  BY InvFacts, SlotTypes DEF PoolInv
<1>2. timer' = [k \in 1 .. Len(timer) |-> [timer[k] EXCEPT !.when = @ - cycles]]
  BY DEF Later
<1>3. Len(timer') = Len(timer)
  BY <1>1, <1>2
<1>4. ASSUME NEW k \in 1 .. Len(timer)
      PROVE  timer'[k].id = timer[k].id /\ timer'[k].when = timer[k].when - cycles
  BY <1>1, <1>2 DEF Slots
<1> QED
  BY <1>3, <1>4 DEF SlotsOf

-----------------------------------------------------------------------------
(* The list as the set of alarms it stands for.                            *)

LEMMA NoSlots == SlotsOf(<< >>) = {}
BY DEF SlotsOf

LEMMA OneSlot == ASSUME NEW slot PROVE SlotsOf(<<slot>>) = {slot}
<1>1. Len(<<slot>>) = 1 /\ <<slot>>[1] = slot
  OBVIOUS
<1>2. 1 .. Len(<<slot>>) = {1}
  BY <1>1
<1> QED
  BY <1>1, <1>2 DEF SlotsOf

(* A list without duplicates has as many alarms as slots.                  *)
LEMMA SlotsCounted ==
  ASSUME NEW q \in Seq(Slots), Distinct(q)
  PROVE  /\ IsFiniteSet(SlotsOf(q)) /\ Cardinality(SlotsOf(q)) = Len(q)
         /\ SlotsOf(q) \subseteq Slots
         /\ \A a, b \in SlotsOf(q) : a.id = b.id => a = b
<1> DEFINE f == [k \in 1 .. Len(q) |-> q[k]]
<1>1. Len(q) \in Nat /\ \A k \in 1 .. Len(q) : q[k] \in Slots
  BY SlotTypes
<1>2. f \in Bijection(1 .. Len(q), SlotsOf(q))
  BY DEF Bijection, Injection, Surjection, IsInjective, SlotsOf, Distinct
<1>3. ExistsBijection(1 .. Len(q), SlotsOf(q))
  BY <1>2 DEF ExistsBijection
<1>4. IsFiniteSet(SlotsOf(q)) /\ Cardinality(SlotsOf(q)) = Len(q)
  BY <1>1, <1>3, FS_NatBijection, FS_CountingElements
<1>5. \A a, b \in SlotsOf(q) : a.id = b.id => a = b
  BY DEF SlotsOf, Distinct
<1>6. SlotsOf(q) \subseteq Slots
  BY <1>1 DEF SlotsOf
<1> QED
  BY <1>4, <1>5, <1>6

LEMMA NotAmongIds ==
  ASSUME NEW q \in Seq(Slots), NEW t
  PROVE  t \notin Ids(q) <=> {a \in SlotsOf(q) : a.id = t} = {}
BY DEF Ids, SlotsOf

LEMMA WithoutSlots ==
  ASSUME NEW q \in Seq(Slots), Sorted(q), Distinct(q), NEW t
  PROVE  SlotsOf(Without(q, t)) = SlotsOf(q) \ {a \in SlotsOf(q) : a.id = t}
<1> DEFINE r == Without(q, t)
<1>1. r \in Seq(Slots) /\ t \notin Ids(r)
  BY WithoutProperties
<1>2. /\ SlotsOf(r) \subseteq SlotsOf(q)
      /\ \A s \in SlotsOf(q) : s.id # t => s \in SlotsOf(r)
  BY WithoutContents
<1> HIDE DEF r
<1>3. \A s \in SlotsOf(r) : s.id # t
  BY <1>1, NotAmongIds
<1>4. SlotsOf(r) = SlotsOf(q) \ {a \in SlotsOf(q) : a.id = t}
  BY <1>2, <1>3
<1> QED
  BY <1>4 DEF r

LEMMA LaterSlots ==
  ASSUME NEW q \in Seq(Slots), NEW cycles \in Int
  PROVE  SlotsOf(Later(q, cycles)) = {Promise!Alarm(a.id, a.when - cycles) : a \in SlotsOf(q)}
<1> DEFINE r == Later(q, cycles)
<1>1. Len(q) \in Nat /\ \A k \in 1 .. Len(q) : q[k] \in Slots
  BY SlotTypes
<1>2. r = [k \in 1 .. Len(q) |-> [q[k] EXCEPT !.when = @ - cycles]]
  BY DEF Later
<1> HIDE DEF r
<1>3. Len(r) = Len(q)
  BY <1>1, <1>2
<1>4. ASSUME NEW k \in 1 .. Len(q)
      PROVE  r[k] = Promise!Alarm(q[k].id, q[k].when - cycles)
  BY <1>1, <1>2 DEF Slots, Promise!Alarm
<1>5. SlotsOf(r) = {Promise!Alarm(a.id, a.when - cycles) : a \in SlotsOf(q)}
  BY <1>3, <1>4 DEF SlotsOf
<1> QED
  BY <1>5 DEF r

(* The head of a sorted list is the earliest alarm.                        *)
LEMMA HeadSlot ==
  ASSUME NEW q \in Seq(Slots), Sorted(q), Distinct(q), q # << >>
  PROVE  /\ Head(q) \in SlotsOf(q) /\ Head(q) \in Slots
         /\ \A b \in SlotsOf(q) : Head(q).when <= b.when
         /\ SlotsOf(Tail(q)) = SlotsOf(q) \ {Head(q)}
<1>1. /\ Len(q) \in Nat /\ Len(q) >= 1 /\ Len(Tail(q)) = Len(q) - 1 /\ Head(q) \in Slots
      /\ \A k \in 1 .. Len(q) - 1 : Tail(q)[k] = q[k + 1]
      /\ Head(q) = q[1] /\ 1 \in 1 .. Len(q)
      /\ \A k \in 1 .. Len(q) : q[k].when \in Int
  BY HeadTailProperties, EmptySeq, SlotTypes
<1>2. Head(q) \in SlotsOf(q)
  BY <1>1 DEF SlotsOf
<1>3. ASSUME NEW k \in 1 .. Len(q) PROVE Head(q).when <= q[k].when
  BY <1>1 DEF Sorted
<1>4. ASSUME NEW k \in 1 .. Len(q), k # 1 PROVE q[k] # Head(q) /\ q[k] \in SlotsOf(Tail(q))
  <2>1. k - 1 \in 1 .. Len(Tail(q)) /\ (k - 1) + 1 = k
    BY <1>1, <1>4
  <2>2. Tail(q)[k - 1] = q[k]
    BY <1>1, <2>1
  <2> QED
    BY <1>1, <1>4, <2>1, <2>2 DEF SlotsOf, Distinct
<1>5. ASSUME NEW k \in 1 .. Len(Tail(q)) PROVE Tail(q)[k] \in SlotsOf(q) \ {Head(q)}
  <2>1. k + 1 \in 1 .. Len(q) /\ k + 1 # 1 /\ Tail(q)[k] = q[k + 1]
    BY <1>1
  <2> QED
    BY <1>4, <2>1 DEF SlotsOf
<1>6. SlotsOf(Tail(q)) \subseteq SlotsOf(q) \ {Head(q)}
  BY <1>5 DEF SlotsOf
<1>7. SlotsOf(q) \ {Head(q)} \subseteq SlotsOf(Tail(q))
  BY <1>1, <1>4 DEF SlotsOf
<1> QED
  BY <1>1, <1>2, <1>3, <1>6, <1>7 DEF SlotsOf

-----------------------------------------------------------------------------
(* The refinement of Alarms needs two facts more: a callback runs only for *)
(* a timer that is due, and after avr_cycle_timer_process none is.         *)
CalledWhenDue == phase = "callback" => firing[1].when <= 0

DueInv == IInv /\ CalledWhenDue /\ NoneOverdue

(* The invariant in terms of the alarms.                                   *)
LEMMA AlarmFacts ==
  ASSUME DueInv
  PROVE  /\ timer \in Seq(Slots) /\ Sorted(timer) /\ Distinct(timer)
         /\ IsFiniteSet(SlotsOf(timer)) /\ Cardinality(SlotsOf(timer)) = Len(timer)
         /\ SlotsOf(timer) \subseteq Slots
         /\ Len(timer) \in Nat /\ free \in Nat /\ MaxTimers \in Nat
         /\ Len(timer) + Len(firing) + free = MaxTimers
         /\ Cardinality(SlotsOf(firing)) = Len(firing)
         /\ phase = "callback" => /\ Len(firing) = 1 /\ firing[1] \in Slots
                                  /\ SlotsOf(firing) = {firing[1]} /\ firing[1].when <= 0
         /\ phase # "callback" => firing = << >> /\ Len(firing) = 0 /\ SlotsOf(firing) = {}
         /\ phase = "idle" => Promise!NoneDue
<1>1. /\ timer \in Seq(Slots) /\ Sorted(timer) /\ Distinct(timer)
      /\ Len(timer) \in Nat /\ free \in Nat /\ MaxTimers \in Nat
      /\ Len(timer) + Len(firing) + free = MaxTimers
      /\ phase = "callback" => Len(firing) = 1 /\ firing[1] \in Slots
      /\ phase # "callback" => firing = << >>
  BY InvFacts DEF DueInv
<1>2. /\ IsFiniteSet(SlotsOf(timer)) /\ Cardinality(SlotsOf(timer)) = Len(timer)
      /\ SlotsOf(timer) \subseteq Slots
  BY <1>1, SlotsCounted
<1>3. ASSUME phase = "callback" PROVE SlotsOf(firing) = {firing[1]} /\ firing[1].when <= 0
  <2>1. Len(firing) = 1
    BY <1>1, <1>3
  <2>2. 1 .. Len(firing) = {1}
    BY <2>1
  <2> QED
    BY <1>3, <2>2 DEF SlotsOf, DueInv, CalledWhenDue
<1>4. ASSUME phase # "callback"
      PROVE  firing = << >> /\ Len(firing) = 0 /\ SlotsOf(firing) = {}
  BY <1>1, <1>4, NoSlots
<1>5. Cardinality(SlotsOf(firing)) = Len(firing)
  <2>1. phase = "callback" => Cardinality(SlotsOf(firing)) = 1
    BY <1>3, FS_Singleton
  <2>2. phase # "callback" => Cardinality(SlotsOf(firing)) = 0
    BY <1>4, FS_EmptySet
  <2> QED
    BY <1>1, <1>4, <2>1, <2>2
<1>6. phase = "idle" => Promise!NoneDue
  BY DEF DueInv, NoneOverdue, SlotsOf, Promise!NoneDue
<1> QED
  BY <1>1, <1>2, <1>3, <1>4, <1>5, <1>6

LEMMA SameCardinality == \A S : Promise!Cardinality(S) = Cardinality(S)
BY Zenon DEF Promise!Cardinality, Cardinality

(* Registering a timer sets its alarm; a slot is missing only if others    *)
(* hold all of them.                                                       *)
LEMMA RegisterSets ==
  ASSUME DueInv, NEW t \in Timers, NEW d \in Delays, Ask(t, d)
  PROVE  Promise!Set(t, d)
<1> DEFINE rest == Without(timer, t)
           left == free + Len(timer) - Len(rest)
           slot == [id |-> t, when |-> d]
<1>1. /\ timer \in Seq(Slots) /\ Sorted(timer) /\ Distinct(timer)
      /\ Len(timer) + Len(firing) + free = MaxTimers /\ Len(timer) \in Nat
      /\ free \in Nat /\ Cardinality(SlotsOf(firing)) = Len(firing) /\ Len(firing) \in Nat
  BY AlarmFacts
<1>2. /\ rest \in Seq(Slots) /\ Sorted(rest) /\ Distinct(rest) /\ Len(rest) \in Nat
      /\ SlotsOf(rest) = SlotsOf(timer) \ {a \in SlotsOf(timer) : a.id = t}
  BY <1>1, WithoutProperties, WithoutSlots
<1>3. slot \in Slots
  BY TimerAssumption DEF Slots
<1>4. /\ firing' = firing /\ phase' = phase
      /\ IF left = 0 THEN timer' = rest ELSE timer' = InsertSlot(rest, slot)
  BY DEF Ask, Register
<1>11. /\ phase \in {"run", "idle"} \/ SlotsOf(firing) # {}
       /\ \A a \in SlotsOf(firing) : d > a.when
  BY AlarmFacts DEF Ask, Timely, Register, MayCall
<1> HIDE DEF rest
<1>5. SlotsOf(InsertSlot(rest, slot)) = SlotsOf(rest) \cup {slot}
  BY <1>2, <1>3, InsertContents
<1>6. Cardinality(SlotsOf(rest)) = Len(rest)
  BY <1>2, SlotsCounted
<1>7. left = 0 => Cardinality(SlotsOf(rest)) + Cardinality(SlotsOf(firing)) = MaxTimers
  BY <1>1, <1>2, <1>6
<1>8. SlotsOf(firing)' = SlotsOf(firing)
  BY <1>4
<1> HIDE DEF left
<1>9. CASE left = 0
  <2>1. SlotsOf(timer)' = SlotsOf(rest)
    BY <1>4, <1>9
  <2> QED
    BY <1>2, <1>4, <1>7, <1>8, <1>9, <1>11, <2>1, SameCardinality DEF Promise!Set, Promise!Of
<1>10. CASE left # 0
  <2>1. SlotsOf(timer)' = SlotsOf(rest) \cup {slot}
    BY <1>4, <1>5, <1>10
  <2> QED
    BY <1>2, <1>4, <1>8, <1>11, <2>1 DEF Promise!Set, Promise!Of, Promise!Alarm
<1> QED
  BY <1>9, <1>10

LEMMA CancelUnsets ==
  ASSUME DueInv, NEW t \in Timers, Cancel(t)
  PROVE  Promise!Unset(t)
<1>1. SlotsOf(Without(timer, t)) = SlotsOf(timer) \ {a \in SlotsOf(timer) : a.id = t}
  BY AlarmFacts, WithoutSlots
<1>2. timer' = Without(timer, t) /\ firing' = firing /\ phase' = phase
  BY DEF Cancel
<1>3. SlotsOf(timer)' = SlotsOf(Without(timer, t)) /\ SlotsOf(firing)' = SlotsOf(firing)
  BY <1>2
<1> QED
  BY <1>1, <1>2, <1>3 DEF Promise!Unset, Promise!Of

LEMMA ResetUnsets == ASSUME DueInv, Reset PROVE Promise!UnsetAll
<1>1. phase \in {"run", "idle"} /\ phase' = "run"
  BY DEF Reset
<1>2. timer' = << >> /\ firing' = firing
  BY DEF Reset
<1>3. SlotsOf(timer)' = {} /\ SlotsOf(firing)' = SlotsOf(firing)
  BY <1>2, NoSlots
<1>4. (phase \in {"run", "idle"})' = (phase \in {"run", "idle"})
  BY <1>1
<1> QED
  BY <1>1, <1>3, <1>4 DEF Promise!UnsetAll

LEMMA TimePassesOn ==
  ASSUME DueInv, NEW c \in Int, phase \in {"run", "idle"}, phase' = "process",
         timer' = Later(timer, c), firing' = firing
  PROVE  Promise!Pass(c)
<1>1. timer \in Seq(Slots)
  BY AlarmFacts
<1>2. SlotsOf(timer)' = {Promise!Alarm(a.id, a.when - c) : a \in SlotsOf(timer)}
  BY <1>1, LaterSlots
<1>3. SlotsOf(firing)' = SlotsOf(firing)
  OBVIOUS
<1>4. (phase \in {"run", "idle"})' = FALSE
  OBVIOUS
<1> QED
  BY <1>2, <1>3, <1>4 DEF Promise!Pass

LEMMA ExecuteWorks ==
  ASSUME DueInv, NEW c \in 1 .. MaxCycles, Execute(c)
  PROVE  Promise!Work
<1>1. phase = "run" /\ phase' = "process" /\ timer' = Later(timer, c) /\ firing' = firing
  BY DEF Execute
<1>2. c \in Int
  BY TimerAssumption
<1>3. Promise!Pass(c)
  BY <1>1, <1>2, TimePassesOn
<1> QED
  BY <1>3 DEF Promise!Work

LEMMA SleepDozes ==
  ASSUME DueInv, Sleep
  PROVE  Promise!Doze
<1>1. /\ phase = "idle" /\ phase' = "process"
      /\ timer' = Later(timer, 1 + SleepCycles) /\ firing' = firing
  BY DEF Sleep
<1>2. timer \in Seq(Slots) /\ Sorted(timer) /\ Distinct(timer) /\ Promise!NoneDue
  BY <1>1, AlarmFacts
<1>3. CASE timer = << >>
  <2>1. DefaultSleep \in Int /\ SleepCycles = DefaultSleep
    BY <1>3, TimerAssumption DEF SleepCycles
  <2>2. 1 + SleepCycles \in Int
    BY <2>1
  <2>3. Promise!Pass(1 + SleepCycles)
    BY <1>1, <2>2, TimePassesOn
  <2>4. SlotsOf(timer) = {}
    BY <1>3, NoSlots
  <2>5. Promise!Pass(1)
    BY <2>3, <2>4 DEF Promise!Pass
  <2> QED
    BY <1>2, <2>4, <2>5 DEF Promise!Doze
<1>4. CASE timer # << >>
  <2> DEFINE a == Head(timer)
  <2>1. a \in SlotsOf(timer) /\ a \in Slots /\ \A b \in SlotsOf(timer) : a.when <= b.when
    BY <1>2, <1>4, HeadSlot
  <2>2. a.when + 1 \in Int /\ 1 + SleepCycles = a.when + 1
    BY <1>4, <2>1 DEF SleepCycles, Slots
  <2>3. Promise!Pass(a.when + 1)
    BY <1>1, <2>2, TimePassesOn
  <2> HIDE DEF a
  <2>4. Promise!Doze
    BY <1>2, <2>1, <2>3 DEF Promise!Doze
  <2> QED
    BY <2>4
<1> QED
  BY <1>3, <1>4

LEMMA ProcessDoneSettles ==
  ASSUME DueInv, ProcessDone
  PROVE  Promise!Settle
<1>1. phase = "process" /\ phase' = "idle" /\ UNCHANGED <<timer, firing>>
  BY DEF ProcessDone
<1>2. SlotsOf(timer)' = SlotsOf(timer) /\ SlotsOf(firing)' = SlotsOf(firing)
  BY <1>1
<1>3. SlotsOf(firing) = {}
  BY <1>1, AlarmFacts
<1>4. Promise!NoneDue
  BY NoneDueLeft DEF DueInv, SlotsOf, Promise!NoneDue
<1>5. phase \notin {"run", "idle"} /\ (phase \in {"run", "idle"})' = TRUE
  BY <1>1
<1> QED
  BY <1>2, <1>3, <1>4, <1>5 DEF Promise!Settle

(* What is detached is the earliest alarm.                                 *)
LEMMA FireRings ==
  ASSUME DueInv, Fire
  PROVE  \E a \in SlotsOf(timer) : Promise!Ring(a)
<1> DEFINE a == Head(timer)
<1>1. /\ phase = "process" /\ timer # << >> /\ a.when <= 0
      /\ timer' = Tail(timer) /\ firing' = <<a>> /\ phase' = "callback"
  BY DEF Fire, Due
<1>2. /\ timer \in Seq(Slots) /\ Sorted(timer) /\ Distinct(timer) /\ SlotsOf(firing) = {}
  BY <1>1, AlarmFacts
<1>3. /\ a \in SlotsOf(timer) /\ \A b \in SlotsOf(timer) : a.when <= b.when
      /\ SlotsOf(Tail(timer)) = SlotsOf(timer) \ {a}
  BY <1>1, <1>2, HeadSlot
<1> HIDE DEF a
<1>4. SlotsOf(timer)' = SlotsOf(timer) \ {a} /\ SlotsOf(firing)' = {a}
  BY <1>1, <1>3, OneSlot
<1>6. phase \notin {"run", "idle"}
      /\ (phase \in {"run", "idle"})' = (phase \in {"run", "idle"})
  BY <1>1
<1>5. Promise!Ring(a)
  BY <1>1, <1>2, <1>3, <1>4, <1>6 DEF Promise!Ring
<1> QED
  BY <1>3, <1>5

(* The three ways in which a callback is answered.                         *)
LEMMA ExpireSilences ==
  ASSUME DueInv, NEW w, Expire(w)
  PROVE  Promise!Silence
<1>1. phase = "callback" /\ phase' = "process" /\ firing' = << >> /\ timer' = timer
  BY DEF Expire
<1>2. SlotsOf(firing) # {}
  BY <1>1, AlarmFacts
<1>3. SlotsOf(firing)' = {} /\ SlotsOf(timer)' = SlotsOf(timer)
  BY <1>1, NoSlots
<1>4. (phase \in {"run", "idle"})' = (phase \in {"run", "idle"})
  BY <1>1
<1> QED
  BY <1>2, <1>3, <1>4 DEF Promise!Silence

LEMMA CatchUpRingsAgain ==
  ASSUME DueInv, NEW d \in Int, CatchUp(firing[1].when + d)
  PROVE  Promise!RingAgain(firing[1], d)
<1> DEFINE w == firing[1].when + d
<1>1. /\ phase = "callback" /\ phase' = phase /\ w <= 0 /\ timer' = timer
      /\ firing' = <<[firing[1] EXCEPT !.when = w]>>
  BY DEF CatchUp, Due
<1>2. firing[1] \in Slots
  BY <1>1, AlarmFacts
<1> HIDE DEF w
<1>3. [firing[1] EXCEPT !.when = w] = Promise!Alarm(firing[1].id, w)
  BY <1>2 DEF Slots, Promise!Alarm
<1>4. SlotsOf(firing)' = {Promise!Alarm(firing[1].id, w)} /\ SlotsOf(timer)' = SlotsOf(timer)
  BY <1>1, <1>3, OneSlot
<1> QED
  BY <1>1, <1>4 DEF Promise!RingAgain, w

LEMMA RescheduleSetsAgain ==
  ASSUME DueInv, NEW d \in Int, Reschedule(firing[1].when + d)
  PROVE  Promise!SetAgain(firing[1], d)
<1> DEFINE w == firing[1].when + d
           slot == [firing[1] EXCEPT !.when = w]
<1>1. /\ phase = "callback" /\ phase' = "process" /\ ~(w <= 0) /\ firing' = << >>
      /\ IF free = 0 THEN timer' = timer ELSE timer' = InsertSlot(timer, slot)
  BY DEF Reschedule, Due
<1>2. /\ firing[1] \in Slots /\ timer \in Seq(Slots) /\ Sorted(timer) /\ Len(firing) = 1
      /\ Len(timer) + Len(firing) + free = MaxTimers /\ Len(timer) \in Nat
      /\ Cardinality(SlotsOf(timer)) = Len(timer)
  BY <1>1, AlarmFacts
<1>3. w \in Int /\ w > 0
  BY <1>1, <1>2 DEF Slots
<1>4. slot \in Slots /\ slot = Promise!Alarm(firing[1].id, w)
  BY <1>2, <1>3 DEF Slots, Promise!Alarm
<1> HIDE DEF w, slot
<1>5. SlotsOf(InsertSlot(timer, slot)) = SlotsOf(timer) \cup {slot}
  BY <1>2, <1>4, InsertContents
<1>6. SlotsOf(firing)' = {}
  BY <1>1, NoSlots
<1>7. \/ SlotsOf(timer)' = SlotsOf(timer) \cup {slot}
      \/ SlotsOf(timer)' = SlotsOf(timer) /\ Cardinality(SlotsOf(timer)) + 1 = MaxTimers
  <2>1. CASE free = 0
    <3>1. timer' = timer
      BY <1>1, <2>1
    <3>2. Cardinality(SlotsOf(timer)) + 1 = MaxTimers
      BY <1>2, <2>1
    <3> QED
      BY <3>1, <3>2
  <2>2. CASE free # 0
    BY <1>1, <1>5, <2>2
  <2> QED
    BY <2>1, <2>2
<1>8. (phase \in {"run", "idle"})' = (phase \in {"run", "idle"})
  BY <1>1
<1> QED
  BY <1>3, <1>4, <1>6, <1>7, <1>8, SameCardinality DEF Promise!SetAgain, w

LEMMA ReturnAnswers ==
  ASSUME DueInv, Return
  PROVE  Promise!Silence \/ Promise!Again
<1>1. PICK d \in Delays \cup {0} :
        /\ phase = "callback"
        /\ firing[1].id \in Ids(timer) => d = 0
        /\ \/ Expire(firing[1].when + d)
           \/ CatchUp(firing[1].when + d)
           \/ Reschedule(firing[1].when + d)
  BY DEF Return
<1>2. d \in Int /\ firing[1] \in Slots /\ SlotsOf(firing) = {firing[1]} /\ timer \in Seq(Slots)
  BY <1>1, AlarmFacts, TimerAssumption
<1>3. CASE Expire(firing[1].when + d)
  BY <1>3, ExpireSilences
<1>4. CASE CatchUp(firing[1].when + d) \/ Reschedule(firing[1].when + d)
  <2>1. firing[1].when + d > firing[1].when /\ firing[1].when \in Int
    BY <1>2, <1>4 DEF CatchUp, Reschedule, Again, Slots
  <2>2. d > 0
    BY <1>2, <2>1
  <2>3. d \in Delays /\ Promise!Of(firing[1].id) = {}
    BY <1>1, <1>2, <2>2, NotAmongIds DEF Promise!Of
  <2>4. Promise!RingAgain(firing[1], d) \/ Promise!SetAgain(firing[1], d)
    BY <1>2, <1>4, CatchUpRingsAgain, RescheduleSetsAgain
  <2> QED
    BY <1>2, <2>2, <2>3, <2>4 DEF Promise!Again
<1> QED
  BY <1>1, <1>3, <1>4

(* Every step of the list is one of the alarms, or none.                   *)
LEMMA StepsKept == DueInv /\ [Next]_vars => [Promise!Next]_(Promise!alarmVars)
<1> SUFFICES ASSUME DueInv, [Next]_vars
             PROVE  Promise!Next \/ UNCHANGED Promise!alarmVars
  OBVIOUS
<1>1. ASSUME NEW t \in Timers, NEW d \in Delays, Ask(t, d) PROVE Promise!Next
  BY <1>1, RegisterSets DEF Promise!Next
<1>2. ASSUME NEW t \in Timers, Cancel(t) PROVE Promise!Next
  BY <1>2, CancelUnsets DEF Promise!Next
<1>3. ASSUME NEW c \in 1 .. MaxCycles, Execute(c) PROVE Promise!Next
  BY <1>3, ExecuteWorks DEF Promise!Next
<1>4. CASE Reset
  BY <1>4, ResetUnsets DEF Promise!Next
<1>5. CASE Sleep
  BY <1>5, SleepDozes DEF Promise!Next
<1>6. CASE Fire
  BY <1>6, FireRings DEF Promise!Next
<1>7. CASE Return
  BY <1>7, ReturnAnswers DEF Promise!Next
<1>9. CASE ProcessDone
  BY <1>9, ProcessDoneSettles DEF Promise!Next
<1>8. CASE Awake \/ UNCHANGED vars
  <2>1. /\ UNCHANGED <<timer, firing>>
        /\ (phase \in {"run", "idle"})' = (phase \in {"run", "idle"})
    BY <1>8 DEF Awake, vars
  <2>2. SlotsOf(timer)' = SlotsOf(timer) /\ SlotsOf(firing)' = SlotsOf(firing)
    BY <2>1
  <2> QED
    BY <2>1, <2>2 DEF Promise!alarmVars
<1> QED
  BY <1>1, <1>2, <1>3, <1>4, <1>5, <1>6, <1>7, <1>8, <1>9 DEF Next, Process

LEMMA DueInitially == Init => DueInv /\ Promise!Init
<1> SUFFICES ASSUME Init PROVE DueInv /\ Promise!Init
  OBVIOUS
<1>1. IInv
  BY InvInitially
<1>2. phase = "run" /\ timer = << >> /\ firing = << >>
  BY DEF Init
<1>3. SlotsOf(timer) = {} /\ SlotsOf(firing) = {}
  BY <1>2, NoSlots
<1> QED
  BY <1>1, <1>2, <1>3 DEF DueInv, CalledWhenDue, NoneOverdue, Promise!Init

(* Only a timer that is due is called.                                     *)
LEMMA CalledWhenDueKept == DueInv /\ [Next]_vars => CalledWhenDue'
<1> SUFFICES ASSUME DueInv, [Next]_vars, phase' = "callback"
             PROVE  firing'[1].when <= 0
  BY DEF CalledWhenDue
<1>1. CASE phase = "callback" /\ firing' = firing
  BY <1>1 DEF DueInv, CalledWhenDue
<1>2. CASE Fire
  BY <1>2 DEF Fire, Due
<1>3. ASSUME NEW d \in Delays \cup {0}, CatchUp(firing[1].when + d)
      PROVE  firing'[1].when <= 0
  <2>1. phase = "callback" /\ firing[1].when + d <= 0
    BY <1>3 DEF CatchUp, Due
  <2>2. firing'[1] = [firing[1] EXCEPT !.when = firing[1].when + d]
    BY <1>3 DEF CatchUp
  <2>3. firing[1] \in Slots
    BY <2>1, AlarmFacts
  <2>4. firing'[1].when = firing[1].when + d
    BY <2>2, <2>3 DEF Slots
  <2> QED
    BY <2>1, <2>4
<1>4. CASE Return
  <2>1. \/ \E d \in Delays \cup {0} : CatchUp(firing[1].when + d)
        \/ \E w : Expire(w) \/ Reschedule(w)
    BY <1>4 DEF Return
  <2> QED
    BY <1>3, <2>1 DEF Expire, Reschedule
<1>5. CASE (\E t \in Timers, d \in Delays : Ask(t, d)) \/ (\E t \in Timers : Cancel(t))
  BY <1>1, <1>5 DEF Ask, Register, Cancel
<1>6. CASE ProcessDone \/ Sleep \/ Awake \/ Reset \/ (\E c \in 1 .. MaxCycles : Execute(c))
  BY <1>6 DEF ProcessDone, Sleep, Awake, Reset, Execute
<1>7. CASE UNCHANGED vars
  BY <1>1, <1>7 DEF vars
<1> QED
  BY <1>2, <1>4, <1>5, <1>6, <1>7 DEF Next, Process

LEMMA DueAlways == Spec => []DueInv
<1>1. Init => DueInv
  BY DueInitially
<1>2. IInv /\ CalledWhenDue /\ NoneOverdue /\ [Next]_vars => IInv' /\ CalledWhenDue'
  BY InvPreserved, CalledWhenDueKept DEF DueInv
<1>3. DueInv <=> IInv /\ CalledWhenDue /\ NoneOverdue
  BY DEF DueInv
<1> QED
  BY <1>1, <1>2, <1>3, TimersOnTime, PTL DEF Spec

(* The sorted list of slots implements the set of alarms: a peripheral is  *)
(* called for what it asked last, in the order of the times, and loses an  *)
(* alarm only when others hold all slots (sim_cycle_timers.c as a whole).  *)
THEOREM ListKeepsAlarms == Spec => AlarmsKept
<1>1. Init => Promise!Init
  BY DueInitially
<1>2. DueInv /\ [Next]_vars => [Promise!Next]_(Promise!alarmVars)
  BY StepsKept
<1> QED
  BY <1>1, <1>2, DueAlways, PTL DEF Spec, AlarmsKept, Promise!Spec

-----------------------------------------------------------------------------
(* What holds of the alarms holds of the list.  A timer that is called may *)
(* have been set again, but for a later time; and while alarms may be set, *)
(* none is later than it was when it was set.                              *)
RingingDue ==
  \A r \in SlotsOf(firing) :
    r.when <= 0 /\ \A a \in SlotsOf(timer) : a.id = r.id => a.when > r.when

AlarmTypes ==
  /\ SlotsOf(timer) \subseteq Slots /\ SlotsOf(firing) \subseteq Slots

Rested ==
  phase \in {"run", "idle"} =>
    SlotsOf(firing) = {} /\ \A a \in SlotsOf(timer) : a.when >= -Haste

AlarmInv == AlarmTypes /\ Promise!OneEach /\ Promise!NeverLate /\ RingingDue /\ Rested

LEMMA LatenessBounds ==
  /\ Promise!Lateness \in Nat /\ Promise!Lateness >= 1
  /\ Promise!Lateness = MaxCycles + Haste /\ Haste \in Nat /\ MaxCycles \in Nat
BY TimerAssumption DEF Promise!Lateness

(* AlarmInv of any two sets of alarms, but for Rested.                     *)
AlarmsSound(A, R) ==
  /\ A \subseteq Slots /\ R \subseteq Slots
  /\ \A a, b \in A : a.id = b.id => a = b
  /\ \A a, b \in R : a = b
  /\ \A a \in A \cup R : a.when >= -Promise!Lateness
  /\ \A r \in R : r.when <= 0 /\ \A a \in A : a.id = r.id => a.when > r.when

LEMMA AlarmInvSound ==
  AlarmInv <=> AlarmsSound(SlotsOf(timer), SlotsOf(firing)) /\ Rested
BY DEF AlarmInv, AlarmTypes, Promise!OneEach, Promise!NeverLate, RingingDue, AlarmsSound

LEMMA AlarmIsSlot ==
  ASSUME NEW t \in Timers, NEW w \in Int
  PROVE  /\ Promise!Alarm(t, w) \in Slots
         /\ Promise!Alarm(t, w).id = t /\ Promise!Alarm(t, w).when = w
BY DEF Promise!Alarm, Slots

LEMMA FewerSound ==
  ASSUME NEW A, NEW R, AlarmsSound(A, R), NEW B \in SUBSET A, NEW Q \in SUBSET R
  PROVE  AlarmsSound(B, Q)
BY DEF AlarmsSound

(* An alarm that is not too late may join those of the other timers, if it *)
(* comes after the call that is being made.                                *)
LEMMA OneMoreSound ==
  ASSUME NEW A, NEW R, AlarmsSound(A, R), NEW t \in Timers, NEW w \in Int,
         w >= -Promise!Lateness, \A r \in R : w > r.when, \A a \in A : a.id # t
  PROVE  AlarmsSound(A \cup {Promise!Alarm(t, w)}, R)
<1> DEFINE new == Promise!Alarm(t, w)
<1>1. new \in Slots /\ new.id = t /\ new.when = w
  BY AlarmIsSlot
<1> HIDE DEF new
<1>2. AlarmsSound(A \cup {new}, R)
  BY <1>1 DEF AlarmsSound
<1> QED
  BY <1>2 DEF new

LEMMA PassSound ==
  ASSUME NEW A, AlarmsSound(A, {}), NEW c \in Int,
         \A a \in A : a.when - c >= -Promise!Lateness
  PROVE  AlarmsSound({Promise!Alarm(a.id, a.when - c) : a \in A}, {})
<1> DEFINE B == {Promise!Alarm(a.id, a.when - c) : a \in A}
<1>1. ASSUME NEW a \in A
      PROVE  /\ Promise!Alarm(a.id, a.when - c) \in Slots
             /\ Promise!Alarm(a.id, a.when - c).id = a.id
             /\ Promise!Alarm(a.id, a.when - c).when = a.when - c
  <2>1. a.id \in Timers /\ a.when \in Int
    BY DEF AlarmsSound, Slots
  <2>2. a.when - c \in Int
    BY <2>1
  <2> QED
    BY <2>1, <2>2, AlarmIsSlot
<1>2. B \subseteq Slots /\ \A b \in B : b.when >= -Promise!Lateness
  BY <1>1
<1>3. \A a, b \in B : a.id = b.id => a = b
  BY <1>1 DEF AlarmsSound
<1>4. \A b \in B \cup {} : b.when >= -Promise!Lateness
  BY <1>2
<1> HIDE DEF B
<1>5. AlarmsSound(B, {})
  BY <1>2, <1>3, <1>4 DEF AlarmsSound
<1> QED
  BY <1>5 DEF B

LEMMA AlarmStep == AlarmInv /\ [Promise!Next]_(Promise!alarmVars) => AlarmInv'
<1> DEFINE A == SlotsOf(timer)
           R == SlotsOf(firing)
           working == phase \in {"run", "idle"}
           Sound == AlarmsSound(A, R)
           Resting == working => R = {} /\ \A a \in A : a.when >= -Haste
<1> SUFFICES ASSUME Sound, Resting, [Promise!Next]_(Promise!alarmVars)
             PROVE  Sound' /\ Resting'
  <2>1. Sound' /\ Resting' => AlarmInv'
    BY DEF AlarmInv, AlarmTypes, Promise!OneEach, Promise!NeverLate, RingingDue,
           AlarmsSound, Rested
  <2> QED
    BY <2>1, AlarmInvSound DEF Rested
<1>0. /\ A \subseteq Slots /\ R \subseteq Slots
      /\ \A a \in A \cup R : a.when \in Int /\ a.id \in Timers /\ a.when >= -Promise!Lateness
  BY DEF AlarmsSound, Slots
<1>1. CASE UNCHANGED Promise!alarmVars
  BY <1>1 DEF Promise!alarmVars
<1>2. ASSUME NEW t \in Timers, NEW d \in Delays, Promise!Set(t, d)
      PROVE  Sound' /\ Resting'
  <2> DEFINE rest == A \ {a \in A : a.id = t}
  <2>1. /\ R' = R /\ working' = working /\ \A a \in R : d > a.when
        /\ A' = rest \cup {Promise!Alarm(t, d)} \/ A' = rest
    BY <1>2 DEF Promise!Set, Promise!Of
  <2>2. AlarmsSound(rest, R) /\ (\A a \in rest : a.id # t) /\ rest \subseteq A
    BY FewerSound
  <2>3. d \in Int /\ d >= -Haste /\ d >= -Promise!Lateness
    BY LatenessBounds, TimerAssumption
  <2>4. Promise!Alarm(t, d).when = d
    BY <2>3, AlarmIsSlot
  <2> HIDE DEF rest
  <2>5. AlarmsSound(rest \cup {Promise!Alarm(t, d)}, R)
    BY <2>1, <2>2, <2>3, OneMoreSound
  <2>6. Sound'
    BY <2>1, <2>2, <2>5
  <2>7. Resting'
    BY <2>1, <2>2, <2>3, <2>4
  <2> QED
    BY <2>6, <2>7
<1>3. ASSUME A' \in SUBSET A, R' = R, working' = working
      PROVE  Sound' /\ Resting'
  BY <1>3, FewerSound
<1>4. ASSUME NEW t \in Timers, Promise!Unset(t) PROVE Sound' /\ Resting'
  BY <1>3, <1>4 DEF Promise!Unset
<1>5. CASE Promise!UnsetAll
  BY <1>3, <1>5 DEF Promise!UnsetAll
<1>6. ASSUME NEW c \in Int, Promise!Pass(c), \A a \in A : a.when - c >= -Promise!Lateness
      PROVE  Sound' /\ Resting'
  <2>1. /\ R = {} /\ R' = {} /\ A' = {Promise!Alarm(a.id, a.when - c) : a \in A}
        /\ working' = FALSE
    BY <1>6 DEF Promise!Pass
  <2>2. AlarmsSound(A, {})
    BY <2>1
  <2>3. AlarmsSound({Promise!Alarm(a.id, a.when - c) : a \in A}, {})
    BY <1>6, <2>2, PassSound
  <2> QED
    BY <2>1, <2>3
<1>7. CASE Promise!Work
  <2>1. PICK c \in 1 .. MaxCycles : Promise!Pass(c)
    BY <1>7 DEF Promise!Work
  <2>2. \A a \in A : a.when >= -Haste /\ a.when \in Int
    BY <1>0, <2>1 DEF Promise!Pass
  <2>3. c \in Int /\ \A a \in A : a.when - c >= -Promise!Lateness
    BY <2>2, LatenessBounds, TimerAssumption
  <2> QED
    BY <1>6, <2>1, <2>3
<1>8. CASE Promise!Doze
  <2>1. CASE A = {} /\ Promise!Pass(1)
    BY <1>6, <2>1
  <2>2. ASSUME NEW a \in A, \A b \in A : a.when <= b.when, Promise!Pass(a.when + 1)
        PROVE  Sound' /\ Resting'
    <3>1. a.when + 1 \in Int /\ \A b \in A : b.when - (a.when + 1) >= -Promise!Lateness
      BY <1>0, <2>2, LatenessBounds
    <3> QED
      BY <1>6, <2>2, <3>1
  <2> QED
    BY <1>8, <2>1, <2>2 DEF Promise!Doze
<1>9. CASE Promise!Settle
  <2>1. A' = A /\ R' = R /\ R = {} /\ \A a \in A : a.when > 0
    BY <1>9 DEF Promise!Settle, Promise!NoneDue
  <2>2. \A a \in A : a.when >= -Haste
    BY <1>0, <2>1, LatenessBounds
  <2> QED
    BY <2>1, <2>2
<1>10. ASSUME NEW a \in A, Promise!Ring(a) PROVE Sound' /\ Resting'
  <2>1. /\ a.when <= 0 /\ A' = A \ {a} /\ R' = {a} /\ R = {}
        /\ ~working /\ working' = working
    BY <1>10 DEF Promise!Ring
  <2>2. AlarmsSound(A \ {a}, {a})
    BY <2>1 DEF AlarmsSound
  <2> QED
    BY <2>1, <2>2
<1>11. CASE Promise!Silence
  <2>1. A' \in SUBSET A /\ R' \in SUBSET R /\ R # {} /\ working' = working
    BY <1>11 DEF Promise!Silence
  <2> QED
    BY <2>1, FewerSound
<1>12. CASE Promise!Again
  <2>1. PICK r \in R, d \in Delays :
          /\ d > 0 /\ Promise!Of(r.id) = {}
          /\ Promise!RingAgain(r, d) \/ Promise!SetAgain(r, d)
    BY <1>12 DEF Promise!Again
  <2>2. /\ \A a \in A : a.id # r.id
        /\ r.id \in Timers /\ r.when \in Int /\ d \in Int
        /\ r.when >= -Promise!Lateness
    BY <1>0, <2>1, TimerAssumption DEF Promise!Of
  <2> DEFINE w == r.when + d
             new == Promise!Alarm(r.id, w)
  <2>3. w \in Int /\ new \in Slots /\ new.id = r.id /\ new.when = w /\ w >= -Promise!Lateness
    BY <2>1, <2>2, AlarmIsSlot, LatenessBounds
  <2>4. AlarmsSound(A, {}) /\ ~working
    BY FewerSound
  <2>5. CASE Promise!RingAgain(r, d)
    <3>1. w <= 0 /\ R' = {new} /\ A' = A /\ working' = working
      BY <2>5 DEF Promise!RingAgain
    <3> HIDE DEF new, w
    <3>2. AlarmsSound(A, {new})
      BY <2>2, <2>3, <2>4, <3>1 DEF AlarmsSound
    <3> QED
      BY <2>4, <3>1, <3>2
  <2>6. CASE Promise!SetAgain(r, d)
    <3>1. R' = {} /\ (A' = A \cup {new} \/ A' = A) /\ working' = working
      BY <2>6 DEF Promise!SetAgain
    <3> HIDE DEF w
    <3>2. AlarmsSound(A \cup {new}, {})
      BY <2>2, <2>3, <2>4, OneMoreSound
    <3> QED
      BY <2>4, <3>1, <3>2
  <2> QED
    BY <2>1, <2>5, <2>6
<1> QED
  BY <1>1, <1>2, <1>4, <1>5, <1>7, <1>8, <1>9, <1>10, <1>11, <1>12 DEF Promise!Next

LEMMA AlarmInvAlways == AlarmsKept => []AlarmInv
<1>1. Promise!Init => AlarmInv
  BY DEF Promise!Init, AlarmInv, AlarmTypes, Promise!OneEach, Promise!NeverLate,
         RingingDue, Rested
<1> QED
  BY <1>1, AlarmStep, PTL DEF AlarmsKept, Promise!Spec

(* A callback is never later than the longest instruction, plus what its   *)
(* peripheral was late in asking for it (avr_cycle_timer_process is called *)
(* after each instruction and each sleep).                                 *)
THEOREM NeverCalledLate == Spec => []Promise!NeverLate
<1>1. AlarmInv => Promise!NeverLate
  BY DEF AlarmInv
<1> QED
  BY <1>1, AlarmInvAlways, ListKeepsAlarms, PTL

-----------------------------------------------------------------------------
(* The processing of the timers ends: what is overdue moves on.            *)
Held == SlotsOf(timer) \cup SlotsOf(firing)

LEMMA HeldBacklog == \A w : Promise!Backlog(w) = {a.id : a \in {b \in Held : b.when <= w}}
BY DEF Promise!Backlog, Held

(* Who is added later than w is not in the backlog of w.                   *)
LEMMA BacklogKept ==
  ASSUME AlarmInv, AlarmInv', NEW w \in Int, NEW now \in Int, w <= now,
         \A a \in Held' : a \in Held \/ a.when > now
  PROVE  Promise!Backlog(w)' \subseteq Promise!Backlog(w)
<1>1. \A a \in Held' : a.when \in Int
  BY DEF AlarmInv, AlarmTypes, Slots, Held
<1>2. \A a \in Held' : a.when <= w => a \in Held
  BY <1>1
<1>3. Promise!Backlog(w)' = {a.id : a \in {b \in Held' : b.when <= w}}
  BY DEF Promise!Backlog, Held
<1> QED
  BY <1>2, <1>3, HeldBacklog

(* The call that returns was overdue, and at its time its timer is not any *)
(* more.                                                                   *)
LEMMA AnswerTakesOff ==
  ASSUME AlarmInv, AlarmInv', NEW r \in SlotsOf(firing),
         \A a \in Held' : a.id = r.id => a.when > r.when
  PROVE  Promise!Backlog(r.when)' # Promise!Backlog(r.when)
<1>1. r \in Held /\ r.when \in Int
  BY DEF AlarmInv, AlarmTypes, Slots, Held
<1>2. r.id \in Promise!Backlog(r.when)
  BY <1>1, HeldBacklog
<1>3. \A a \in Held' : a.when \in Int
  BY DEF AlarmInv, AlarmTypes, Slots, Held
<1>4. \A w : Promise!Backlog(w)' = {a.id : a \in {b \in Held' : b.when <= w}}
  BY DEF Promise!Backlog, Held
<1>5. r.id \notin {a.id : a \in {b \in Held' : b.when <= r.when}}
  BY <1>1, <1>3
<1> QED
  BY <1>2, <1>4, <1>5

(* However a callback is answered, its timer moves to a later time.        *)
LEMMA AnswerMovesOn ==
  ASSUME DueInv, NEW d \in Int,
         \/ Expire(firing[1].when + d)
         \/ CatchUp(firing[1].when + d)
         \/ Reschedule(firing[1].when + d)
  PROVE  /\ phase = "callback" /\ firing[1] \in SlotsOf(firing)
         /\ \A a \in Held' :
              a \in SlotsOf(timer) \/ (a.id = firing[1].id /\ a.when > firing[1].when)
<1> DEFINE w == firing[1].when + d
           slot == [firing[1] EXCEPT !.when = w]
<1>1. phase = "callback"
  BY DEF Expire, CatchUp, Reschedule
<1>2. /\ firing[1] \in Slots /\ SlotsOf(firing) = {firing[1]}
      /\ timer \in Seq(Slots) /\ Sorted(timer)
  BY <1>1, AlarmFacts
<1>3. w \in Int
  BY <1>2 DEF Slots
<1>4. slot \in Slots /\ slot.id = firing[1].id /\ slot.when = w
  BY <1>2, <1>3 DEF Slots
<1>5. SlotsOf(InsertSlot(timer, slot)) = SlotsOf(timer) \cup {slot}
  BY <1>2, <1>4, InsertContents
<1>6. CASE Expire(w)
  BY <1>1, <1>2, <1>6, NoSlots DEF Expire, Held
<1>7. CASE CatchUp(w)
  <2>1. w > firing[1].when /\ timer' = timer /\ firing' = <<slot>>
    BY <1>7 DEF CatchUp, Again
  <2> HIDE DEF w, slot
  <2>2. SlotsOf(firing') = {slot}
    BY <2>1, OneSlot
  <2> QED
    BY <1>1, <1>2, <1>4, <2>1, <2>2 DEF Held
<1>8. CASE Reschedule(w)
  <2>1. /\ w > firing[1].when /\ firing' = << >>
        /\ timer' = timer \/ timer' = InsertSlot(timer, slot)
    BY <1>8 DEF Reschedule, Again
  <2> HIDE DEF w, slot
  <2> QED
    BY <1>1, <1>2, <1>4, <1>5, <2>1, NoSlots DEF Held
<1> QED
  BY <1>6, <1>7, <1>8

(* In a callback, what is added comes after the time of the call.          *)
LEMMA CallbackStep ==
  ASSUME DueInv, AlarmInv, AlarmInv', [Next]_vars, phase = "callback"
  PROVE  /\ \A a \in Held' : a \in Held \/ a.when > firing[1].when
         /\ firing' # firing => \A a \in Held' : a.id = firing[1].id => a.when > firing[1].when
<1>1. CASE UNCHANGED <<timer, firing>>
  BY <1>1 DEF Held
<1>2. ASSUME NEW t \in Timers, NEW d \in Delays, Ask(t, d)
      PROVE  firing' = firing /\ \A a \in Held' : a \in Held \/ a.when > firing[1].when
  <2>1. OnlyAbout(t, d) /\ d > firing[1].when
    BY <1>2, RegisterContents, TimerAssumption DEF Ask, Timely, DueInv
  <2> QED
    BY <2>1 DEF OnlyAbout, Held
<1>3. ASSUME NEW t \in Timers, Cancel(t)
      PROVE  firing' = firing /\ Held' \subseteq Held
  <2>1. Promise!Unset(t) /\ firing' = firing
    BY <1>3, CancelUnsets DEF Cancel
  <2> QED
    BY <2>1 DEF Promise!Unset, Held
<1>4. CASE Return
  <2>1. PICK d \in Delays \cup {0} :
          \/ Expire(firing[1].when + d)
          \/ CatchUp(firing[1].when + d)
          \/ Reschedule(firing[1].when + d)
    BY <1>4 DEF Return
  <2>2. d \in Int
    BY TimerAssumption
  <2> DEFINE r == firing[1]
  <2>3. /\ r \in SlotsOf(firing)
        /\ \A a \in Held' : a \in SlotsOf(timer) \/ (a.id = r.id /\ a.when > r.when)
    BY <2>1, <2>2, AnswerMovesOn
  <2> HIDE DEF r
  <2>4. \A a \in SlotsOf(timer) : a.id = r.id => a.when > r.when
    BY <2>3 DEF AlarmInv, RingingDue
  <2> QED
    BY <2>3, <2>4 DEF r, Held
<1>5. CASE UNCHANGED vars
  BY <1>1, <1>5 DEF vars
<1>6. CASE Fire \/ ProcessDone \/ Reset \/ Sleep \/ Awake \/ (\E c \in 1 .. MaxCycles : Execute(c))
  BY <1>6 DEF Fire, ProcessDone, Reset, Sleep, Awake, Execute
<1> QED
  BY <1>2, <1>3, <1>4, <1>5, <1>6 DEF Next, Process

(* Between callbacks nothing is added and nothing is taken.                *)
LEMMA ProcessStep ==
  ASSUME DueInv, [Next]_vars, phase = "process"
  PROVE  Held' = Held
<1>1. CASE Fire
  <2>1. PICK a \in SlotsOf(timer) : Promise!Ring(a)
    BY <1>1, FireRings
  <2> QED
    BY <2>1 DEF Promise!Ring, Held
<1>2. CASE ProcessDone \/ UNCHANGED vars
  BY <1>2 DEF ProcessDone, vars, Held
<1>3. CASE (\E t \in Timers, d \in Delays : Ask(t, d)) \/ (\E t \in Timers : Cancel(t))
  BY <1>3 DEF Ask, Register, Cancel, MayCall
<1>4. CASE Return
  BY <1>4 DEF Return
<1>5. CASE Reset \/ Sleep \/ Awake \/ (\E c \in 1 .. MaxCycles : Execute(c))
  BY <1>5 DEF Reset, Sleep, Awake, Execute
<1> QED
  BY <1>1, <1>2, <1>3, <1>4, <1>5 DEF Next, Process

(* The loop of avr_cycle_timer_process ends although its callbacks may ask *)
(* for timers that are due at once: each call that returns is taken off    *)
(* the backlog of its time, and what is added belongs to a later time.     *)
THEOREM ProcessingShrinks == Spec => BacklogShrinks
<1> DEFINE Steps ==
      /\ phase = "process" =>
           \A w \in -Promise!Lateness .. 0 : Promise!Backlog(w)' = Promise!Backlog(w)
      /\ phase = "callback" =>
           \A now \in {firing[1].when} :
             /\ \A w \in -Promise!Lateness .. now :
                  Promise!Backlog(w)' \subseteq Promise!Backlog(w)
             /\ firing' # firing => Promise!Backlog(now)' # Promise!Backlog(now)
<1>1. ASSUME DueInv, AlarmInv, AlarmInv', [Next]_vars
      PROVE  Steps
  <2>1. CASE phase = "process"
    <3>1. Held' = Held
      BY <1>1, <2>1, ProcessStep
    <3>2. \A w : Promise!Backlog(w)' = {a.id : a \in {b \in Held' : b.when <= w}}
      BY DEF Promise!Backlog, Held
    <3> QED
      BY <2>1, <3>1, <3>2, HeldBacklog
  <2>2. CASE phase = "callback"
    <3>1. PICK r \in SlotsOf(firing) : r = firing[1] /\ r.when \in Int
      BY <1>1, <2>2, AlarmFacts DEF Slots
    <3>2. /\ \A a \in Held' : a \in Held \/ a.when > r.when
          /\ firing' # firing => \A a \in Held' : a.id = r.id => a.when > r.when
      BY <1>1, <2>2, <3>1, CallbackStep
    <3>3. \A w \in -Promise!Lateness .. r.when :
             Promise!Backlog(w)' \subseteq Promise!Backlog(w)
      BY <1>1, <3>1, <3>2, BacklogKept, LatenessBounds
    <3>4. firing' # firing => Promise!Backlog(r.when)' # Promise!Backlog(r.when)
      BY <1>1, <3>2, AnswerTakesOff
    <3>5. \A now \in {firing[1].when} : now = r.when
      BY <3>1
    <3> QED
      BY <2>2, <3>3, <3>4, <3>5
  <2> QED
    BY <2>1, <2>2
<1>2. ASSUME DueInv, AlarmInv, AlarmInv', [Next]_vars
      PROVE  [Steps]_vars
  BY <1>1, <1>2
<1> QED
  BY <1>2, DueAlways, AlarmInvAlways, ListKeepsAlarms, PTL DEF Spec, BacklogShrinks
=============================================================================
