----------------------- MODULE StackSanitizer_proofs -----------------------
(***************************************************************************)
(* Theorems about StackSanitizer, for every size of the stack, of return   *)
(* addresses and of the array of frames.                                   *)
(***************************************************************************)
EXTENDS StackSanitizer, SequenceTheorems, TLAPS

(* Return addresses lie one below the other.  Only the handler of an       *)
(* interrupt lies on what its function has taken of its own address.       *)
Stacked(q) ==
  /\ q \in Seq(Addresses)
  /\ \A k \in 1 .. Len(q) : /\ q[k].sp \in Nat /\ q[k].sp + AddressSize <= RamEnd
                            /\ q[k].kind = "irq" => q[k].taken = 0
  /\ \A j, k \in 1 .. Len(q) : j < k => /\ q[k].sp <= q[j].sp
                                        /\ q[k].kind = "call" => q[k].sp < q[j].sp
  /\ \A k \in 1 .. Len(q) - 1 :
       /\ q[k + 1].sp + AddressSize <= q[k].sp + q[k].taken
       /\ q[k].taken > 0 => /\ q[k + 1].kind = "irq"
                            /\ q[k + 1].sp + AddressSize = q[k].sp + q[k].taken

(* The stack pointer is below the last of them, or within it.              *)
Below(q, s) ==
  Len(q) > 0 => IF q[Len(q)].taken = 0 THEN s <= q[Len(q)].sp
                                       ELSE s = q[Len(q)].sp + q[Len(q)].taken

HasFrame(f, a) == \E i \in 1 .. Len(f) : f[i] = a

(* The frames f belong to calls among q, in order, and every call that is  *)
(* not exposed has one; those exposed are the outermost.  A function that  *)
(* has begun to take its address has no frame, or the check is off (d).    *)
Matched(f, q, d) ==
  /\ f \in Seq(0 .. RamEnd)
  /\ \A i, j \in 1 .. Len(f) : i < j => f[j] < f[i]
  /\ \A i \in 1 .. Len(f) : \E k \in 1 .. Len(q) : q[k].kind = "call" /\ q[k].sp = f[i]
  /\ \A k \in 1 .. Len(q) : (q[k].kind = "call" /\ ~q[k].exposed) => HasFrame(f, q[k].sp)
  /\ \A j, k \in 1 .. Len(q) : (j < k /\ q[k].exposed) => q[j].exposed
  /\ (Len(q) > 0 /\ q[Len(q)].taken > 0 /\ HasFrame(f, q[Len(q)].sp)) => d

LEMMA AddressParts ==
  ASSUME NEW q \in Seq(Addresses)
  PROVE  /\ Len(q) \in Nat
         /\ \A k \in 1 .. Len(q) : /\ q[k] \in Addresses /\ q[k].sp \in Int
                                   /\ q[k].kind \in Kinds
                                   /\ q[k].taken \in 0 .. AddressSize
                                   /\ q[k].taken \in Nat
                                   /\ q[k].exposed \in BOOLEAN
<1>1. Len(q) \in Nat
  BY LenProperties
<1>2. \A k \in 1 .. Len(q) : q[k] \in Addresses
  BY ElementOfSeq
<1> QED
  BY <1>1, <1>2, StackAssumption DEF Addresses

LEMMA FrontParts ==
  ASSUME NEW S, NEW q \in Seq(S), Len(q) > 0
  PROVE  /\ Front(q) \in Seq(S) /\ Len(Front(q)) = Len(q) - 1
         /\ \A k \in 1 .. Len(q) - 1 : Front(q)[k] = q[k]
<1>1. Len(q) \in Nat /\ \A i \in 1 .. Len(q) - 1 : q[i] \in S
  <2>1. Len(q) \in Nat
    BY LenProperties
  <2>2. \A i \in 1 .. Len(q) - 1 : i \in 1 .. Len(q)
    BY <2>1
  <2> QED
    BY <2>1, <2>2, ElementOfSeq
<1>2. 1 \in Int /\ Len(q) - 1 \in Int
  BY <1>1
<1> DEFINE m == Len(q) - 1
<1>3. /\ Front(q) \in Seq(S)
      /\ Len(Front(q)) = IF 1 <= m THEN m - 1 + 1 ELSE 0
      /\ \A i \in 1 .. m - 1 + 1 : Front(q)[i] = q[1 + i - 1]
  BY <1>1, <1>2, SubSeqProperties DEF Front
<1> HIDE DEF m
<1>4. m \in Nat /\ m - 1 + 1 = m
  BY <1>1 DEF m
<1>5. \A i \in 1 .. m : 1 + i - 1 = i
  BY <1>4
<1>6. Len(Front(q)) = m
  BY <1>3, <1>4
<1>7. \A i \in 1 .. m : Front(q)[i] = q[1 + i - 1]
  BY <1>3, <1>4
<1>8. \A i \in 1 .. m : Front(q)[i] = q[i]
  BY <1>5, <1>7
<1> QED
  BY <1>3, <1>6, <1>8 DEF m

-----------------------------------------------------------------------------
Pushable(q, s, kind) ==
  /\ Stacked(q) /\ Below(q, s) /\ s \in 0 .. RamEnd /\ s >= AddressSize
  /\ kind \in Kinds /\ (kind = "call" => (Len(q) > 0 => q[Len(q)].taken = 0))

Pushed(q, s, kind, q2) ==
  /\ Stacked(q2) /\ Below(q2, s - AddressSize) /\ s - AddressSize \in 0 .. RamEnd
  /\ Len(q2) = Len(q) + 1
  /\ \A k \in 1 .. Len(q) : q2[k] = q[k]
  /\ q2[Len(q) + 1] = Address(s - AddressSize, kind)
  /\ \A k \in 1 .. Len(q) : /\ s - AddressSize <= q[k].sp
                            /\ kind = "call" => s - AddressSize < q[k].sp

(* A return address that is pushed under the others.                       *)
LEMMA PushedStack ==
  ASSUME NEW q, NEW s, NEW kind, Pushable(q, s, kind),
         NEW q2, q2 = Append(q, Address(s - AddressSize, kind))
  PROVE  Pushed(q, s, kind, q2)
<1> /\ Stacked(q) /\ Below(q, s) /\ s \in 0 .. RamEnd /\ s >= AddressSize
    /\ kind \in Kinds /\ (kind = "call" => (Len(q) > 0 => q[Len(q)].taken = 0))
  BY DEF Pushable
<1> DEFINE e == Address(s - AddressSize, kind)
           n == Len(q)
<1>0. RamEnd \in Nat /\ AddressSize \in Nat \ {0}
  BY StackAssumption
<1>1. q \in Seq(Addresses)
  BY DEF Stacked
<1>2. /\ e \in Addresses /\ e.sp = s - AddressSize /\ e.kind = kind /\ e.taken = 0
      /\ e.sp \in Nat /\ e.sp + AddressSize = s /\ s <= RamEnd
  BY <1>0 DEF Address, Addresses
<1>3. n \in Nat /\ \A k \in 1 .. n : /\ q[k].sp \in Nat /\ q[k].taken \in 0 .. AddressSize
                                     /\ q[k].taken \in Nat
  BY <1>1, AddressParts DEF Stacked
<1> HIDE DEF e
<1>4. /\ q2 \in Seq(Addresses) /\ Len(q2) = n + 1
      /\ \A k \in 1 .. n : q2[k] = q[k]
      /\ q2[n + 1] = e
  BY <1>1, <1>2, AppendProperties DEF e
<1> HIDE DEF n
<1>5. n > 0 => /\ e.sp <= q[n].sp
               /\ kind = "call" => e.sp < q[n].sp
               /\ e.sp + AddressSize <= q[n].sp + q[n].taken
               /\ q[n].taken > 0 => kind # "call" /\ e.sp + AddressSize = q[n].sp + q[n].taken
  <2> SUFFICES ASSUME n > 0
               PROVE  /\ e.sp <= q[n].sp
                      /\ kind = "call" => e.sp < q[n].sp
                      /\ e.sp + AddressSize <= q[n].sp + q[n].taken
                      /\ q[n].taken > 0 =>
                           kind # "call" /\ e.sp + AddressSize = q[n].sp + q[n].taken
    OBVIOUS
  <2>1. /\ q[n].sp \in Nat /\ q[n].taken \in 0 .. AddressSize
        /\ IF q[n].taken = 0 THEN s <= q[n].sp ELSE s = q[n].sp + q[n].taken
        /\ kind = "call" => q[n].taken = 0
    BY <1>3 DEF Below, n
  <2> QED
    BY <1>0, <1>2, <2>1
<1>6. \A k \in 1 .. n : e.sp <= q[k].sp /\ (kind = "call" => e.sp < q[k].sp)
  <2> SUFFICES ASSUME NEW k \in 1 .. n
               PROVE  e.sp <= q[k].sp /\ (kind = "call" => e.sp < q[k].sp)
    OBVIOUS
  <2>1. k = n \/ (k < n /\ n \in 1 .. n)
    BY <1>3
  <2>2. k < n => q[n].sp <= q[k].sp
    BY <1>3, <2>1 DEF Stacked, n
  <2>3. n > 0 /\ n \in 1 .. n
    BY <1>3
  <2> QED
    BY <1>2, <1>3, <1>5, <2>1, <2>2, <2>3
<1>7. \A k \in 1 .. Len(q2) : k \in 1 .. n \/ k = n + 1
  BY <1>3, <1>4
<1>8. \A k \in 1 .. Len(q2) : /\ q2[k].sp \in Nat /\ q2[k].sp + AddressSize <= RamEnd
                              /\ q2[k].kind = "irq" => q2[k].taken = 0
  BY <1>2, <1>4, <1>7 DEF Stacked, n
<1>9. ASSUME NEW j \in 1 .. Len(q2), NEW k \in 1 .. Len(q2), j < k
      PROVE  q2[k].sp <= q2[j].sp /\ (q2[k].kind = "call" => q2[k].sp < q2[j].sp)
  <2>1. j \in 1 .. n
    BY <1>3, <1>4, <1>9
  <2>2. CASE k \in 1 .. n
    BY <1>4, <1>9, <2>1, <2>2 DEF Stacked, n
  <2>3. CASE k = n + 1
    BY <1>2, <1>4, <1>6, <2>1, <2>3
  <2> QED
    BY <1>7, <2>2, <2>3
<1>10. ASSUME NEW k \in 1 .. Len(q2) - 1
       PROVE  /\ q2[k + 1].sp + AddressSize <= q2[k].sp + q2[k].taken
              /\ q2[k].taken > 0 => /\ q2[k + 1].kind = "irq"
                                    /\ q2[k + 1].sp + AddressSize = q2[k].sp + q2[k].taken
  <2>1. k \in 1 .. n /\ q2[k] = q[k]
    BY <1>3, <1>4
  <2>2. CASE k = n
    <3>1. n > 0 /\ q2[k + 1] = e /\ q2[k] = q[n]
      BY <1>3, <1>4, <2>1, <2>2
    <3> QED
      BY <1>2, <1>5, <3>1 DEF Kinds
  <2>3. CASE k # n
    <3>1. k \in 1 .. n - 1 /\ k + 1 \in 1 .. n
      BY <1>3, <2>1, <2>3
    <3>2. q2[k + 1] = q[k + 1]
      BY <1>4, <3>1
    <3> QED
      BY <2>1, <3>1, <3>2 DEF Stacked, n
  <2> QED
    BY <2>2, <2>3
<1>11. Stacked(q2)
  BY <1>4, <1>8, <1>9, <1>10 DEF Stacked
<1>12. Below(q2, s - AddressSize)
  BY <1>2, <1>3, <1>4 DEF Below
<1> QED
  BY <1>0, <1>2, <1>4, <1>6, <1>11, <1>12 DEF Pushed, n, e

(* The last return address is used.                                        *)
LEMMA StackedPop ==
  ASSUME NEW q, Stacked(q), Len(q) > 0, q[Len(q)].taken = 0,
         NEW s, s = q[Len(q)].sp
  PROVE  /\ Stacked(Front(q)) /\ Below(Front(q), s + AddressSize)
         /\ s + AddressSize \in 0 .. RamEnd
<1> DEFINE n == Len(q)
           p == Front(q)
<1>0. RamEnd \in Nat /\ AddressSize \in Nat \ {0}
  BY StackAssumption
<1>1. q \in Seq(Addresses)
  BY DEF Stacked
<1>2. n \in Nat /\ n > 0 /\ \A k \in 1 .. n : q[k].taken \in Nat /\ q[k].sp \in Int
  BY <1>1, AddressParts
<1>3. p \in Seq(Addresses) /\ Len(p) = n - 1 /\ \A k \in 1 .. n - 1 : p[k] = q[k]
  BY <1>1, FrontParts
<1> HIDE DEF p, n
<1>4. \A k \in 1 .. Len(p) : k \in 1 .. n /\ p[k] = q[k]
  BY <1>2, <1>3
<1>5. \A k \in 1 .. Len(p) - 1 :
        k \in 1 .. n - 1 /\ k \in 1 .. Len(p) /\ k + 1 \in 1 .. Len(p)
  BY <1>2, <1>3
<1>6. \A j, k \in 1 .. Len(p) : j < k => /\ p[k].sp <= p[j].sp
                                         /\ p[k].kind = "call" => p[k].sp < p[j].sp
  BY <1>4 DEF Stacked, n
<1>7. \A k \in 1 .. Len(p) - 1 :
       /\ p[k + 1].sp + AddressSize <= p[k].sp + p[k].taken
       /\ p[k].taken > 0 => /\ p[k + 1].kind = "irq"
                            /\ p[k + 1].sp + AddressSize = p[k].sp + p[k].taken
  BY <1>4, <1>5 DEF Stacked, n
<1>8. \A k \in 1 .. Len(p) : /\ p[k].sp \in Nat /\ p[k].sp + AddressSize <= RamEnd
                             /\ p[k].kind = "irq" => p[k].taken = 0
  BY <1>4 DEF Stacked, n
<1>9. Stacked(p)
  BY <1>3, <1>6, <1>7, <1>8 DEF Stacked
<1>10. Below(p, s + AddressSize)
  <2> SUFFICES ASSUME Len(p) > 0
               PROVE  IF p[Len(p)].taken = 0 THEN s + AddressSize <= p[Len(p)].sp
                      ELSE s + AddressSize = p[Len(p)].sp + p[Len(p)].taken
    BY DEF Below
  <2>1. /\ n - 1 \in 1 .. n - 1 /\ n - 1 + 1 = n /\ Len(p) = n - 1
        /\ p[Len(p)] = q[n - 1] /\ n - 1 \in 1 .. n
    BY <1>2, <1>3
  <2>2. /\ q[n].sp + AddressSize <= q[n - 1].sp + q[n - 1].taken
        /\ q[n - 1].taken > 0 => q[n].sp + AddressSize = q[n - 1].sp + q[n - 1].taken
    BY <2>1 DEF Stacked, n
  <2>3. q[n - 1].taken \in Nat /\ q[n - 1].sp \in Int
    BY <1>2, <2>1
  <2> QED
    BY <1>0, <2>1, <2>2, <2>3 DEF n
<1>11. s + AddressSize \in 0 .. RamEnd
  <2>1. n \in 1 .. n
    BY <1>2
  <2>2. s \in Nat /\ s + AddressSize <= RamEnd
    BY <2>1 DEF Stacked, n
  <2> QED
    BY <1>0, <2>2
<1> QED
  BY <1>9, <1>10, <1>11 DEF p

Retaken(q, t) == [q EXCEPT ![Len(q)].taken = t]

SameCall(e, e2) == e.sp = e2.sp /\ e.kind = e2.kind /\ e.exposed = e2.exposed

(* Only what the last function has taken changes.                          *)
LEMMA StackedTaken ==
  ASSUME NEW q, Stacked(q), Len(q) > 0, q[Len(q)].kind = "call",
         NEW t \in 0 .. AddressSize, NEW q2, q2 = Retaken(q, t)
  PROVE  /\ Stacked(q2) /\ Len(q2) = Len(q)
         /\ \A k \in 1 .. Len(q) : SameCall(q2[k], q[k])
         /\ q2[Len(q)].taken = t
<1> DEFINE n == Len(q)
           e == [q[n] EXCEPT !.taken = t]
<1>0. AddressSize \in Nat
  BY StackAssumption
<1>1. q \in Seq(Addresses)
  BY DEF Stacked
<1>2. /\ n \in Nat /\ n \in 1 .. n
      /\ \A k \in 1 .. n : q[k] \in Addresses
  BY <1>1, AddressParts
<1>3. /\ e \in Addresses /\ SameCall(e, q[n]) /\ e.taken = t
  BY <1>2 DEF Addresses, SameCall
<1>4. q2 = [q EXCEPT ![n] = e]
  BY DEF Retaken
<1> HIDE DEF e
<1>5. q2 \in Seq(Addresses) /\ Len(q2) = n /\ q2[n] = e
      /\ \A k \in 1 .. n : k # n => q2[k] = q[k]
  BY <1>1, <1>2, <1>3, <1>4, ExceptSeq
<1> HIDE DEF n
<1>6. \A k \in 1 .. n : SameCall(q2[k], q[k])
  BY <1>3, <1>5 DEF SameCall
<1>7. \A k \in 1 .. Len(q2) : /\ q2[k].sp \in Nat /\ q2[k].sp + AddressSize <= RamEnd
                              /\ q2[k].kind = "irq" => q2[k].taken = 0
  BY <1>5, <1>6 DEF Stacked, SameCall, n
<1>8. \A j, k \in 1 .. Len(q2) : j < k => /\ q2[k].sp <= q2[j].sp
                                          /\ q2[k].kind = "call" => q2[k].sp < q2[j].sp
  BY <1>5, <1>6 DEF Stacked, SameCall, n
<1>9. \A k \in 1 .. Len(q2) - 1 :
        k \in 1 .. n - 1 /\ k \in 1 .. n /\ k # n /\ k + 1 \in 1 .. n
  BY <1>2, <1>5
<1>10. \A k \in 1 .. Len(q2) - 1 :
         /\ q2[k + 1].sp + AddressSize <= q2[k].sp + q2[k].taken
         /\ q2[k].taken > 0 => /\ q2[k + 1].kind = "irq"
                               /\ q2[k + 1].sp + AddressSize = q2[k].sp + q2[k].taken
  BY <1>5, <1>6, <1>9 DEF Stacked, SameCall, n
<1> QED
  BY <1>3, <1>5, <1>6, <1>7, <1>8, <1>10 DEF Stacked, SameCall, n

-----------------------------------------------------------------------------
(* If the last call has a frame, it is the last frame.                     *)
LEMMA FrameOfLastCall ==
  ASSUME NEW f, NEW q, NEW d, Stacked(q), Matched(f, q, d),
         NEW k \in 1 .. Len(q), q[k].kind = "call", HasFrame(f, q[k].sp),
         \A j \in 1 .. Len(q) : j > k => q[j].kind # "call"
  PROVE  Len(f) > 0 /\ f[Len(f)] = q[k].sp
<1>1. f \in Seq(0 .. RamEnd) /\ q \in Seq(Addresses)
  BY DEF Stacked, Matched
<1>2. Len(f) \in Nat /\ Len(q) \in Nat
  BY <1>1, LenProperties
<1>3. PICK i \in 1 .. Len(f) : f[i] = q[k].sp
  BY DEF HasFrame
<1>4. Len(f) > 0 /\ Len(f) \in 1 .. Len(f)
  BY <1>2, <1>3
<1>5. CASE i = Len(f)
  BY <1>3, <1>4, <1>5
<1>6. CASE i < Len(f)
  <2>1. f[Len(f)] < f[i]
    BY <1>4, <1>6 DEF Matched
  <2>2. PICK j \in 1 .. Len(q) : q[j].kind = "call" /\ q[j].sp = f[Len(f)]
    BY <1>4 DEF Matched
  <2>3. j = k \/ j < k \/ j > k
    BY <1>2
  <2>4. j < k => q[k].sp < q[j].sp
    BY DEF Stacked
  <2>5. q[k].sp \in Nat /\ q[j].sp \in Nat
    BY DEF Stacked
  <2> QED
    BY <1>3, <2>1, <2>2, <2>3, <2>4, <2>5
<1> QED
  BY <1>2, <1>5, <1>6

(* Only what the last function has taken changes, and the check.           *)
LEMMA MatchedTaken ==
  ASSUME NEW f, NEW q, NEW q2, NEW d, NEW d2, Matched(f, q, d), Len(q) \in Nat \ {0},
         Len(q2) = Len(q), \A k \in 1 .. Len(q) : SameCall(q2[k], q[k]),
         (q2[Len(q)].taken > 0 /\ HasFrame(f, q[Len(q)].sp)) => d2
  PROVE  Matched(f, q2, d2)
<1>1. \A k \in 1 .. Len(q) :
        q2[k].sp = q[k].sp /\ q2[k].kind = q[k].kind /\ q2[k].exposed = q[k].exposed
  BY DEF SameCall
<1>2. \A i \in 1 .. Len(f) : \E k \in 1 .. Len(q) : q2[k].kind = "call" /\ q2[k].sp = f[i]
  BY <1>1 DEF Matched
<1>3. \A k \in 1 .. Len(q) : (q2[k].kind = "call" /\ ~q2[k].exposed) => HasFrame(f, q2[k].sp)
  BY <1>1 DEF Matched
<1>4. \A j, k \in 1 .. Len(q) : (j < k /\ q2[k].exposed) => q2[j].exposed
  BY <1>1 DEF Matched
<1>5. (q2[Len(q)].taken > 0 /\ HasFrame(f, q2[Len(q)].sp)) => d2
  BY <1>1
<1>6. f \in Seq(0 .. RamEnd) /\ \A i, j \in 1 .. Len(f) : i < j => f[j] < f[i]
  BY DEF Matched
<1> QED
  BY <1>2, <1>3, <1>4, <1>5, <1>6 DEF Matched

(* A return address is pushed, with a frame if it is that of a call.       *)
LEMMA MatchedPush ==
  ASSUME NEW f, NEW q, NEW q2, NEW d, Matched(f, q, d), Len(q) \in Nat,
         NEW a \in 0 .. RamEnd, NEW kind \in Kinds,
         Len(q2) = Len(q) + 1, \A k \in 1 .. Len(q) : q2[k] = q[k],
         q2[Len(q) + 1] = Address(a, kind),
         kind = "call" => \A k \in 1 .. Len(q) : a < q[k].sp,
         NEW f2, f2 = IF kind = "call" THEN Append(f, a) ELSE f
  PROVE  Matched(f2, q2, d)
<1> DEFINE n == Len(q)
           m == Len(f)
<1>0. RamEnd \in Nat
  BY StackAssumption
<1>1. f \in Seq(0 .. RamEnd) /\ m \in Nat
  BY LenProperties DEF Matched
<1>2. \A k \in 1 .. Len(q2) : k \in 1 .. n \/ k = n + 1
  OBVIOUS
<1>3. n + 1 \in 1 .. Len(q2) /\ \A k \in 1 .. n : k \in 1 .. Len(q2)
  OBVIOUS
<1>4. /\ q2[n + 1].sp = a /\ q2[n + 1].kind = kind /\ q2[n + 1].taken = 0
      /\ q2[Len(q2)].taken = 0 /\ q2[n + 1].exposed = FALSE
  BY DEF Address
<1>4b. \A j, k \in 1 .. Len(q2) : (j < k /\ q2[k].exposed) => q2[j].exposed
  <2> SUFFICES ASSUME NEW j \in 1 .. Len(q2), NEW k \in 1 .. Len(q2), j < k, q2[k].exposed
               PROVE  q2[j].exposed
    OBVIOUS
  <2>1. k \in 1 .. n
    BY <1>2, <1>4
  <2>2. j \in 1 .. n
    BY <2>1
  <2> QED
    BY <2>1, <2>2 DEF Matched
<1>4a. ~(q2[Len(q2)].taken > 0)
  BY <1>4
<1>5. CASE kind # "call"
  <2>1. f2 = f
    BY <1>5
  <2>2. \A i \in 1 .. m : \E k \in 1 .. Len(q2) : q2[k].kind = "call" /\ q2[k].sp = f[i]
    BY <1>3 DEF Matched
  <2>3. \A k \in 1 .. Len(q2) :
          (q2[k].kind = "call" /\ ~q2[k].exposed) => HasFrame(f, q2[k].sp)
    BY <1>2, <1>4, <1>5 DEF Matched
  <2> QED
    BY <1>4a, <1>4b, <2>1, <2>2, <2>3, Zenon DEF Matched
<1>6. CASE kind = "call"
  <2>1. /\ f2 \in Seq(0 .. RamEnd) /\ Len(f2) = m + 1
        /\ \A i \in 1 .. m : f2[i] = f[i]
        /\ f2[m + 1] = a
    BY <1>1, <1>6, AppendProperties
  <2>2. \A i \in 1 .. Len(f2) : i \in 1 .. m \/ i = m + 1
    BY <1>1, <2>1
  <2>3. \A i \in 1 .. m : a < f[i]
    BY <1>6 DEF Matched
  <2>4. ASSUME NEW i \in 1 .. Len(f2), NEW j \in 1 .. Len(f2), i < j
        PROVE  f2[j] < f2[i]
    <3>1. i \in 1 .. m
      BY <1>1, <2>1, <2>4
    <3>2. CASE j \in 1 .. m
      BY <2>1, <2>4, <3>1, <3>2 DEF Matched
    <3>3. CASE j = m + 1
      BY <2>1, <2>3, <3>1, <3>3
    <3> QED
      BY <2>2, <3>2, <3>3
  <2>5. ASSUME NEW i \in 1 .. Len(f2)
        PROVE  \E k \in 1 .. Len(q2) : q2[k].kind = "call" /\ q2[k].sp = f2[i]
    <3>1. CASE i \in 1 .. m
      BY <1>3, <2>1, <3>1 DEF Matched
    <3>2. CASE i = m + 1
      BY <1>3, <1>4, <1>6, <2>1, <3>2
    <3> QED
      BY <2>2, <3>1, <3>2
  <2>6. \A b : HasFrame(f, b) => HasFrame(f2, b)
    <3>1. \A i \in 1 .. m : i \in 1 .. Len(f2)
      BY <1>1, <2>1
    <3> QED
      BY <2>1, <3>1 DEF HasFrame
  <2>7. HasFrame(f2, a)
    <3>1. m + 1 \in 1 .. Len(f2)
      BY <1>1, <2>1
    <3> QED
      BY <2>1, <3>1 DEF HasFrame
  <2>8. \A k \in 1 .. Len(q2) :
          (q2[k].kind = "call" /\ ~q2[k].exposed) => HasFrame(f2, q2[k].sp)
    BY <1>2, <1>4, <2>6, <2>7 DEF Matched
  <2> QED
    BY <1>4a, <1>4b, <2>1, <2>4, <2>5, <2>8, Zenon DEF Matched
<1> QED
  BY <1>5, <1>6

(* What is left of q when its last address is used: as it was after a RET, *)
(* and all of it exposed after a RETI.                                     *)
Popped(q, p) ==
  /\ Len(p) = Len(q) - 1
  /\ \A k \in 1 .. Len(p) :
       p[k].sp = q[k].sp /\ p[k].kind = q[k].kind /\ p[k].taken = q[k].taken
  /\ \/ \A k \in 1 .. Len(p) : p[k].exposed
     \/ /\ q[Len(q)].kind = "call"
        /\ \A k \in 1 .. Len(p) : p[k].exposed = q[k].exposed

(* A return pops the last frame, whatever it returns from.                 *)
LEMMA MatchedPop ==
  ASSUME NEW f, NEW q, NEW p, NEW d, NEW d2, Stacked(q), Matched(f, q, d),
         Len(q) > 0, q[Len(q)].taken = 0, Popped(q, p),
         NEW f2, f2 = IF f = << >> THEN f ELSE Front(f)
  PROVE  Matched(f2, p, d2)
<1> DEFINE n == Len(q)
           m == Len(f)
<1>0. RamEnd \in Nat
  BY StackAssumption
<1>1. q \in Seq(Addresses) /\ f \in Seq(0 .. RamEnd)
  BY DEF Stacked, Matched
<1>2. /\ n \in Nat /\ n > 0 /\ n \in 1 .. n
      /\ \A k \in 1 .. n : q[k].taken \in Nat /\ q[k].sp \in Int /\ q[k].kind \in Kinds
  BY <1>1, AddressParts
<1>3. /\ Len(p) = n - 1
      /\ \A k \in 1 .. n - 1 :
           p[k].sp = q[k].sp /\ p[k].kind = q[k].kind /\ p[k].taken = q[k].taken
  BY DEF Popped
<1>4. m \in Nat /\ (m = 0 <=> f = << >>)
  BY <1>1, LenProperties, EmptySeq
<1>5. /\ f2 \in Seq(0 .. RamEnd)
      /\ Len(f2) = IF m = 0 THEN 0 ELSE m - 1
      /\ \A i \in 1 .. Len(f2) : f2[i] = f[i] /\ i \in 1 .. m /\ i < m
  <2>1. CASE f = << >>
    BY <1>1, <1>4, <2>1
  <2>2. CASE f # << >>
    <3>1. /\ f2 \in Seq(0 .. RamEnd) /\ Len(f2) = m - 1
          /\ \A i \in 1 .. m - 1 : f2[i] = f[i]
      BY <1>1, <1>4, <2>2, FrontParts
    <3> QED
      BY <1>4, <2>2, <3>1
  <2> QED
    BY <2>1, <2>2
<1> HIDE DEF n, m
<1>6. \A k \in 1 .. Len(p) :
        /\ k \in 1 .. n /\ k < n
        /\ p[k].sp = q[k].sp /\ p[k].kind = q[k].kind /\ p[k].taken = q[k].taken
  BY <1>2, <1>3
<1>7. \A k \in 1 .. n : k # n => k \in 1 .. Len(p)
  BY <1>2, <1>3
<1>8. \A i, j \in 1 .. Len(f2) : i < j => f2[j] < f2[i]
  BY <1>5 DEF Matched, m
<1>9. ASSUME NEW i \in 1 .. Len(f2)
      PROVE  \E k \in 1 .. Len(p) : p[k].kind = "call" /\ p[k].sp = f2[i]
  <2>1. i \in 1 .. m /\ i < m /\ f2[i] = f[i] /\ m \in 1 .. m
    BY <1>4, <1>5
  <2>2. PICK k \in 1 .. n : q[k].kind = "call" /\ q[k].sp = f[i]
    BY <2>1 DEF Matched, m, n
  <2>3. k # n
    <3> SUFFICES ASSUME k = n
                 PROVE  FALSE
      OBVIOUS
    <3>1. HasFrame(f, q[n].sp)
      BY <2>1, <2>2 DEF HasFrame, m
    <3>2. \A j \in 1 .. n : ~(j > n)
      BY <1>2
    <3>3. f[m] = q[n].sp
      BY <1>2, <2>2, <3>1, <3>2, FrameOfLastCall DEF n, m
    <3>4. f[m] < f[i]
      BY <2>1 DEF Matched, m
    <3> QED
      BY <1>2, <2>2, <3>3, <3>4
  <2> QED
    BY <1>6, <1>7, <2>1, <2>2, <2>3
<1>10. ASSUME NEW k \in 1 .. Len(p), p[k].kind = "call", ~p[k].exposed
       PROVE  HasFrame(f2, p[k].sp)
  <2>1. /\ k \in 1 .. n /\ k < n /\ p[k].sp = q[k].sp /\ q[k].kind = "call"
        /\ ~q[k].exposed /\ q[n].kind = "call"
    BY <1>6, <1>10 DEF Popped, n
  <2>2. PICK i \in 1 .. m : f[i] = q[k].sp
    BY <2>1 DEF Matched, HasFrame, m, n
  <2>3. m > 0 /\ f # << >>
    BY <1>4, <2>2
  <2>4. ~q[n].exposed
    BY <1>2, <2>1 DEF Matched, n
  <2>5. HasFrame(f, q[n].sp)
    BY <1>2, <2>1, <2>4 DEF Matched, n
  <2>6. f[m] = q[n].sp
    <3>1. \A j \in 1 .. n : ~(j > n)
      BY <1>2
    <3> QED
      BY <1>2, <2>1, <2>5, <3>1, FrameOfLastCall DEF n, m
  <2>7. q[n].sp < q[k].sp
    BY <1>2, <2>1 DEF Stacked, n
  <2>8. i # m
    BY <1>2, <2>1, <2>2, <2>6, <2>7
  <2>9. i \in 1 .. Len(f2)
    BY <1>4, <1>5, <2>3, <2>8
  <2> QED
    BY <1>5, <2>1, <2>2, <2>9 DEF HasFrame
<1>10a. ASSUME NEW j \in 1 .. Len(p), NEW k \in 1 .. Len(p), j < k, p[k].exposed
        PROVE  p[j].exposed
  BY <1>6, <1>10a DEF Popped, Matched, n
<1>11. ASSUME Len(p) > 0, p[Len(p)].taken > 0, HasFrame(f2, p[Len(p)].sp)
       PROVE  d2
  <2>0. n - 1 > 0
    BY <1>3, <1>11
  <2>1. /\ n - 1 \in 1 .. n - 1 /\ n - 1 \in 1 .. n /\ Len(p) = n - 1
        /\ p[Len(p)].sp = q[n - 1].sp /\ p[Len(p)].taken = q[n - 1].taken
        /\ n - 1 + 1 = n
    BY <1>2, <1>3, <2>0
  <2>2. q[n].kind = "irq"
    BY <1>11, <2>1 DEF Stacked, n
  <2>3. q[n - 1].kind = "call"
    BY <1>2, <1>11, <2>1 DEF Stacked, n, Kinds
  <2>4. PICK i \in 1 .. Len(f2) : f2[i] = q[n - 1].sp
    BY <1>11, <2>1 DEF HasFrame
  <2>5. f[i] = q[n - 1].sp /\ i \in 1 .. m /\ i < m /\ m \in 1 .. m
    BY <1>4, <1>5, <2>4
  <2>6. HasFrame(f, q[n - 1].sp)
    BY <2>5 DEF HasFrame, m
  <2>7. \A j \in 1 .. n : j > n - 1 => q[j].kind # "call"
    <3>1. \A j \in 1 .. n : j > n - 1 => j = n
      BY <1>2
    <3> QED
      BY <2>2, <3>1
  <2>8. f[m] = q[n - 1].sp
    BY <2>1, <2>3, <2>6, <2>7, FrameOfLastCall DEF n, m
  <2>9. f[m] < f[i]
    BY <2>5 DEF Matched, m
  <2> QED
    BY <1>2, <2>1, <2>5, <2>8, <2>9
<1> QED
  BY <1>5, <1>8, <1>9, <1>10, <1>10a, <1>11 DEF Matched

(* The type invariant, what a history of calls looks like, and what the    *)
(* frames and the two histories of the faults have to do with it.          *)
Alarms == (do_reset => hit) /\ (smashed => do_reset) /\ (disabled => took)

StackInv ==
  /\ TypeOK
  /\ Stacked(live) /\ Below(live, sp)
  /\ Matched(frames, live, disabled)
  /\ Alarms

(* A write reports the cells of a frame, and is noted if it hits a return  *)
(* address, the handler's above what its function has taken included.      *)
LEMMA WrittenAlarms ==
  ASSUME StackInv, NEW set, Written(set)
  PROVE  /\ do_reset' \in BOOLEAN /\ hit' \in BOOLEAN /\ smashed' \in BOOLEAN
         /\ took' \in BOOLEAN /\ (disabled => took')
         /\ do_reset' => hit'
         /\ smashed' => do_reset'
<1> DEFINE n == Len(live)
           IsHit == \E e \in Entries(live) : Cells(e) \cap set # {}
<1>0. RamEnd \in Nat /\ AddressSize \in Nat \ {0}
  BY StackAssumption
<1>1. live \in Seq(Addresses) /\ Stacked(live) /\ Matched(frames, live, disabled)
  BY DEF StackInv, Stacked
<1>2. n \in Nat /\ \A k \in 1 .. n : /\ live[k].taken \in 0 .. AddressSize
                                     /\ live[k].taken \in Nat
                                     /\ live[k].sp \in Int /\ live[k].kind \in Kinds
  BY <1>1, AddressParts
<1>3. /\ do_reset \in BOOLEAN /\ disabled \in BOOLEAN /\ hit \in BOOLEAN
      /\ smashed \in BOOLEAN /\ took \in BOOLEAN /\ Alarms
  BY DEF StackInv, TypeOK
<1>4. hit' = (hit \/ (~disabled /\ IsHit))
  BY DEF Written
<1>5. do_reset' = (do_reset \/ (~disabled /\ \E f \in Entries(frames) : FrameCells(f) \cap set # {}))
  BY DEF Written
<1>6. \A k \in 1 .. n : Cells(live[k]) \cap set # {} => IsHit
  BY DEF Entries
<1> HIDE DEF IsHit, n
<1>7. ASSUME ~disabled, NEW f \in Entries(frames), FrameCells(f) \cap set # {}
      PROVE  IsHit
  <2>1. PICK i \in 1 .. Len(frames) : frames[i] = f
    BY DEF Entries
  <2>2. PICK k \in 1 .. n : live[k].kind = "call" /\ live[k].sp = f
    BY <1>1, <2>1 DEF Matched, n
  <2>3. PICK c \in set : c \in live[k].sp + 1 .. live[k].sp + AddressSize
    BY <1>7, <2>2 DEF FrameCells
  <2>4. c \in Int
    BY <2>3
  <2>5. CASE c > live[k].sp + live[k].taken
    <3>1. c \in Cells(live[k])
      <4>1. live[k].sp \in Int /\ live[k].taken \in Nat
        BY <1>2
      <4> QED
        BY <1>0, <2>3, <2>4, <2>5, <4>1 DEF Cells
    <3> QED
      BY <1>6, <2>3, <3>1
  <2>6. CASE c <= live[k].sp + live[k].taken
    <3>1. live[k].taken > 0 /\ live[k].taken <= AddressSize
      <4>1. live[k].sp \in Int /\ live[k].taken \in 0 .. AddressSize
        BY <1>2
      <4> QED
        BY <1>0, <2>3, <2>4, <2>6, <4>1
    <3>2. k # n
      <4>1. SUFFICES ASSUME k = n
                     PROVE  FALSE
        OBVIOUS
      <4>2. HasFrame(frames, live[n].sp)
        BY <2>1, <2>2, <4>1 DEF HasFrame
      <4>3. n > 0
        BY <1>2
      <4> QED
        BY <1>1, <1>7, <3>1, <4>1, <4>2, <4>3 DEF Matched, n
    <3>3. k \in 1 .. n - 1 /\ k + 1 \in 1 .. n
      BY <1>2, <3>2
    <3>4. /\ live[k + 1].kind = "irq" /\ live[k + 1].taken = 0
          /\ live[k + 1].sp + AddressSize = live[k].sp + live[k].taken
      BY <1>1, <3>1, <3>3 DEF Stacked, n
    <3>5. c \in Cells(live[k + 1])
      <4>1. /\ live[k].sp \in Int /\ live[k].taken \in Nat /\ live[k + 1].sp \in Int
            /\ live[k].taken <= AddressSize
        BY <1>2, <3>1, <3>3
      <4>2. c >= live[k + 1].sp + 1 /\ c <= live[k + 1].sp + AddressSize
        <5> DEFINE a == live[k + 1].sp
                   b == live[k].sp
                   t == live[k].taken
        <5>1. /\ a + AddressSize = b + t
              /\ a \in Int /\ b \in Int /\ t \in Nat /\ t <= AddressSize
          BY <3>4, <4>1
        <5>2. c >= b + 1 /\ c <= b + t
          BY <1>0, <2>3, <2>4, <2>6, <4>1
        <5> HIDE DEF a, b, t
        <5>3. c >= a + 1 /\ c <= a + AddressSize
          BY <1>0, <2>4, <5>1, <5>2
        <5> QED
          BY <5>3 DEF a
      <4>3. Cells(live[k + 1]) = live[k + 1].sp + 1 .. live[k + 1].sp + AddressSize
        BY <3>4, <4>1 DEF Cells
      <4> QED
        BY <1>0, <2>4, <4>1, <4>2, <4>3
    <3> QED
      BY <1>6, <2>3, <3>3, <3>5
  <2>7. c > live[k].sp + live[k].taken \/ c <= live[k].sp + live[k].taken
    BY <1>2, <2>4
  <2> QED
    BY <2>5, <2>6, <2>7
<1>8. ASSUME NEW e \in Guarded, Cells(e) \cap set # {}
      PROVE  \E f \in Entries(frames) : FrameCells(f) \cap set # {}
  <2>1. PICK k \in 1 .. n : live[k] = e /\ live[k].kind = "call" /\ ~live[k].exposed
    BY <1>8 DEF Guarded, Entries, n
  <2>2. PICK i \in 1 .. Len(frames) : frames[i] = live[k].sp
    BY <1>1, <2>1 DEF Matched, HasFrame, n
  <2>3. \A c \in Cells(live[k]) : c \in FrameCells(live[k].sp)
    <3>1. live[k].sp \in Int /\ live[k].taken \in Nat
      BY <1>2
    <3> QED
      BY <1>0, <3>1 DEF Cells, FrameCells
  <2> QED
    BY <1>8, <2>1, <2>2, <2>3 DEF Entries
<1>9. /\ smashed' = (smashed \/ (~took /\ \E e \in Guarded : Cells(e) \cap set # {}))
      /\ took' = took
  BY DEF Written
<1>10. do_reset' => hit'
  BY <1>3, <1>4, <1>5, <1>7 DEF Alarms
<1>11. smashed' => do_reset'
  BY <1>3, <1>5, <1>8, <1>9 DEF Alarms
<1> QED
  BY <1>3, <1>4, <1>5, <1>9, <1>10, <1>11 DEF Alarms

(* A smaller stack pointer, as long as the last address is whole.          *)
LEMMA BelowLower ==
  ASSUME StackInv, Untaken, NEW s \in Int,
         s <= sp \/ (live # << >> => s <= Last(live).sp)
  PROVE  Below(live, s)
<1>1. live \in Seq(Addresses) /\ sp \in Int /\ Below(live, sp)
  BY StackAssumption DEF StackInv, TypeOK
<1>2. SUFFICES ASSUME Len(live) > 0
               PROVE  live[Len(live)].taken = 0 /\ s <= live[Len(live)].sp
  BY DEF Below
<1>3. live # << >>
  BY <1>2
<1>4. live[Len(live)].taken = 0
  BY <1>3 DEF Untaken, Last
<1>5. sp <= live[Len(live)].sp
  BY <1>1, <1>2, <1>4 DEF Below
<1>6. live[Len(live)].sp \in Int
  <2>1. Len(live) \in 1 .. Len(live)
    BY <1>1, <1>2, LenProperties
  <2> QED
    BY <1>1, <2>1, AddressParts
<1> QED
  BY <1>1, <1>3, <1>4, <1>5, <1>6 DEF Last

(* What a step has to establish, from what it leaves of the types.         *)
LEMMA NextInv ==
  ASSUME phase' \in {"run", "check", "between"}, sp' \in 0 .. RamEnd,
         Stacked(live'), Below(live', sp'),
         Matched(frames', live', disabled'),
         disabled' \in BOOLEAN, took' \in BOOLEAN,
         do_reset' \in BOOLEAN, hit' \in BOOLEAN, smashed' \in BOOLEAN,
         do_reset' => hit', smashed' => do_reset', disabled' => took'
  PROVE  StackInv'
BY DEF StackInv, TypeOK, Alarms, Stacked, Matched, Below, HasFrame

LEMMA InitInv ==
  Init => StackInv
<1> SUFFICES ASSUME Init PROVE StackInv
  OBVIOUS
<1>1. << >> \in Seq(Addresses) /\ << >> \in Seq(0 .. RamEnd) /\ Len(<< >>) = 0
  BY EmptySeq
<1>2. TypeOK
  <2>1. RamEnd \in 0 .. RamEnd
    BY StackAssumption
  <2> QED
    BY <1>1, <2>1 DEF Init, TypeOK, Kinds
<1>3. Stacked(live) /\ Below(live, sp)
  BY <1>1 DEF Init, Stacked, Below
<1>4. Matched(frames, live, disabled)
  BY <1>1 DEF Init, Matched, HasFrame
<1> QED
  BY <1>2, <1>3, <1>4 DEF Init, StackInv, Alarms

-----------------------------------------------------------------------------
LEMMA CallInv ==
  ASSUME StackInv, Call
  PROVE  StackInv'
<1>1. /\ Stacked(live) /\ Below(live, sp) /\ Matched(frames, live, disabled)
      /\ sp \in 0 .. RamEnd /\ disabled \in BOOLEAN
      /\ Len(live) \in Nat
  <2>1. live \in Seq(Addresses)
    BY DEF StackInv, TypeOK
  <2> QED
    BY <2>1, LenProperties DEF StackInv, TypeOK
<1>2. /\ sp >= AddressSize /\ sp' = sp - AddressSize /\ frames' = Append(frames, sp')
      /\ live' = Append(live, Address(sp - AddressSize, "call"))
      /\ phase' = "check" /\ disabled' = disabled
  BY DEF Call, PushAddr, Instruction
<1>3. Len(live) > 0 => live[Len(live)].taken = 0
  <2>1. Len(live) > 0 => live # << >>
    OBVIOUS
  <2> QED
    BY <2>1 DEF Call, Untaken, Last
<1>4. "call" \in Kinds
  BY DEF Kinds
<1>5. /\ Stacked(live') /\ Below(live', sp') /\ sp' \in 0 .. RamEnd
      /\ Len(live') = Len(live) + 1
      /\ \A k \in 1 .. Len(live) : live'[k] = live[k]
      /\ live'[Len(live) + 1] = Address(sp', "call")
      /\ \A k \in 1 .. Len(live) : sp' < live[k].sp
  <2>1. Pushable(live, sp, "call")
    BY <1>1, <1>2, <1>3, <1>4 DEF Pushable
  <2>2. Pushed(live, sp, "call", live')
    BY <1>2, <2>1, PushedStack
  <2> QED
    BY <1>2, <2>2 DEF Pushed
<1>6. Matched(frames', live', disabled')
  BY <1>1, <1>2, <1>4, <1>5, MatchedPush
<1>7. Written(sp - AddressSize + 1 .. sp)
  BY DEF Call, PushAddr
<1> QED
  BY <1>1, <1>2, <1>5, <1>6, <1>7, WrittenAlarms, NextInv

LEMMA InterruptInv ==
  ASSUME StackInv, Interrupt
  PROVE  StackInv'
<1>1. /\ Stacked(live) /\ Below(live, sp) /\ Matched(frames, live, disabled)
      /\ sp \in 0 .. RamEnd /\ disabled \in BOOLEAN
      /\ Len(live) \in Nat
  <2>1. live \in Seq(Addresses)
    BY DEF StackInv, TypeOK
  <2> QED
    BY <2>1, LenProperties DEF StackInv, TypeOK
<1>2. /\ sp >= AddressSize /\ sp' = sp - AddressSize /\ frames' = frames
      /\ live' = Append(live, Address(sp - AddressSize, "irq"))
      /\ phase' = "run" /\ disabled' = disabled
  BY DEF Interrupt, PushAddr
<1>3. "irq" \in Kinds /\ "irq" # "call"
  BY DEF Kinds
<1>4. /\ Stacked(live') /\ Below(live', sp') /\ sp' \in 0 .. RamEnd
      /\ Len(live') = Len(live) + 1
      /\ \A k \in 1 .. Len(live) : live'[k] = live[k]
      /\ live'[Len(live) + 1] = Address(sp', "irq")
  <2>1. Pushable(live, sp, "irq")
    BY <1>1, <1>2, <1>3 DEF Pushable
  <2>2. Pushed(live, sp, "irq", live')
    BY <1>2, <2>1, PushedStack
  <2> QED
    BY <1>2, <2>2 DEF Pushed
<1>5. Matched(frames', live', disabled')
  BY <1>1, <1>2, <1>3, <1>4, MatchedPush
<1>6. Written(sp - AddressSize + 1 .. sp)
  BY DEF Interrupt, PushAddr
<1> QED
  BY <1>1, <1>2, <1>4, <1>5, <1>6, WrittenAlarms, NextInv

LEMMA MakeRoomInv ==
  ASSUME StackInv, MakeRoom
  PROVE  StackInv'
<1>1. /\ Stacked(live) /\ Matched(frames, live, disabled)
      /\ sp \in 0 .. RamEnd /\ disabled \in BOOLEAN
  BY DEF StackInv, TypeOK
<1>2. /\ sp >= AddressSize /\ sp' = sp - AddressSize /\ Untaken
      /\ frames' = frames /\ live' = live
      /\ phase' = "check" /\ disabled' = disabled
  BY DEF MakeRoom, PushAddr, Instruction
<1>3. sp' \in 0 .. RamEnd /\ sp' <= sp /\ sp' \in Int
  BY <1>1, <1>2, StackAssumption
<1>4. Below(live', sp')
  BY <1>2, <1>3, BelowLower
<1>5. Written(sp - AddressSize + 1 .. sp)
  BY DEF MakeRoom, PushAddr
<1> QED
  BY <1>1, <1>2, <1>3, <1>4, <1>5, WrittenAlarms, NextInv

LEMMA MoveSPInv ==
  ASSUME StackInv, NEW n \in -MaxLocals .. MaxLocals, MoveSP(n)
  PROVE  StackInv'
<1>1. /\ Stacked(live) /\ Matched(frames, live, disabled)
      /\ sp \in 0 .. RamEnd /\ disabled \in BOOLEAN
      /\ do_reset \in BOOLEAN /\ hit \in BOOLEAN /\ smashed \in BOOLEAN
      /\ took \in BOOLEAN /\ Alarms
  BY DEF StackInv, TypeOK
<1>2. /\ sp + n \in 0 .. RamEnd /\ sp' = sp + n /\ Untaken
      /\ (n > 0 /\ live # << >>) => sp + n <= Last(live).sp
      /\ frames' = frames /\ live' = live /\ do_reset' = do_reset /\ UNCHANGED history
      /\ phase' = "check" /\ disabled' = disabled
  BY DEF MoveSP, Instruction
<1>3. sp + n \in Int /\ (sp + n <= sp \/ n > 0)
  BY <1>1, StackAssumption
<1>4. Below(live', sp')
  BY <1>2, <1>3, BelowLower
<1> QED
  BY <1>1, <1>2, <1>4, NextInv DEF Alarms, history

LEMMA StoreInv ==
  ASSUME StackInv, NEW addr \in 1 .. RamEnd, Store(addr)
  PROVE  StackInv'
<1>1. /\ Stacked(live) /\ Below(live, sp) /\ Matched(frames, live, disabled)
      /\ sp \in 0 .. RamEnd /\ disabled \in BOOLEAN
  BY DEF StackInv, TypeOK
<1>2. /\ sp' = sp /\ frames' = frames /\ live' = live
      /\ phase' = "check" /\ disabled' = disabled
  BY DEF Store, Instruction
<1>3. Written({addr})
  BY DEF Store
<1> QED
  BY <1>1, <1>2, <1>3, WrittenAlarms, NextInv

LEMMA AtReturnParts ==
  ASSUME AtReturn, Stacked(live)
  PROVE  Len(live) > 0 /\ live[Len(live)].taken = 0 /\ sp = live[Len(live)].sp
<1>1. live \in Seq(Addresses)
  BY DEF Stacked
<1>2. Len(live) > 0
  BY <1>1, EmptySeq DEF AtReturn
<1> QED
  BY <1>2 DEF AtReturn, Last

LEMMA RetInv ==
  ASSUME StackInv, Ret
  PROVE  StackInv'
<1>1. /\ Stacked(live) /\ Matched(frames, live, disabled)
      /\ do_reset \in BOOLEAN /\ hit \in BOOLEAN /\ smashed \in BOOLEAN
      /\ took \in BOOLEAN /\ Alarms /\ disabled \in BOOLEAN
  BY DEF StackInv, TypeOK
<1>2. /\ AtReturn /\ InFunction /\ sp' = sp + AddressSize
      /\ frames' = (IF frames = << >> THEN frames ELSE Front(frames))
      /\ live' = Front(live) /\ do_reset' = do_reset /\ hit' = hit /\ smashed' = smashed
      /\ phase' \in {"run", "check", "between"}
      /\ disabled' \in BOOLEAN /\ took' \in BOOLEAN /\ (disabled' => took')
  BY <1>1 DEF Ret, Return, Instruction, StackFramePop, Alarms
<1>3. Len(live) > 0 /\ live[Len(live)].taken = 0 /\ sp = live[Len(live)].sp
  BY <1>1, <1>2, AtReturnParts
<1>4. Stacked(live') /\ Below(live', sp') /\ sp' \in 0 .. RamEnd
  BY <1>1, <1>2, <1>3, StackedPop
<1>5. Popped(live, live')
  <2>1. live[Len(live)].kind = "call"
    BY <1>2 DEF InFunction, Last
  <2>2. Len(live') = Len(live) - 1 /\ \A k \in 1 .. Len(live) - 1 : live'[k] = live[k]
    BY <1>1, <1>2, <1>3, FrontParts DEF Stacked
  <2> QED
    BY <2>1, <2>2 DEF Popped
<1>6. Matched(frames', live', disabled')
  BY <1>1, <1>2, <1>3, <1>5, MatchedPop
<1> QED
  BY <1>1, <1>2, <1>4, <1>6, NextInv DEF Alarms

(* To be exposed changes nothing else of the addresses.                    *)
LEMMA StackedExposed ==
  ASSUME NEW q, Stacked(q), NEW q2, q2 = Exposed(q)
  PROVE  /\ Stacked(q2) /\ Len(q2) = Len(q)
         /\ \A k \in 1 .. Len(q) : /\ q2[k].sp = q[k].sp /\ q2[k].kind = q[k].kind
                                   /\ q2[k].taken = q[k].taken /\ q2[k].exposed
<1>1. q \in Seq(Addresses) /\ Len(q) \in Nat
  BY LenProperties DEF Stacked
<1>2. /\ q2 = [k \in 1 .. Len(q) |-> [q[k] EXCEPT !.exposed = TRUE]]
      /\ \A k \in 1 .. Len(q) : [q[k] EXCEPT !.exposed = TRUE] \in Addresses
  <2>1. \A k \in 1 .. Len(q) : q[k] \in Addresses
    BY <1>1, AddressParts
  <2> QED
    BY <2>1 DEF Exposed, Addresses
<1>3. q2 \in Seq(Addresses) /\ Len(q2) = Len(q)
  <2>1. q2 \in [1 .. Len(q) -> Addresses]
    BY <1>2
  <2> QED
    BY <1>1, <2>1, SeqDef, LenProperties
<1>4. \A k \in 1 .. Len(q) : /\ q2[k].sp = q[k].sp /\ q2[k].kind = q[k].kind
                             /\ q2[k].taken = q[k].taken /\ q2[k].exposed
  <2>1. \A k \in 1 .. Len(q) : q[k] \in Addresses
    BY <1>1, AddressParts
  <2> QED
    BY <1>2, <2>1 DEF Addresses
<1>5. \A k \in 1 .. Len(q) - 1 : k \in 1 .. Len(q) /\ k + 1 \in 1 .. Len(q)
  BY <1>1
<1>6. \A k \in 1 .. Len(q) : /\ q2[k].sp \in Nat /\ q2[k].sp + AddressSize <= RamEnd
                             /\ q2[k].kind = "irq" => q2[k].taken = 0
  BY <1>4 DEF Stacked
<1>7. \A j, k \in 1 .. Len(q) : j < k => /\ q2[k].sp <= q2[j].sp
                                         /\ q2[k].kind = "call" => q2[k].sp < q2[j].sp
  BY <1>4 DEF Stacked
<1>8. \A k \in 1 .. Len(q) - 1 :
       /\ q2[k + 1].sp + AddressSize <= q2[k].sp + q2[k].taken
       /\ q2[k].taken > 0 => /\ q2[k + 1].kind = "irq"
                             /\ q2[k + 1].sp + AddressSize = q2[k].sp + q2[k].taken
  BY <1>4, <1>5 DEF Stacked
<1> QED
  BY <1>3, <1>4, <1>6, <1>7, <1>8 DEF Stacked

LEMMA RetiInv ==
  ASSUME StackInv, Reti
  PROVE  StackInv'
<1> DEFINE p == Front(live)
<1>1. /\ Stacked(live) /\ Matched(frames, live, disabled)
      /\ do_reset \in BOOLEAN /\ hit \in BOOLEAN /\ smashed \in BOOLEAN
      /\ took \in BOOLEAN /\ Alarms /\ disabled \in BOOLEAN
  BY DEF StackInv, TypeOK
<1>2. /\ AtReturn /\ sp' = sp + AddressSize
      /\ frames' = (IF frames = << >> THEN frames ELSE Front(frames))
      /\ live' = Exposed(p) /\ do_reset' = do_reset /\ hit' = hit /\ smashed' = smashed
      /\ phase' \in {"run", "check", "between"}
      /\ disabled' = FALSE /\ took' = FALSE
  BY DEF Reti, Return, Instruction, StackFramePop
<1>3. Len(live) > 0 /\ live[Len(live)].taken = 0 /\ sp = live[Len(live)].sp
  BY <1>1, <1>2, AtReturnParts
<1>4. Stacked(p) /\ Below(p, sp') /\ sp' \in 0 .. RamEnd
  BY <1>1, <1>2, <1>3, StackedPop
<1>5. Len(p) = Len(live) - 1 /\ \A k \in 1 .. Len(live) - 1 : p[k] = live[k]
  BY <1>1, <1>3, FrontParts DEF Stacked
<1> HIDE DEF p
<1>6. /\ Stacked(live') /\ Len(live') = Len(p)
      /\ \A k \in 1 .. Len(p) : /\ live'[k].sp = p[k].sp /\ live'[k].kind = p[k].kind
                                /\ live'[k].taken = p[k].taken /\ live'[k].exposed
  BY <1>2, <1>4, StackedExposed
<1>7. Below(live', sp')
  <2>1. Len(p) \in Nat
    BY <1>4, LenProperties DEF Stacked
  <2>2. Len(p) > 0 => Len(p) \in 1 .. Len(p)
    BY <2>1
  <2> QED
    BY <1>4, <1>6, <2>2 DEF Below
<1>8. Popped(live, live')
  BY <1>5, <1>6 DEF Popped
<1>9. Matched(frames', live', disabled')
  BY <1>1, <1>2, <1>3, <1>8, MatchedPop
<1> QED
  BY <1>1, <1>2, <1>4, <1>6, <1>7, <1>9, NextInv DEF Alarms

LEMMA RunReturnInv ==
  ASSUME StackInv, RunReturn
  PROVE  StackInv'
<1>1. /\ Stacked(live) /\ Matched(frames, live, disabled)
      /\ do_reset \in BOOLEAN /\ hit \in BOOLEAN /\ smashed \in BOOLEAN
      /\ took \in BOOLEAN /\ Alarms /\ disabled \in BOOLEAN
  BY DEF StackInv, TypeOK
<1>2. /\ AtReturn /\ InFunction /\ sp' = sp + AddressSize
      /\ frames' = (IF frames = << >> THEN frames ELSE Front(frames))
      /\ live' = Front(live) /\ do_reset' = do_reset /\ hit' = hit /\ smashed' = smashed
      /\ phase' \in {"run", "check", "between"}
      /\ disabled' \in BOOLEAN /\ took' \in BOOLEAN /\ (disabled' => took')
  BY <1>1 DEF RunReturn, history, StackFramePop, Alarms
<1>3. Len(live) > 0 /\ live[Len(live)].taken = 0 /\ sp = live[Len(live)].sp
  BY <1>1, <1>2, AtReturnParts
<1>4. Stacked(live') /\ Below(live', sp') /\ sp' \in 0 .. RamEnd
  BY <1>1, <1>2, <1>3, StackedPop
<1>5. Popped(live, live')
  <2>1. live[Len(live)].kind = "call"
    BY <1>2 DEF InFunction, Last
  <2>2. Len(live') = Len(live) - 1 /\ \A k \in 1 .. Len(live) - 1 : live'[k] = live[k]
    BY <1>1, <1>2, <1>3, FrontParts DEF Stacked
  <2> QED
    BY <2>1, <2>2 DEF Popped
<1>6. Matched(frames', live', disabled')
  BY <1>1, <1>2, <1>3, <1>5, MatchedPop
<1> QED
  BY <1>1, <1>2, <1>4, <1>6, NextInv DEF Alarms

(* A function that has taken some of its address puts a byte of it back.   *)
LEMMA PushInv ==
  ASSUME StackInv, Push
  PROVE  StackInv'
<1>1. /\ Stacked(live) /\ Below(live, sp) /\ Matched(frames, live, disabled)
      /\ live \in Seq(Addresses)
      /\ sp \in 0 .. RamEnd /\ disabled \in BOOLEAN
  BY DEF StackInv, TypeOK
<1>2. /\ sp > 0 /\ sp' = sp - 1 /\ frames' = frames
      /\ phase' = "check" /\ disabled' = disabled
      /\ live' = IF Untaken THEN live ELSE [live EXCEPT ![Len(live)].taken = @ - 1]
  BY DEF Push, Instruction
<1>3. sp' \in 0 .. RamEnd /\ sp' <= sp /\ sp' \in Int
  BY <1>1, <1>2, StackAssumption
<1>4. Written({sp})
  BY DEF Push
<1>5. Stacked(live') /\ Below(live', sp') /\ Matched(frames', live', disabled')
  <2>1. CASE Untaken
    BY <1>1, <1>2, <1>3, <2>1, BelowLower
  <2>2. CASE ~Untaken
    <3> DEFINE n == Len(live)
               t == live[n].taken - 1
    <3>1. n > 0 /\ n \in 1 .. n /\ live[n].taken # 0
      BY <1>1, <2>2, LenProperties, EmptySeq DEF Untaken, Last
    <3>2. /\ live[n].taken \in 0 .. AddressSize /\ live[n].taken \in Nat
          /\ live[n].sp \in Int /\ live[n].kind \in Kinds
      BY <1>1, <3>1, AddressParts
    <3>3. live[n].kind = "call"
      BY <1>1, <3>1, <3>2 DEF Stacked, Kinds
    <3>4. t \in 0 .. AddressSize /\ live[n].taken > 0
      BY <3>1, <3>2, StackAssumption
    <3>5. live' = Retaken(live, t)
      BY <1>2, <2>2 DEF Retaken
    <3>6. sp = live[n].sp + live[n].taken
      BY <1>1, <3>1 DEF Below
    <3>7. sp' = live[n].sp + t /\ (t = 0 => sp' <= live[n].sp)
      BY <1>2, <3>2, <3>6
    <3> HIDE DEF t
    <3>8. /\ Stacked(live') /\ Len(live') = n
          /\ \A k \in 1 .. n : SameCall(live'[k], live[k])
          /\ live'[n].taken = t
      BY <1>1, <3>1, <3>3, <3>4, <3>5, StackedTaken
    <3>9. Below(live', sp')
      BY <3>1, <3>7, <3>8 DEF Below, SameCall
    <3>10. n \in Nat \ {0} /\ (HasFrame(frames, live[n].sp) => disabled)
      BY <1>1, <3>1, <3>4, LenProperties DEF Matched
    <3>11. Matched(frames, live', disabled)
      BY <1>1, <3>8, <3>10, MatchedTaken
    <3> QED
      BY <1>2, <3>8, <3>9, <3>11
  <2> QED
    BY <2>1, <2>2
<1> QED
  BY <1>1, <1>2, <1>3, <1>4, <1>5, WrittenAlarms, NextInv

(* A function takes a byte of its address: if it has a frame, that is the  *)
(* last one, and the check is switched off.                                *)
LEMMA PopInv ==
  ASSUME StackInv, Pop
  PROVE  StackInv'
<1>1. /\ Stacked(live) /\ Below(live, sp) /\ Matched(frames, live, disabled)
      /\ live \in Seq(Addresses) /\ frames \in Seq(0 .. RamEnd)
      /\ sp \in 0 .. RamEnd /\ disabled \in BOOLEAN
      /\ do_reset \in BOOLEAN /\ hit \in BOOLEAN /\ smashed \in BOOLEAN
      /\ took \in BOOLEAN /\ Alarms
  BY DEF StackInv, TypeOK
<1>2. /\ sp < RamEnd /\ sp' = sp + 1 /\ frames' = frames
      /\ phase' = "check" /\ disabled' = (disabled \/ SwitchOff(sp + 1))
      /\ do_reset' = do_reset /\ hit' = hit /\ smashed' = smashed
      /\ took' = (took \/ Taking)
  BY DEF Pop, Instruction
<1>3. /\ Taking => InFunction /\ Last(live).taken < AddressSize
      /\ live' = IF Taking THEN [live EXCEPT ![Len(live)].taken = @ + 1] ELSE live
  BY DEF Pop
<1>4. sp' \in 0 .. RamEnd /\ disabled' \in BOOLEAN
  BY <1>1, <1>2, StackAssumption DEF SwitchOff
<1>5. Stacked(live') /\ Below(live', sp') /\ Matched(frames', live', disabled')
  <2> DEFINE n == Len(live)
             t == live[n].taken + 1
  <2>1. n \in Nat /\ (n > 0 <=> live # << >>) /\ (n > 0 => n \in 1 .. n)
    BY <1>1, LenProperties, EmptySeq
  <2>2. n > 0 => /\ live[n].taken \in 0 .. AddressSize /\ live[n].taken \in Nat
                 /\ live[n].sp \in Int /\ live[n].kind \in Kinds
    BY <1>1, <2>1, AddressParts
  <2>3. CASE ~Taking
    <3>1. n > 0 => sp < live[n].sp
      BY <1>1, <2>1, <2>2, <2>3 DEF Taking, Last
    <3>2. Below(live, sp')
      <4>1. n > 0 => IF live[n].taken = 0 THEN sp <= live[n].sp
                                          ELSE sp = live[n].sp + live[n].taken
        BY <1>1 DEF Below
      <4>2. n > 0 => live[n].taken = 0 /\ sp' <= live[n].sp
        BY <1>1, <1>2, <2>2, <3>1, <4>1
      <4> QED
        BY <4>2 DEF Below
    <3>3. Matched(frames, live, disabled')
      BY <1>1, <1>2 DEF Matched
    <3> QED
      BY <1>1, <1>2, <1>3, <2>3, <3>2, <3>3
  <2>4. CASE Taking
    <3>1. n > 0 /\ n \in 1 .. n /\ live[n].kind = "call" /\ live[n].taken < AddressSize
          /\ sp >= live[n].sp
      BY <1>3, <2>1, <2>4 DEF Taking, InFunction, Last
    <3>2. t \in 0 .. AddressSize /\ t > 0
      BY <2>2, <3>1, StackAssumption
    <3>3. live' = Retaken(live, t)
      BY <1>3, <2>4 DEF Retaken
    <3>4. sp = live[n].sp + live[n].taken
      <4>1. IF live[n].taken = 0 THEN sp <= live[n].sp ELSE sp = live[n].sp + live[n].taken
        BY <1>1, <3>1 DEF Below
      <4> QED
        BY <1>1, <2>2, <3>1, <4>1
    <3>5. sp' = live[n].sp + t
      BY <1>2, <2>2, <3>1, <3>4
    <3> HIDE DEF t
    <3>6. /\ Stacked(live') /\ Len(live') = n
          /\ \A k \in 1 .. n : SameCall(live'[k], live[k])
          /\ live'[n].taken = t
      BY <1>1, <3>1, <3>2, <3>3, StackedTaken
    <3>7. Below(live', sp')
      BY <3>1, <3>2, <3>5, <3>6 DEF Below, SameCall
    <3>8. HasFrame(frames, live[n].sp) => disabled'
      <4> SUFFICES ASSUME HasFrame(frames, live[n].sp)
                   PROVE  disabled'
        OBVIOUS
      <4>1. \A j \in 1 .. n : ~(j > n)
        BY <2>1
      <4>2. Len(frames) > 0 /\ frames[Len(frames)] = live[n].sp
        BY <1>1, <3>1, <4>1, FrameOfLastCall
      <4>3. frames # << >> /\ Last(frames) = live[n].sp
        BY <1>1, <4>2, EmptySeq DEF Last
      <4>4. sp + 1 \in live[n].sp + 1 .. live[n].sp + 1 + AddressSize
        BY <2>2, <3>1, <3>4, StackAssumption
      <4> QED
        BY <1>2, <4>3, <4>4 DEF SwitchOff
    <3>9. Matched(frames, live', disabled')
      BY <1>1, <2>1, <3>1, <3>6, <3>8, MatchedTaken
    <3> QED
      BY <1>2, <3>6, <3>7, <3>9
  <2> QED
    BY <2>3, <2>4
<1>6. disabled' => took'
  <2> SUFFICES ASSUME ~Taking, SwitchOff(sp + 1)
               PROVE  FALSE
    BY <1>1, <1>2 DEF Alarms
  <2>1. Len(frames) \in 1 .. Len(frames)
    BY <1>1, LenProperties, EmptySeq DEF SwitchOff
  <2>2. PICK k \in 1 .. Len(live) : live[k].sp = Last(frames)
    BY <1>1, <2>1 DEF Matched, Last
  <2>3. Len(live) \in 1 .. Len(live) /\ live # << >>
    BY <1>1, <2>2, LenProperties, EmptySeq
  <2>4. /\ live[k].sp \in Nat /\ live[Len(live)].sp \in Nat
        /\ live[Len(live)].sp <= live[k].sp
    BY <1>1, <2>3 DEF Stacked
  <2>5. sp < live[Len(live)].sp
    BY <1>1, <2>3, <2>4 DEF Taking, Last
  <2>6. sp + 1 >= Last(frames) + 1
    BY <1>1, <2>2, <2>4 DEF SwitchOff
  <2> QED
    BY <1>1, <2>2, <2>4, <2>5, <2>6
<1>7. took' \in BOOLEAN
  BY <1>1, <1>2 DEF Taking
<1> QED
  BY <1>1, <1>2, <1>4, <1>5, <1>6, <1>7, NextInv DEF Alarms

LEMMA ResetInv ==
  ASSUME AvrReset
  PROVE  StackInv'
<1>1. << >> \in Seq(Addresses) /\ << >> \in Seq(0 .. RamEnd) /\ Len(<< >>) = 0
  BY EmptySeq
<1>2. sp' \in 0 .. RamEnd
  BY StackAssumption DEF AvrReset
<1>3. Stacked(live') /\ Below(live', sp')
  BY <1>1 DEF AvrReset, Stacked, Below
<1>4. Matched(frames', live', disabled')
  BY <1>1 DEF AvrReset, Matched, HasFrame
<1> QED
  BY <1>2, <1>3, <1>4, NextInv DEF AvrReset

LEMMA NextStackInv ==
  StackInv /\ [Next]_vars => StackInv'
<1> SUFFICES ASSUME StackInv, [Next]_vars
             PROVE  StackInv'
  OBVIOUS
<1>1. ASSUME phase' \in {"run", "check", "between"},
             UNCHANGED <<sp, frames, disabled, do_reset, live, history>>
      PROVE  StackInv'
  <2>1. /\ Stacked(live) /\ Below(live, sp) /\ Matched(frames, live, disabled)
        /\ sp \in 0 .. RamEnd /\ disabled \in BOOLEAN
        /\ do_reset \in BOOLEAN /\ hit \in BOOLEAN /\ smashed \in BOOLEAN
      /\ took \in BOOLEAN /\ Alarms
    BY DEF StackInv, TypeOK
  <2> QED
    BY <1>1, <2>1, NextInv DEF Alarms, history
<1>2. CASE UNCHANGED vars
  BY <1>1, <1>2 DEF vars, StackInv, TypeOK
<1>3. CASE EndInstruction \/ NoInterrupt
  BY <1>1, <1>3 DEF EndInstruction, NoInterrupt
<1>4. CASE FuzzReset \/ DoReset
  BY <1>4, ResetInv DEF FuzzReset, DoReset
<1>5. CASE \E n \in -MaxLocals .. MaxLocals : MoveSP(n)
  BY <1>5, MoveSPInv
<1>6. CASE \E addr \in 1 .. RamEnd : Store(addr)
  BY <1>6, StoreInv
<1>7. CASE Call
  BY <1>7, CallInv
<1>8. CASE MakeRoom
  BY <1>8, MakeRoomInv
<1>9. CASE Ret
  BY <1>9, RetInv
<1>10. CASE Reti
  BY <1>10, RetiInv
<1>11. CASE Push
  BY <1>11, PushInv
<1>12. CASE Pop
  BY <1>12, PopInv
<1>13. CASE RunReturn
  BY <1>13, RunReturnInv
<1>14. CASE Interrupt
  BY <1>14, InterruptInv
<1> QED
  BY <1>2, <1>3, <1>4, <1>5, <1>6, <1>7, <1>8, <1>9, <1>10, <1>11, <1>12, <1>13,
     <1>14 DEF Next

LEMMA AlwaysStackInv ==
  Spec => []StackInv
<1> QED
  BY InitInv, NextStackInv, PTL DEF Spec

-----------------------------------------------------------------------------
(* The stack pointer stays in the RAM, and every frame and return address  *)
(* with it, for every depth of calls and size of addresses (avr_reset,     *)
(* _avr_push_addr).                                                        *)
THEOREM StackTyped ==
  Spec => []TypeOK
<1>1. StackInv => TypeOK
  BY DEF StackInv
<1> QED
  BY <1>1, AlwaysStackInv, PTL

(* Every open call has its frame, in order, unless a RETI has been executed *)
(* above it (STACK_FRAME_PUSH, STACK_FRAME_POP), and no frame outlives its  *)
(* call, whatever interrupts pop (RETI, run_return_instruction, avr_reset). *)
THEOREM FramesRecordCalls ==
  Spec => []FramesGuardCalls
<1>1. StackInv => CallsFramed
  <2> SUFFICES ASSUME StackInv
               PROVE  CallsFramed
    OBVIOUS
  <2>1. Matched(frames, live, disabled)
    BY DEF StackInv
  <2>2. \A j, k \in 1 .. Len(frames) : j < k => frames[k] < frames[j]
    BY <2>1 DEF Matched
  <2>3. ASSUME NEW e \in Guarded
        PROVE  e.sp \in Entries(frames)
    <3>1. PICK k \in 1 .. Len(live) :
            live[k] = e /\ live[k].kind = "call" /\ ~live[k].exposed
      BY DEF Guarded, Entries
    <3>2. HasFrame(frames, live[k].sp)
      BY <2>1, <3>1 DEF Matched
    <3> QED
      BY <3>1, <3>2 DEF HasFrame, Entries
  <2> QED
    BY <2>2, <2>3 DEF CallsFramed
<1>2. StackInv => FramesLive
  BY DEF StackInv, Matched, FramesLive, Entries
<1>3. StackInv => FramesGuardCalls
  BY <1>1, <1>2 DEF FramesGuardCalls
<1> QED
  BY <1>3, AlwaysStackInv, PTL

(* Every report of a smashed stack is of a return address in use           *)
(* (avr_core_watch_write and the switch of POP).                           *)
THEOREM NoFalseAlarm ==
  Spec => []AlarmsReal
<1>1. StackInv => AlarmsReal
  BY DEF StackInv, Alarms, AlarmsReal
<1> QED
  BY <1>1, AlwaysStackInv, PTL

(* The return address of a call above which no RETI was executed is not    *)
(* overwritten unreported, unless some function has popped of its own      *)
(* address since the last RET or RETI (avr_core_watch_write, POP).         *)
THEOREM SmashReported ==
  Spec => []SmashCaught
<1>1. StackInv => SmashCaught
  BY DEF StackInv, Alarms, SmashCaught
<1> QED
  BY <1>1, AlwaysStackInv, PTL
=============================================================================
