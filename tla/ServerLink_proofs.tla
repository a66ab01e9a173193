------------------------- MODULE ServerLink_proofs -------------------------
(***************************************************************************)
(* Theorems about ServerLink, for every value of its constants: above all  *)
(* that the framed stream implements MessageLog.                           *)
(***************************************************************************)
EXTENDS ServerLink, SequenceTheorems, TLAPS

Pairs == Nat \X Nat

(* Both programs count the same fields.                                    *)
LEMMA SizeFacts ==
  ASSUME NEW m \in Messages
  PROVE  /\ BodySize(m) \in Nat \ {0}
         /\ DeclaredSize(m) = BodySize(m)
         /\ Fields(m) = 2 + BodySize(m)
<1>1. m.input \in Nat /\ m.frames \in Nat
  BY LinkAssumption
     DEF Messages, Target, None, Coverages, Crashes, Stats, Message
<1>2. /\ Len(<<"ids and length">>) = 1 /\ Len(<<"number of frames">>) = 1
      /\ Len(<<"pc">>) = 1 /\ Len(<<"edge and length">>) = 1
      /\ Len(<<"path or counters">>) = 1
  OBVIOUS
<1>3. BodySize(m) = CASE m.kind = "crash" -> 1 + m.input + 1 + m.frames + 1
                      [] m.kind = "coverage" -> 1 + m.input
                      [] OTHER -> 1
  BY <1>2 DEF BodySize
<1>4. CASE m.kind = "crash"
  <2>1. BodySize(m) = 1 + m.input + 1 + m.frames + 1
    BY <1>3, <1>4
  <2>2. DeclaredSize(m) = 1 + m.input + 1 + (m.frames + 1)
    BY <1>4 DEF DeclaredSize
  <2> QED
    BY <1>1, <2>1, <2>2 DEF Fields
<1>5. CASE m.kind = "coverage"
  <2>1. BodySize(m) = 1 + m.input
    BY <1>3, <1>5
  <2>2. DeclaredSize(m) = 1 + m.input
    BY <1>5 DEF DeclaredSize
  <2> QED
    BY <1>1, <2>1, <2>2 DEF Fields
<1>6. CASE m.kind # "crash" /\ m.kind # "coverage"
  <2>1. BodySize(m) = 1 /\ DeclaredSize(m) = 1
    BY <1>3, <1>6 DEF DeclaredSize
  <2> QED
    BY <2>1 DEF Fields
<1> QED
  BY <1>4, <1>5, <1>6

-----------------------------------------------------------------------------
LEMMA Regroup ==
  \A r, s, t \in Seq(Pairs) : (r \o s) \o t = r \o (s \o t)
<1> SUFFICES ASSUME NEW r \in Seq(Pairs), NEW s \in Seq(Pairs), NEW t \in Seq(Pairs)
             PROVE  (r \o s) \o t = r \o (s \o t)
  OBVIOUS
<1> QED
  BY ConcatAssociative

(* Moving fields from one buffer to the next does not change the stream.   *)
LEMMA CutInTwo ==
  ASSUME NEW w \in Seq(Pairs), NEW n \in 1 .. Len(w),
         NEW a, a = SubSeq(w, 1, n), NEW b, b = SubSeq(w, n + 1, Len(w))
  PROVE  a \in Seq(Pairs) /\ b \in Seq(Pairs) /\ a \o b = w
<1>0. Len(w) \in Nat /\ \A i \in 1 .. Len(w) : w[i] \in Pairs
  BY LenProperties, ElementOfSeq
<1>1. a \in Seq(Pairs) /\ b \in Seq(Pairs)
  <2>1. (\A i \in 1 .. n : w[i] \in Pairs) /\ (\A i \in n + 1 .. Len(w) : w[i] \in Pairs)
    BY <1>0
  <2>2. n \in Int /\ n + 1 \in Int /\ Len(w) \in Int /\ 1 \in Int
    BY <1>0
  <2> QED
    BY <2>1, <2>2, SubSeqProperties
<1>2. a \o b = w
  <2>1. /\ 1 \in 1 .. Len(w) + 1 /\ n \in 1 - 1 .. Len(w) /\ Len(w) \in n .. Len(w)
    BY <1>0
  <2>2. a \o b = SubSeq(w, 1, Len(w))
    BY <2>1, ConcatAdjacentSubSeq
  <2> QED
    BY <2>2, SubSeqFull
<1> QED
  BY <1>1, <1>2

(* t is what is left of s after its first n fields.                        *)
Leaves(s, n, t) ==
  /\ n \in 0 .. Len(s) /\ t \in Seq(Pairs) /\ Len(t) = Len(s) - n
  /\ \A i \in 1 .. Len(t) : t[i] = s[n + i]

(* Taking fields out of the parser's buffer takes them off the stream.     *)
LEMMA TakeFromBuffer ==
  ASSUME NEW r \in Seq(Pairs), NEW p \in Seq(Pairs), NEW w \in Seq(Pairs),
         NEW n \in 0 .. Len(r)
  PROVE  /\ Leaves(r \o p \o w, n, SubSeq(r, n + 1, Len(r)) \o p \o w)
         /\ SubSeq(r, n + 1, Len(r)) \in Seq(Pairs)
         /\ \A i \in 1 .. Len(r) : (r \o p \o w)[i] = r[i]
         /\ Len(r \o p \o w) \in Nat /\ Len(r \o p \o w) >= Len(r)
<1> DEFINE q == SubSeq(r, n + 1, Len(r))
           v == p \o w
<1>0. Len(r) \in Nat /\ \A i \in 1 .. Len(r) : r[i] \in Pairs
  BY LenProperties, ElementOfSeq
<1>1. q \in Seq(Pairs) /\ Len(q) = Len(r) - n /\ \A i \in 1 .. Len(q) : q[i] = r[n + i]
  <2>1. (\A i \in n + 1 .. Len(r) : r[i] \in Pairs) /\ n + 1 \in Int /\ Len(r) \in Int
    BY <1>0
  <2>2. /\ q \in Seq(Pairs)
        /\ Len(q) = IF n + 1 <= Len(r) THEN Len(r) - (n + 1) + 1 ELSE 0
        /\ \A i \in 1 .. Len(r) - (n + 1) + 1 : q[i] = r[(n + 1) + i - 1]
    BY <2>1, SubSeqProperties
  <2>3. Len(q) = Len(r) - n /\ Len(r) - (n + 1) + 1 = Len(r) - n
    BY <1>0, <2>2
  <2>4. \A i \in Int : (n + 1) + i - 1 = n + i
    BY <1>0
  <2>5. \A i \in 1 .. Len(r) - n : i \in Int
    BY <1>0
  <2> HIDE DEF q
  <2> QED
    BY <2>2, <2>3, <2>4, <2>5
<1>2. v \in Seq(Pairs) /\ Len(v) \in Nat
  BY ConcatProperties, LenProperties
<1>3. r \o p \o w = r \o v /\ q \o p \o w = q \o v
  BY <1>1, Regroup
<1> HIDE DEF q, v
<1>4. /\ Len(r \o v) = Len(r) + Len(v)
      /\ \A i \in 1 .. Len(r) + Len(v) :
           (r \o v)[i] = IF i <= Len(r) THEN r[i] ELSE v[i - Len(r)]
  BY <1>2, ConcatProperties
<1>5. /\ q \o v \in Seq(Pairs) /\ Len(q \o v) = Len(q) + Len(v)
      /\ \A i \in 1 .. Len(q) + Len(v) :
           (q \o v)[i] = IF i <= Len(q) THEN q[i] ELSE v[i - Len(q)]
  BY <1>1, <1>2, ConcatProperties
<1>6. ASSUME NEW i \in 1 .. Len(q \o v) PROVE (q \o v)[i] = (r \o v)[n + i]
  <2>1. n + i \in 1 .. Len(r) + Len(v) /\ i \in 1 .. Len(q) + Len(v)
    BY <1>0, <1>1, <1>2, <1>5
  <2>2. CASE i <= Len(q)
    <3>1. n + i <= Len(r) /\ i \in 1 .. Len(q)
      BY <1>0, <1>1, <2>1, <2>2
    <3> QED
      BY <1>1, <1>4, <1>5, <2>1, <2>2, <3>1
  <2>3. CASE ~(i <= Len(q))
    <3>1. ~(n + i <= Len(r)) /\ (n + i) - Len(r) = i - Len(q)
      BY <1>0, <1>1, <2>1, <2>3
    <3> QED
      BY <1>4, <1>5, <2>1, <2>3, <3>1
  <2> QED
    BY <2>2, <2>3
<1>7. Leaves(r \o v, n, q \o v)
  <2>1. n \in 0 .. Len(r \o v) /\ Len(q \o v) = Len(r \o v) - n
    BY <1>0, <1>1, <1>2, <1>4, <1>5
  <2> QED
    BY <1>5, <1>6, <2>1 DEF Leaves
<1>8. \A i \in 1 .. Len(r) : (r \o v)[i] = r[i]
  BY <1>0, <1>2, <1>4
<1>9. Len(r \o v) \in Nat /\ Len(r \o v) >= Len(r)
  BY <1>0, <1>2, <1>4
<1>10. /\ Leaves(r \o p \o w, n, q \o p \o w)
       /\ \A i \in 1 .. Len(r) : (r \o p \o w)[i] = r[i]
       /\ Len(r \o p \o w) \in Nat /\ Len(r \o p \o w) >= Len(r)
  BY <1>3, <1>7, <1>8, <1>9
<1> QED
  BY <1>1, <1>10 DEF q

-----------------------------------------------------------------------------
(* Of a stream s, the messages ms whose transmission has begun, the place  *)
(* t of the torn one among them and the next field f of the last of them:  *)
(* s consists of fields of these messages;                                 *)
Before(k, t) == t = 0 \/ k < t

FieldsSent(s, ms) ==
  \A i \in 1 .. Len(s) : /\ s[i][1] \in 1 .. Len(ms)
                         /\ s[i][2] \in 1 .. Fields(ms[s[i][1]])

(* behind a field of a whole message comes the rest of it, then the next;  *)
InOrder(s, ms, t) ==
  \A i \in 1 .. Len(s) : Before(s[i][1], t) =>
    \A d \in 1 .. Len(s) - i :
      /\ s[i][2] + d <= Fields(ms[s[i][1]]) => s[i + d] = <<s[i][1], s[i][2] + d>>
      /\ s[i][2] + d = Fields(ms[s[i][1]]) + 1 => s[i + d] = <<s[i][1] + 1, 1>>

(* and the sender goes on where the stream ends.                           *)
UpTo(s, ms, t, f) ==
  \A i \in 1 .. Len(s) : Before(s[i][1], t) =>
    LET d == Len(s) + 1 - i
    IN  /\ s[i][2] + d <= Fields(ms[s[i][1]]) => s[i][1] = Len(ms) /\ f = s[i][2] + d
        /\ s[i][2] + d = Fields(ms[s[i][1]]) + 1 => s[i][1] = Len(ms) /\ f = 1

LEMMA FieldsAreNumbers ==
  ASSUME NEW ms \in Seq(Messages), NEW k \in 1 .. Len(ms)
  PROVE  ms[k] \in Messages /\ Fields(ms[k]) \in Nat /\ Fields(ms[k]) >= 3
<1>1. ms[k] \in Messages
  BY ElementOfSeq
<1> QED
  BY <1>1, SizeFacts

(* A stream whose first fields are taken away stays in order.              *)
LEMMA ShorterStream ==
  ASSUME NEW s \in Seq(Pairs), NEW ms, NEW k, NEW f, NEW n, NEW t,
         Leaves(s, n, t), FieldsSent(s, ms), InOrder(s, ms, k)
  PROVE  /\ FieldsSent(t, ms) /\ InOrder(t, ms, k)
         /\ UpTo(s, ms, k, f) => UpTo(t, ms, k, f)
<1>1. /\ Len(s) \in Nat /\ n \in 0 .. Len(s) /\ Len(t) = Len(s) - n
      /\ \A i \in 1 .. Len(t) : t[i] = s[n + i]
  BY LenProperties DEF Leaves
<1>2. \A i \in 1 .. Len(t) : i \in Int /\ n + i \in 1 .. Len(s)
  BY <1>1
<1>3. FieldsSent(t, ms)
  BY <1>1, <1>2 DEF FieldsSent
<1>4. ASSUME NEW i \in 1 .. Len(t), Before(t[i][1], k), NEW d \in 1 .. Len(t) - i
      PROVE  /\ t[i][2] + d <= Fields(ms[t[i][1]]) => t[i + d] = <<t[i][1], t[i][2] + d>>
             /\ t[i][2] + d = Fields(ms[t[i][1]]) + 1 => t[i + d] = <<t[i][1] + 1, 1>>
  <2>1. /\ d \in 1 .. Len(s) - (n + i) /\ i + d \in 1 .. Len(t)
        /\ n + (i + d) = (n + i) + d
    BY <1>1, <1>2
  <2>2. t[i + d] = s[(n + i) + d] /\ t[i] = s[n + i]
    BY <1>1, <2>1
  <2> QED
    BY <1>2, <1>4, <2>1, <2>2 DEF InOrder
<1>5. ASSUME UpTo(s, ms, k, f), NEW i \in 1 .. Len(t), Before(t[i][1], k)
      PROVE  LET d == Len(t) + 1 - i
             IN  /\ t[i][2] + d <= Fields(ms[t[i][1]])
                      => t[i][1] = Len(ms) /\ f = t[i][2] + d
                 /\ t[i][2] + d = Fields(ms[t[i][1]]) + 1 => t[i][1] = Len(ms) /\ f = 1
  <2>1. Len(t) + 1 - i = Len(s) + 1 - (n + i) /\ t[i] = s[n + i]
    BY <1>1, <1>2
  <2> QED
    BY <1>2, <1>5, <2>1 DEF UpTo
<1>6. InOrder(t, ms, k)
  BY <1>4 DEF InOrder
<1>7. UpTo(s, ms, k, f) => UpTo(t, ms, k, f)
  BY <1>5 DEF UpTo
<1> QED
  BY <1>3, <1>6, <1>7

(* The sender adds field f of m to s: what follows is ms2, s2 and f2.      *)
Adds(s, ms, k, m, f, ms2, s2, f2) ==
  /\ s \in Seq(Pairs) /\ ms \in Seq(Messages) /\ k \in 0 .. Len(ms)
  /\ m \in Messages /\ f \in 1 .. Fields(m)
  /\ f > 1 => ms # << >> /\ m = ms[Len(ms)]
  /\ FieldsSent(s, ms) /\ InOrder(s, ms, k) /\ UpTo(s, ms, k, f)
  /\ ms2 = (IF f = 1 THEN Append(ms, m) ELSE ms)
  /\ s2 = Append(s, <<Len(ms2), f>>)
  /\ f2 = (IF f = Fields(m) THEN 1 ELSE f + 1)

Added(s, ms, k, m, f, ms2, s2, f2) ==
  /\ ms2 \in Seq(Messages) /\ ms2 # << >> /\ ms2[Len(ms2)] = m
  /\ Len(ms2) = Len(ms) + IF f = 1 THEN 1 ELSE 0
  /\ \A i \in 1 .. Len(ms) : ms2[i] = ms[i]
  /\ s2 \in Seq(Pairs) /\ Len(s2) = Len(s) + 1
  /\ s2[1] = IF Len(s) = 0 THEN <<Len(ms2), f>> ELSE s[1]
  /\ FieldsSent(s2, ms2) /\ InOrder(s2, ms2, k) /\ UpTo(s2, ms2, k, f2)

(* The longer stream is in order, too.                                     *)
LEMMA LongerStream ==
  ASSUME NEW s, NEW ms, NEW k, NEW m, NEW f, NEW ms2, NEW s2, NEW f2,
         Adds(s, ms, k, m, f, ms2, s2, f2)
  PROVE  Added(s, ms, k, m, f, ms2, s2, f2)
<1>0. /\ s \in Seq(Pairs) /\ ms \in Seq(Messages) /\ k \in 0 .. Len(ms)
      /\ m \in Messages /\ f \in 1 .. Fields(m)
      /\ f > 1 => ms # << >> /\ m = ms[Len(ms)]
      /\ FieldsSent(s, ms) /\ InOrder(s, ms, k) /\ UpTo(s, ms, k, f)
      /\ ms2 = (IF f = 1 THEN Append(ms, m) ELSE ms)
      /\ s2 = Append(s, <<Len(ms2), f>>)
      /\ f2 = (IF f = Fields(m) THEN 1 ELSE f + 1)
  BY DEF Adds
<1>1. Len(s) \in Nat /\ Len(ms) \in Nat /\ Fields(m) \in Nat /\ f \in Nat
  BY <1>0, LenProperties, SizeFacts
<1>2. /\ ms2 \in Seq(Messages) /\ ms2 # << >> /\ ms2[Len(ms2)] = m
      /\ Len(ms2) = Len(ms) + IF f = 1 THEN 1 ELSE 0
      /\ Len(ms2) \in Nat \ {0}
      /\ \A i \in 1 .. Len(ms) : ms2[i] = ms[i]
  <2>1. CASE f = 1
    <3>1. ms2 = Append(ms, m)
      BY <1>0, <2>1
    <3>2. /\ ms2 \in Seq(Messages) /\ ms2 # << >> /\ Len(ms2) = Len(ms) + 1
          /\ \A i \in 1 .. Len(ms) : ms2[i] = ms[i]
          /\ ms2[Len(ms) + 1] = m
      BY <1>0, <3>1, AppendProperties
    <3> QED
      BY <1>0, <1>1, <2>1, <3>2
  <2>2. CASE f # 1
    <3>1. ms2 = ms /\ f > 1
      BY <1>0, <1>1, <2>2
    <3>2. Len(ms) # 0
      BY <1>0, <3>1, EmptySeq
    <3> QED
      BY <1>0, <1>1, <2>2, <3>1, <3>2
  <2> QED
    BY <1>0, <2>1, <2>2
<1>3. /\ s2 \in Seq(Pairs) /\ Len(s2) = Len(s) + 1
      /\ \A i \in 1 .. Len(s) : s2[i] = s[i]
      /\ s2[Len(s) + 1] = <<Len(ms2), f>>
  <2>1. <<Len(ms2), f>> \in Pairs
    BY <1>0, <1>1, <1>2 DEF Pairs
  <2> QED
    BY <1>0, <2>1, AppendProperties
<1>4. \A i \in 1 .. Len(s) :
        /\ s[i][1] \in 1 .. Len(ms) /\ s[i][2] \in 1 .. Fields(ms[s[i][1]])
        /\ ms2[s[i][1]] = ms[s[i][1]]
        /\ Fields(ms[s[i][1]]) \in Nat
  BY <1>0, <1>2, FieldsAreNumbers DEF FieldsSent
<1>5. FieldsSent(s2, ms2)
  <2> SUFFICES ASSUME NEW i \in 1 .. Len(s2)
               PROVE  s2[i][1] \in 1 .. Len(ms2) /\ s2[i][2] \in 1 .. Fields(ms2[s2[i][1]])
    BY <1>0 DEF FieldsSent
  <2>1. CASE i \in 1 .. Len(s)
    BY <1>0, <1>1, <1>2, <1>3, <1>4, <2>1
  <2>2. CASE i = Len(s) + 1
    <3>1. s2[i] = <<Len(ms2), f>>
      BY <1>0, <1>3, <2>2
    <3>2. s2[i][1] = Len(ms2) /\ s2[i][2] = f
      BY <1>0, <3>1
    <3> QED
      BY <1>0, <1>2, <3>2
  <2> QED
    BY <1>0, <1>1, <1>3, <2>1, <2>2
(* What UpTo says of a field already there.                                *)
<1>6. ASSUME NEW i \in 1 .. Len(s), Before(s[i][1], k)
      PROVE  /\ s[i][2] + (Len(s) + 1 - i) <= Fields(ms[s[i][1]])
                  => /\ s[i][1] = Len(ms) /\ f = s[i][2] + (Len(s) + 1 - i)
                     /\ f > 1 /\ ms2 = ms /\ m = ms[s[i][1]]
             /\ s[i][2] + (Len(s) + 1 - i) = Fields(ms[s[i][1]]) + 1
                  => s[i][1] = Len(ms) /\ f = 1
  <2>1. /\ s[i][2] + (Len(s) + 1 - i) <= Fields(ms[s[i][1]])
             => s[i][1] = Len(ms) /\ f = s[i][2] + (Len(s) + 1 - i)
        /\ s[i][2] + (Len(s) + 1 - i) = Fields(ms[s[i][1]]) + 1
             => s[i][1] = Len(ms) /\ f = 1
    BY <1>0, <1>6 DEF UpTo
  <2>2. Len(s) + 1 - i >= 1 /\ s[i][2] >= 1 /\ s[i][2] \in Int /\ i \in Int
    BY <1>0, <1>1, <1>4
  <2>3. f = s[i][2] + (Len(s) + 1 - i) => f > 1
    BY <1>0, <1>1, <2>2
  <2>4. f > 1 => ms2 = ms /\ m = ms[Len(ms)]
    BY <1>0, <1>1
  <2> QED
    BY <1>0, <2>1, <2>3, <2>4
<1>7. InOrder(s2, ms2, k)
  <2> SUFFICES ASSUME NEW i \in 1 .. Len(s2), Before(s2[i][1], k),
                      NEW d \in 1 .. Len(s2) - i
               PROVE  /\ s2[i][2] + d <= Fields(ms2[s2[i][1]])
                           => s2[i + d] = <<s2[i][1], s2[i][2] + d>>
                      /\ s2[i][2] + d = Fields(ms2[s2[i][1]]) + 1
                           => s2[i + d] = <<s2[i][1] + 1, 1>>
    BY <1>0 DEF InOrder
  <2>1. i \in 1 .. Len(s) /\ i + d \in 1 .. Len(s) + 1
    BY <1>0, <1>1, <1>3
  <2>2. s2[i] = s[i] /\ ms2[s[i][1]] = ms[s[i][1]]
    BY <1>0, <1>3, <1>4, <2>1
  <2>3. CASE i + d \in 1 .. Len(s)
    <3>1. d \in 1 .. Len(s) - i /\ s2[i + d] = s[i + d]
      BY <1>0, <1>1, <1>3, <2>1, <2>3
    <3> QED
      BY <1>0, <2>1, <2>2, <3>1 DEF InOrder
  <2>4. CASE i + d = Len(s) + 1
    <3>1. d = Len(s) + 1 - i /\ s2[i + d] = <<Len(ms2), f>>
      BY <1>0, <1>1, <1>3, <2>1, <2>4
    <3>2. /\ s[i][2] + d <= Fields(ms[s[i][1]])
               => s[i][1] = Len(ms) /\ f = s[i][2] + d /\ ms2 = ms
          /\ s[i][2] + d = Fields(ms[s[i][1]]) + 1 => s[i][1] = Len(ms) /\ f = 1
      BY <1>0, <1>6, <2>1, <2>2, <3>1
    <3>3. f = 1 => Len(ms2) = Len(ms) + 1
      BY <1>0, <1>2
    <3> QED
      BY <1>0, <2>2, <3>1, <3>2, <3>3
  <2>5. \A x \in 1 .. Len(s) + 1 : x \in 1 .. Len(s) \/ x = Len(s) + 1
    BY <1>1
  <2>6. i + d \in 1 .. Len(s) \/ i + d = Len(s) + 1
    BY <1>0, <2>1, <2>5, Zenon
  <2> QED
    BY <1>0, <2>3, <2>4, <2>6, Zenon
<1>8. UpTo(s2, ms2, k, f2)
  <2> SUFFICES ASSUME NEW i \in 1 .. Len(s2), Before(s2[i][1], k)
               PROVE  LET d == Len(s2) + 1 - i
                      IN  /\ s2[i][2] + d <= Fields(ms2[s2[i][1]])
                               => s2[i][1] = Len(ms2) /\ f2 = s2[i][2] + d
                          /\ s2[i][2] + d = Fields(ms2[s2[i][1]]) + 1
                               => s2[i][1] = Len(ms2) /\ f2 = 1
    BY <1>0 DEF UpTo
  <2>1. CASE i \in 1 .. Len(s)
    <3> DEFINE d == Len(s) + 1 - i
               j == s[i][2]
               z == Fields(ms[s[i][1]])
    <3>1. s2[i] = s[i] /\ ms2[s[i][1]] = ms[s[i][1]]
      BY <1>0, <1>3, <1>4, <2>1
    <3>2. Len(s2) + 1 - i = d + 1 /\ d \in Int /\ j \in Int /\ z \in Int
      BY <1>0, <1>1, <1>3, <1>4, <2>1
    <3>3. j + d <= z => /\ s[i][1] = Len(ms2) /\ f = j + d /\ z = Fields(m)
      BY <1>0, <1>6, <2>1, <3>1
    <3> HIDE DEF d, j, z
    <3>4. j + (d + 1) <= z => s[i][1] = Len(ms2) /\ f2 = j + (d + 1)
      BY <1>0, <3>2, <3>3
    <3>5. j + (d + 1) = z + 1 => s[i][1] = Len(ms2) /\ f2 = 1
      BY <1>0, <3>2, <3>3
    <3> QED
      BY <1>0, <3>1, <3>2, <3>4, <3>5 DEF j, z
  <2>2. CASE i = Len(s) + 1
    <3>1. s2[i] = <<Len(ms2), f>> /\ Len(s2) + 1 - i = 1
      BY <1>0, <1>1, <1>3, <2>2
    <3>2. s2[i][1] = Len(ms2) /\ s2[i][2] = f /\ ms2[s2[i][1]] = m
      BY <1>0, <1>2, <3>1
    <3>3. /\ f + 1 <= Fields(m) => f2 = f + 1
          /\ f + 1 = Fields(m) + 1 => f2 = 1
      BY <1>0, <1>1
    <3> QED
      BY <1>0, <3>1, <3>2, <3>3
  <2>3. i \in 1 .. Len(s) \/ i = Len(s) + 1
    BY <1>0, <1>1, <1>3
  <2> QED
    BY <1>0, <2>1, <2>2, <2>3, Zenon
<1>9. s2[1] = IF Len(s) = 0 THEN <<Len(ms2), f>> ELSE s[1]
  BY <1>0, <1>1, <1>3
<1> QED
  BY <1>2, <1>3, <1>5, <1>7, <1>8, <1>9 DEF Added

(* What lies before a torn message stays in order, and the sender is past  *)
(* it.                                                                     *)
LEMMA TornStream ==
  ASSUME NEW s \in Seq(Pairs), NEW ms \in Seq(Messages), NEW k, NEW f,
         FieldsSent(s, ms), InOrder(s, ms, k), UpTo(s, ms, k, f),
         NEW t \in 1 .. Len(ms), k = 0 \/ k = t
  PROVE  InOrder(s, ms, t) /\ UpTo(s, ms, t, 1)
<1>1. Len(ms) \in Nat /\ \A i \in 1 .. Len(s) : s[i][1] \in 1 .. Len(ms)
  BY LenProperties DEF FieldsSent
<1>2. \A i \in 1 .. Len(s) :
        Before(s[i][1], t) => Before(s[i][1], k) /\ s[i][1] # Len(ms)
  BY <1>1 DEF Before
<1>3. InOrder(s, ms, t)
  BY <1>2 DEF InOrder
<1>4. UpTo(s, ms, t, 1)
  BY <1>2 DEF UpTo
<1> QED
  BY <1>3, <1>4

-----------------------------------------------------------------------------
(* The fields on their way, from what the parser reads next to what the    *)
(* sender has put in last.                                                 *)
Stream == recv_buffer \o client_packages \o wire

Sends == emulator = "running" /\ connected

SenderPlace == IF field = 1 THEN <<Len(sent) + 1, 1>> ELSE <<Len(sent), field>>

(* The first field the parser has not used, if it is in step.              *)
Place == <<Len(filed) + 1, IF waiting_for = "header" THEN 1 ELSE 3>>

StreamInv ==
  /\ FieldsSent(Stream, sent)
  /\ InOrder(Stream, sent, torn)
  /\ Sends => UpTo(Stream, sent, torn, field)

(* A parser that lives is in step up to the torn message: it reads the     *)
(* message that is due, and knows its size once it has the header.         *)
InStep ==
  parser = "alive" /\ Before(Len(filed) + 1, torn) =>
    /\ waiting_for = "body" =>
         header = Len(filed) + 1 /\ wait_for_num_bytes = BodySize(sent[header])
    /\ Len(Stream) > 0 => Stream[1] = Place
    /\ Len(Stream) = 0 /\ Sends => SenderPlace = Place

HeaderWait == waiting_for = "header" => wait_for_num_bytes = 2

(* In the middle of a message the sender still has it.                     *)
SenderInv ==
  /\ field > 1 => sent # << >> /\ sending # None /\ sending = sent[Len(sent)]
  /\ ~Sends => field = 1 /\ sending = None

(* A message that is not all sent is not filed.                            *)
Behind == torn = 0 => Len(filed) + (IF field > 1 THEN 1 ELSE 0) <= Len(sent)

LinkInv == LinkTypeOK /\ StreamInv /\ InStep /\ HeaderWait /\ SenderInv /\ Behind

LEMMA LinkTypes ==
  ASSUME LinkTypeOK
  PROVE  /\ recv_buffer \in Seq(Pairs) /\ client_packages \in Seq(Pairs)
         /\ wire \in Seq(Pairs) /\ Stream \in Seq(Pairs)
         /\ Len(Stream) \in Nat /\ Len(recv_buffer) \in Nat
         /\ Len(sent) \in Nat /\ Len(filed) \in Nat /\ torn \in 0 .. Len(sent)
         /\ Fields(sending) \in Nat /\ field \in Nat \ {0}
<1>1. /\ recv_buffer \in Seq(Pairs) /\ client_packages \in Seq(Pairs)
      /\ wire \in Seq(Pairs)
  BY DEF LinkTypeOK, Pairs
<1>2. recv_buffer \o client_packages \in Seq(Pairs)
  BY <1>1, ConcatProperties
<1>3. Stream \in Seq(Pairs)
  BY <1>1, <1>2, ConcatProperties DEF Stream
<1>4. sending \in Messages /\ field \in 1 .. Fields(sending)
  BY DEF LinkTypeOK
<1>5. Fields(sending) \in Nat
  BY <1>4, SizeFacts
<1>6. Len(Stream) \in Nat /\ Len(recv_buffer) \in Nat
  BY <1>1, <1>3, LenProperties
<1>7. Len(sent) \in Nat /\ Len(filed) \in Nat /\ torn \in 0 .. Len(sent)
  BY LenProperties DEF LinkTypeOK
<1> QED
  BY <1>1, <1>3, <1>4, <1>5, <1>6, <1>7

(* Steps that leave the stream and what is read of it alone.               *)
LEMMA StreamKept ==
  ASSUME LinkInv, LinkTypeOK', SenderInv', Stream' = Stream,
         UNCHANGED <<sent, torn, filed, waiting_for, wait_for_num_bytes, header>>,
         parser' = "alive" => parser = "alive",
         Sends' => Sends /\ field' = field, field' = field \/ field' = 1
  PROVE  LinkInv'
<1>1. StreamInv'
  <2>1. FieldsSent(Stream', sent') /\ InOrder(Stream', sent', torn')
    BY DEF LinkInv, StreamInv
  <2>2. Sends' => UpTo(Stream', sent', torn', field')
    BY DEF LinkInv, StreamInv
  <2> QED
    BY <2>1, <2>2 DEF StreamInv
<1>2. Place' = Place /\ (field' = field => SenderPlace' = SenderPlace)
  BY DEF Place, SenderPlace
<1>3. InStep'
  BY <1>2 DEF LinkInv, InStep
<1>4. HeaderWait' /\ Behind'
  BY LinkTypes DEF LinkInv, HeaderWait, Behind
<1> QED
  BY <1>1, <1>3, <1>4 DEF LinkInv

-----------------------------------------------------------------------------
(* One lemma for each action: it preserves LinkInv, and is a step of the   *)
(* log or leaves the log alone.                                            *)
LogUnchanged == UNCHANGED <<sent, filed, torn>>
LogStep == Log!Next \/ LogUnchanged

LEMMA MessageKinds ==
  /\ None \in Messages /\ Fields(None) \in Nat \ {0}
  /\ {Target} \cup Coverages \cup Crashes \subseteq Messages
  /\ \A c \in 0 .. CounterMod - 1 : Stats(c) \in Messages
  /\ CounterMod \in Nat \ {0}
<1>1. None \in Messages
  BY DEF Messages
<1>2. Fields(None) \in Nat \ {0}
  BY <1>1, SizeFacts
<1>3. /\ {Target} \cup Coverages \cup Crashes \subseteq Messages
      /\ \A c \in 0 .. CounterMod - 1 : Stats(c) \in Messages
  BY DEF Messages
<1> QED
  BY <1>1, <1>2, <1>3, LinkAssumption

LEMMA StartStep ==
  ASSUME LinkInv, NEW m \in Messages, Start(m), executed' \in 0 .. CounterMod - 1,
         wrapped' \in BOOLEAN
  PROVE  LinkInv' /\ LogStep
<1>1. /\ emulator = "running" /\ connected /\ sending = None
      /\ sending' = m /\ field' = 1 /\ greeted' = TRUE
      /\ UNCHANGED <<connected, sent, torn, refused, wire, emulator, receiver,
                     client_packages, recv_buffer, waiting_for, wait_for_num_bytes,
                     header, filed, parser>>
  BY DEF Start, parserVars, reportVars
<1>2. field = 1
  BY <1>1, LinkTypes DEF LinkInv, SenderInv
<1>3. Fields(m) \in Nat /\ Fields(m) >= 1
  BY SizeFacts
<1>4. LinkTypeOK'
  BY <1>1, <1>3 DEF LinkInv, LinkTypeOK
<1>5. SenderInv' /\ (Sends' => Sends)
  BY <1>1 DEF SenderInv, Sends
<1>6. Stream' = Stream
  BY <1>1 DEF Stream
<1>7. LinkInv'
  BY <1>1, <1>2, <1>4, <1>5, <1>6, StreamKept
<1> QED
  BY <1>1, <1>7 DEF LogStep, LogUnchanged

LEMMA ReportStep ==
  ASSUME LinkInv, Report
  PROVE  LinkInv' /\ LogStep
<1>1. PICK m \in {Target} \cup Coverages \cup Crashes : Start(m)
  BY DEF Report
<1>2. executed' \in 0 .. CounterMod - 1 /\ wrapped' \in BOOLEAN
  BY DEF Report, LinkInv, LinkTypeOK
<1> QED
  BY <1>1, <1>2, MessageKinds, StartStep

LEMMA ReportStatsStep ==
  ASSUME LinkInv, ReportStats
  PROVE  LinkInv' /\ LogStep
<1>1. PICK tests \in 0 .. CounterMod - 1 :
             /\ executed' = (executed + tests) % CounterMod
             /\ wrapped' = (wrapped \/ executed + tests >= CounterMod)
             /\ Start(Stats(executed'))
  BY DEF ReportStats
<1>2. executed \in 0 .. CounterMod - 1 /\ CounterMod \in Nat \ {0} /\ wrapped \in BOOLEAN
  BY MessageKinds DEF LinkInv, LinkTypeOK
<1>3. executed' \in 0 .. CounterMod - 1
  BY <1>1, <1>2
<1>4. wrapped' \in BOOLEAN
  BY <1>1, <1>2
<1>5. Stats(executed') \in Messages
  BY <1>3, MessageKinds
<1> QED
  BY <1>1, <1>3, <1>4, <1>5, StartStep

LEMMA BrokenOffStep ==
  ASSUME LinkInv, ConnectionLost \/ EmulatorExits
  PROVE  LinkInv' /\ LogStep
<1>1. /\ ~Sends' /\ sending' = None /\ field' = 1
      /\ UNCHANGED <<greeted, executed, sent, torn, refused, wrapped, wire, receiver,
                     client_packages, recv_buffer, waiting_for, wait_for_num_bytes,
                     header, filed, parser>>
      /\ connected' \in BOOLEAN /\ emulator' \in {"running", "gone"}
  BY DEF ConnectionLost, EmulatorExits, SendingUnchanged, parserVars, reportVars,
         Sends, LinkInv, LinkTypeOK
<1>2. LinkTypeOK'
  BY <1>1, MessageKinds DEF LinkInv, LinkTypeOK
<1>3. SenderInv'
  BY <1>1 DEF SenderInv
<1>4. Stream' = Stream
  BY <1>1 DEF Stream
<1>5. LinkInv'
  BY <1>1, <1>2, <1>3, <1>4, StreamKept
<1> QED
  BY <1>1, <1>5 DEF LogStep, LogUnchanged

LEMMA ReceiveStep ==
  ASSUME LinkInv, Receive
  PROVE  LinkInv' /\ LogStep
<1>1. /\ UNCHANGED <<connected, greeted, executed, sending, field, sent, torn, refused,
                     wrapped, emulator, receiver, recv_buffer, waiting_for,
                     wait_for_num_bytes, header, filed, parser>>
  BY DEF Receive, senderVars, parserVars, reportVars
<1>2. PICK n \in 1 .. RecvMax :
             /\ n <= Len(wire)
             /\ client_packages' = client_packages \o SubSeq(wire, 1, n)
             /\ wire' = SubSeq(wire, n + 1, Len(wire))
  BY DEF Receive
<1>3. n \in 1 .. Len(wire) /\ Len(wire) \in Nat
  BY <1>2, LinkTypes, LinkAssumption, LenProperties DEF LinkInv
<1>4. /\ Stream' = Stream
      /\ client_packages' \in Seq(Pairs) /\ wire' \in Seq(Pairs)
  <2>1. /\ recv_buffer \in Seq(Pairs) /\ client_packages \in Seq(Pairs)
        /\ wire \in Seq(Pairs)
    BY LinkTypes DEF LinkInv
  <2> DEFINE a == SubSeq(wire, 1, n)
  <2>2. a \in Seq(Pairs) /\ wire' \in Seq(Pairs) /\ a \o wire' = wire
    BY <1>2, <1>3, <2>1, CutInTwo
  <2>3. client_packages' = client_packages \o a /\ recv_buffer' = recv_buffer
    BY <1>1, <1>2
  <2> DEFINE x == recv_buffer \o client_packages
  <2> HIDE DEF a
  <2>4. client_packages' \in Seq(Pairs) /\ x \in Seq(Pairs)
    BY <2>1, <2>2, <2>3, ConcatProperties
  <2>5. recv_buffer \o (client_packages \o a) = x \o a
    <3>1. recv_buffer \in Seq(Pairs) /\ client_packages \in Seq(Pairs)
      BY <2>1
    <3>2. a \in Seq(Pairs)
      BY <2>2
    <3> QED
      BY <3>1, <3>2, Regroup, ZenonT(60)
  <2>6. recv_buffer' \o client_packages' = x \o a
    BY <2>3, <2>5, Zenon
  <2> HIDE DEF x
  <2>7. (x \o a) \o wire' = x \o (a \o wire')
    <3>1. x \in Seq(Pairs)
      BY <2>4
    <3>2. a \in Seq(Pairs) /\ wire' \in Seq(Pairs)
      BY <2>2
    <3> QED
      BY <3>1, <3>2, Regroup, ZenonT(60)
  <2>8. Stream' = x \o wire
    BY <2>2, <2>6, <2>7, Zenon DEF Stream
  <2> QED
    BY <2>2, <2>4, <2>8 DEF Stream, x
<1>5. Len(wire') <= Len(wire)
  <2>1. /\ 1 \in Int /\ n + 1 \in Int /\ Len(wire) \in Int
        /\ \A i \in n + 1 .. Len(wire) : wire[i] \in Pairs
    BY <1>3, LinkTypes, ElementOfSeq DEF LinkInv
  <2>2. Len(wire') = IF n + 1 <= Len(wire) THEN Len(wire) - (n + 1) + 1 ELSE 0
    BY <1>2, <2>1, SubSeqProperties
  <2> QED
    BY <1>3, <2>2
<1>6. LinkTypeOK'
  <2>1. Len(wire') \in Nat /\ Len(wire') <= WireSize /\ WireSize \in Nat
    BY <1>3, <1>4, <1>5, LinkAssumption, LenProperties DEF LinkInv, LinkTypeOK
  <2> QED
    BY <1>1, <1>4, <2>1 DEF LinkInv, LinkTypeOK, Pairs
<1>7. SenderInv' /\ (Sends' => Sends)
  BY <1>1 DEF SenderInv, Sends, LinkInv
<1>8. LinkInv'
  BY <1>1, <1>4, <1>6, <1>7, StreamKept
<1> QED
  BY <1>1, <1>8 DEF LogStep, LogUnchanged

LEMMA GetStep ==
  ASSUME LinkInv, Get
  PROVE  LinkInv' /\ LogStep
<1>1. /\ UNCHANGED <<connected, greeted, executed, sending, field, sent, torn, refused,
                     wrapped, emulator, receiver, wire, waiting_for,
                     wait_for_num_bytes, header, filed, parser>>
  BY DEF Get, senderVars, reportVars
<1>2. PICK n \in 1 .. RecvMax :
             /\ n <= Len(client_packages)
             /\ recv_buffer' = recv_buffer \o SubSeq(client_packages, 1, n)
             /\ client_packages' = SubSeq(client_packages, n + 1, Len(client_packages))
  BY DEF Get
<1>3. n \in 1 .. Len(client_packages)
  BY <1>2, LinkTypes, LinkAssumption, LenProperties DEF LinkInv
<1>4. /\ Stream' = Stream
      /\ recv_buffer' \in Seq(Pairs) /\ client_packages' \in Seq(Pairs)
  <2>1. /\ recv_buffer \in Seq(Pairs) /\ client_packages \in Seq(Pairs)
        /\ wire \in Seq(Pairs)
    BY LinkTypes DEF LinkInv
  <2> DEFINE a == SubSeq(client_packages, 1, n)
  <2>2. a \in Seq(Pairs) /\ client_packages' \in Seq(Pairs) /\ a \o client_packages' = client_packages
    BY <1>2, <1>3, <2>1, CutInTwo
  <2>3. recv_buffer' = recv_buffer \o a /\ wire' = wire
    BY <1>1, <1>2
  <2> HIDE DEF a
  <2>4. recv_buffer' \in Seq(Pairs)
    BY <2>1, <2>2, <2>3, ConcatProperties
  <2>5. (recv_buffer \o a) \o client_packages' = recv_buffer \o (a \o client_packages')
    <3>1. recv_buffer \in Seq(Pairs)
      BY <2>1
    <3>2. a \in Seq(Pairs) /\ client_packages' \in Seq(Pairs)
      BY <2>2
    <3> QED
      BY <3>1, <3>2, Regroup, ZenonT(60)
  <2>6. recv_buffer' \o client_packages' = recv_buffer \o client_packages
    BY <2>2, <2>3, <2>5, Zenon
  <2> QED
    BY <2>2, <2>3, <2>4, <2>6, Zenon DEF Stream
<1>5. LinkTypeOK'
  BY <1>1, <1>4 DEF LinkInv, LinkTypeOK, Pairs
<1>6. SenderInv' /\ (Sends' => Sends)
  BY <1>1 DEF SenderInv, Sends, LinkInv
<1>7. LinkInv'
  BY <1>1, <1>4, <1>5, <1>6, StreamKept
<1> QED
  BY <1>1, <1>7 DEF LogStep, LogUnchanged

(* The receiver exits, a handler goes on, the UI thread runs.              *)
LEMMA OutsideStep ==
  ASSUME LinkInv, ReceiverExits \/ Server
  PROVE  LinkInv' /\ LogStep
<1>1. /\ UNCHANGED <<connected, greeted, executed, sending, field, sent, torn, refused,
                     wrapped, emulator, wire, client_packages, recv_buffer,
                     waiting_for, wait_for_num_bytes, header, filed>>
      /\ receiver' = receiver \/ receiver' = "gone"
  BY DEF ReceiverExits, Server, linkVars, senderVars, parserVars
<1>2. parser' = "alive" => parser = "alive"
  <2>1. CASE ReceiverExits
    BY <2>1 DEF ReceiverExits, reportVars
  <2>2. CASE OnNewEdge \/ HandlerFails
    BY <2>2 DEF OnNewEdge, HandlerFails
  <2>3. CASE Run
    BY <2>3 DEF Run, TestFlag, ClearFlag, GcovrReads, GcovrEnds, GcovrFails,
         PlotCoverage, uiOnly, fileVars, pageVars
  <2> QED
    BY <2>1, <2>2, <2>3 DEF Server
<1>3. LinkTypeOK'
  BY <1>1 DEF LinkInv, LinkTypeOK
<1>4. SenderInv' /\ (Sends' => Sends) /\ Stream' = Stream
  BY <1>1 DEF SenderInv, Sends, LinkInv, Stream
<1>5. LinkInv'
  BY <1>1, <1>2, <1>3, <1>4, StreamKept
<1> QED
  BY <1>1, <1>5 DEF LogStep, LogUnchanged

LEMMA AppendLater ==
  ASSUME NEW x \in Seq(Pairs), NEW w \in Seq(Pairs), NEW e \in Pairs
  PROVE  x \o Append(w, e) = Append(x \o w, e)
<1>1. Append(w, e) = w \o <<e>>
  BY AppendIsConcat
<1> DEFINE y == <<e>>
<1>2. y \in Seq(Pairs)
  OBVIOUS
<1>3. x \o w \in Seq(Pairs)
  BY ConcatProperties
<1>4. Append(x \o w, e) = (x \o w) \o y
  BY <1>3, AppendIsConcat
<1> HIDE DEF y
<1>5. (x \o w) \o y = x \o (w \o y)
  BY <1>2, Regroup, ZenonT(60)
<1> QED
  BY <1>1, <1>4, <1>5, Zenon DEF y

LEMMA TransmitStep ==
  ASSUME LinkInv, Transmit
  PROVE  LinkInv' /\ LogStep
<1>1. /\ emulator = "running" /\ sending # None /\ Len(wire) < WireSize
      /\ sent' = IF field = 1 THEN Append(sent, sending) ELSE sent
      /\ wire' = Append(wire, <<Len(sent'), field>>)
      /\ IF field = Fields(sending) THEN sending' = None /\ field' = 1
                                    ELSE sending' = sending /\ field' = field + 1
      /\ UNCHANGED <<connected, greeted, executed, torn, refused, wrapped, emulator,
                     receiver, client_packages, recv_buffer, waiting_for,
                     wait_for_num_bytes, header, filed, parser>>
  BY DEF Transmit, SendingUnchanged, parserVars, reportVars
<1>2. /\ sending \in Messages /\ field \in 1 .. Fields(sending)
      /\ sent \in Seq(Messages) /\ torn \in 0 .. Len(sent)
  BY DEF LinkInv, LinkTypeOK
<1>3. /\ Len(wire) \in Nat /\ Len(sent) \in Nat /\ Len(Stream) \in Nat
      /\ Len(filed) \in Nat /\ field \in Nat \ {0} /\ Fields(sending) \in Nat
      /\ wire \in Seq(Pairs) /\ Stream \in Seq(Pairs)
      /\ recv_buffer \in Seq(Pairs) /\ client_packages \in Seq(Pairs)
  BY LinkTypes, LenProperties DEF LinkInv
<1>4. Sends /\ Sends'
  BY <1>1 DEF LinkInv, SenderInv, Sends
<1>5. field > 1 => sent # << >> /\ sending = sent[Len(sent)]
  BY DEF LinkInv, SenderInv
<1>6. FieldsSent(Stream, sent) /\ InOrder(Stream, sent, torn) /\ UpTo(Stream, sent, torn, field)
  BY <1>4 DEF LinkInv, StreamInv
<1>7. Len(sent') \in Nat
  <2>1. field = 1 => sent' \in Seq(Messages)
    BY <1>1, <1>2, AppendProperties
  <2> QED
    BY <1>1, <1>3, <2>1, LenProperties
<1>8. Stream' = Append(Stream, <<Len(sent'), field>>)
  <2>1. <<Len(sent'), field>> \in Pairs
    BY <1>3, <1>7 DEF Pairs
  <2>2. recv_buffer \o client_packages \in Seq(Pairs)
    BY <1>3, ConcatProperties
  <2>3. (recv_buffer \o client_packages) \o wire' = Append(Stream, <<Len(sent'), field>>)
    BY <1>1, <1>3, <2>1, <2>2, AppendLater, Zenon DEF Stream
  <2> QED
    BY <1>1, <2>3 DEF Stream
<1>9. field' = IF field = Fields(sending) THEN 1 ELSE field + 1
  BY <1>1
<1>10. sent' = IF field = 1 THEN Append(sent, sending) ELSE sent
  BY <1>1
<1>11. /\ sent' \in Seq(Messages) /\ sent' # << >> /\ sent'[Len(sent')] = sending
       /\ Len(sent') = Len(sent) + IF field = 1 THEN 1 ELSE 0
       /\ \A i \in 1 .. Len(sent) : sent'[i] = sent[i]
       /\ Len(Stream') = Len(Stream) + 1
       /\ Stream'[1] = IF Len(Stream) = 0 THEN <<Len(sent'), field>> ELSE Stream[1]
       /\ FieldsSent(Stream', sent') /\ InOrder(Stream', sent', torn)
       /\ UpTo(Stream', sent', torn, field')
  <2>1. Adds(Stream, sent, torn, sending, field, sent', Stream', field')
    BY <1>2, <1>3, <1>5, <1>6, <1>8, <1>9, <1>10 DEF Adds
  <2>2. Added(Stream, sent, torn, sending, field, sent', Stream', field')
    BY <2>1, LongerStream
  <2> QED
    BY <2>2 DEF Added
<1>12. LinkTypeOK'
  <2>1. wire' \in Seq(Pairs) /\ Len(wire') <= WireSize
    <3>1. <<Len(sent'), field>> \in Pairs
      BY <1>3, <1>7 DEF Pairs
    <3>2. wire' \in Seq(Pairs) /\ Len(wire') = Len(wire) + 1
      BY <1>1, <1>3, <3>1, AppendProperties
    <3>3. WireSize \in Nat
      BY LinkAssumption
    <3> QED
      BY <1>1, <1>3, <3>2, <3>3
  <2>2. sending' \in Messages /\ field' \in 1 .. Fields(sending')
    <3>1. CASE field = Fields(sending)
      <4>1. sending' = None /\ field' = 1
        BY <1>1, <3>1
      <4> QED
        BY <4>1, MessageKinds
    <3>2. CASE field # Fields(sending)
      <4>1. sending' = sending /\ field' = field + 1
        BY <1>1, <3>2
      <4> QED
        BY <1>2, <1>3, <3>2, <4>1
    <3> QED
      BY <3>1, <3>2
  <2>3. torn \in 0 .. Len(sent') /\ header \in 0 .. Len(sent')
    <3>1. header \in 0 .. Len(sent)
      BY DEF LinkInv, LinkTypeOK
    <3> QED
      BY <1>2, <1>3, <1>11, <3>1
  <2> QED
    BY <1>1, <1>11, <2>1, <2>2, <2>3 DEF LinkInv, LinkTypeOK, Pairs
<1>13. StreamInv'
  BY <1>1, <1>11 DEF StreamInv
<1>14. SenderInv'
  BY <1>1, <1>4, <1>11 DEF SenderInv
<1>15. HeaderWait' /\ Behind'
  <2>1. torn = 0 => Len(filed) + (IF field > 1 THEN 1 ELSE 0) <= Len(sent)
    BY DEF LinkInv, Behind
  <2>2. torn = 0 => Len(filed) + 1 <= Len(sent')
    BY <1>3, <1>11, <2>1
  <2> QED
    BY <1>1, <1>3, <1>7, <2>2 DEF LinkInv, HeaderWait, Behind
<1>16. ASSUME parser = "alive", Before(Len(filed) + 1, torn)
       PROVE  /\ waiting_for = "body" =>
                   header = Len(filed) + 1 /\ wait_for_num_bytes = BodySize(sent'[header])
              /\ Stream'[1] = Place
  <2>1. waiting_for = "body" => /\ header = Len(filed) + 1
                                /\ wait_for_num_bytes = BodySize(sent[header])
    BY <1>16 DEF LinkInv, InStep
  <2>2. header \in 0 .. Len(sent)
    BY DEF LinkInv, LinkTypeOK
  <2>3. waiting_for = "body" => header \in 1 .. Len(sent)
    BY <1>3, <2>1, <2>2
  <2>4. CASE Len(Stream) = 0
    <3>1. SenderPlace = Place
      BY <1>4, <1>16, <2>4 DEF LinkInv, InStep
    <3>2. SenderPlace = <<Len(sent'), field>>
      <4>1. CASE field = 1
        BY <1>11, <4>1 DEF SenderPlace
      <4>2. CASE field # 1
        BY <1>10, <4>2 DEF SenderPlace
      <4> QED
        BY <4>1, <4>2
    <3> QED
      BY <1>11, <2>1, <2>3, <2>4, <3>1, <3>2
  <2>5. CASE Len(Stream) # 0
    <3>1. Stream[1] = Place
      BY <1>3, <1>16, <2>5 DEF LinkInv, InStep
    <3> QED
      BY <1>11, <2>1, <2>3, <2>5, <3>1
  <2> QED
    BY <2>4, <2>5
<1>17. InStep'
  <2>1. Len(Stream') # 0 /\ Place' = Place
    BY <1>1, <1>3, <1>11 DEF Place
  <2>2. UNCHANGED <<parser, filed, torn, waiting_for, header, wait_for_num_bytes>>
    BY <1>1
  <2> QED
    BY <1>16, <2>1, <2>2 DEF InStep
<1>18. LogStep
  <2>1. CASE field = 1
    <3>1. Log!Send(sending)
      BY <1>1, <2>1 DEF Log!Send
    <3> QED
      BY <1>2, <3>1 DEF LogStep, Log!Next
  <2>2. CASE field # 1
    BY <1>1, <2>2 DEF LogStep, LogUnchanged
  <2> QED
    BY <2>1, <2>2
<1> QED
  BY <1>12, <1>13, <1>14, <1>15, <1>17, <1>18 DEF LinkInv

LEMMA SendRefusedStep ==
  ASSUME LinkInv, SendRefused
  PROVE  LinkInv' /\ LogStep
<1>1. /\ emulator = "running" /\ sending # None
      /\ refused' = TRUE /\ sending' = None /\ field' = 1
      /\ torn' = IF field > 1 /\ torn = 0 THEN Len(sent) ELSE torn
      /\ UNCHANGED <<connected, sent, wire, greeted, executed, wrapped, emulator,
                     receiver, client_packages, recv_buffer, waiting_for,
                     wait_for_num_bytes, header, filed, parser>>
  BY DEF SendRefused, SendingUnchanged, parserVars, reportVars
<1>2. /\ Len(sent) \in Nat /\ Len(filed) \in Nat /\ Len(Stream) \in Nat
      /\ torn \in 0 .. Len(sent) /\ field \in Nat \ {0}
      /\ Stream \in Seq(Pairs) /\ sent \in Seq(Messages)
  BY LinkTypes DEF LinkInv, LinkTypeOK
<1>3. Sends /\ Sends' = Sends
  BY <1>1 DEF LinkInv, SenderInv, Sends
<1>4. LinkTypeOK'
  <2>1. torn' \in 0 .. Len(sent)
    BY <1>1, <1>2
  <2> QED
    BY <1>1, <2>1, MessageKinds DEF LinkInv, LinkTypeOK
<1>5. SenderInv'
  BY <1>1, <1>3 DEF SenderInv
<1>6. Stream' = Stream
  BY <1>1 DEF Stream
<1>7. CASE field = 1
  <2>1. torn' = torn /\ field' = field
    BY <1>1, <1>7
  <2>2. LinkInv'
    BY <1>1, <1>3, <1>4, <1>5, <1>6, <2>1, StreamKept
  <2> QED
    BY <1>1, <2>1, <2>2 DEF LogStep, LogUnchanged
<1>8. CASE field # 1
  <2>1. field > 1 /\ sent # << >>
    BY <1>2, <1>8 DEF LinkInv, SenderInv
  <2>2. Len(sent) # 0
    BY <1>2, <2>1, EmptySeq
  <2>3. torn' \in 1 .. Len(sent) /\ (torn = 0 \/ torn = torn')
    BY <1>1, <1>2, <2>1, <2>2
  <2>4. StreamInv'
    <3>1. FieldsSent(Stream, sent) /\ InOrder(Stream, sent, torn) /\ UpTo(Stream, sent, torn, field)
      BY <1>3 DEF LinkInv, StreamInv
    <3>2. InOrder(Stream, sent, torn') /\ UpTo(Stream, sent, torn', 1)
      BY <1>2, <2>3, <3>1, TornStream
    <3> QED
      BY <1>1, <1>6, <3>1, <3>2 DEF StreamInv
  <2>5. HeaderWait' /\ Behind'
    BY <1>1, <2>3 DEF LinkInv, HeaderWait, Behind
  <2>6. ASSUME Before(Len(filed) + 1, torn')
        PROVE  Before(Len(filed) + 1, torn) /\ Len(filed) + 1 < Len(sent)
    BY <1>2, <2>3, <2>6 DEF Before
  <2>7. SenderPlace = <<Len(sent), field>>
    BY <1>8 DEF SenderPlace
  <2>8. Len(sent) = Len(filed) + 1 \/ SenderPlace # Place
    BY <2>7 DEF Place
  <2>9. InStep'
    <3> SUFFICES ASSUME parser = "alive", Before(Len(filed) + 1, torn')
                 PROVE  /\ waiting_for = "body" =>
                             /\ header = Len(filed) + 1
                             /\ wait_for_num_bytes = BodySize(sent[header])
                        /\ Len(Stream) > 0 => Stream[1] = Place
                        /\ Len(Stream) # 0
      BY <1>1, <1>6 DEF InStep, Place
    <3>1. Before(Len(filed) + 1, torn) /\ Len(filed) + 1 # Len(sent)
      BY <1>2, <2>6
    <3> QED
      BY <1>3, <2>8, <3>1 DEF LinkInv, InStep
  <2>10. LogStep
    <3>1. CASE torn = 0
      <4>1. Len(filed) < Len(sent)
        BY <1>2, <2>1, <3>1 DEF LinkInv, Behind
      <4>2. torn' = Len(sent)
        BY <1>1, <2>1, <3>1
      <4>3. Log!Tear
        BY <1>1, <3>1, <4>1, <4>2 DEF Log!Tear
      <4> QED
        BY <4>3 DEF LogStep, Log!Next
    <3>2. CASE torn # 0
      BY <1>1, <3>2 DEF LogStep, LogUnchanged
    <3> QED
      BY <3>1, <3>2
  <2> QED
    BY <1>4, <1>5, <2>4, <2>5, <2>9, <2>10 DEF LinkInv
<1> QED
  BY <1>7, <1>8

(* The parser ends, and with it what it had of the stream or all of it.    *)
LEMMA ParserEnds ==
  ASSUME LinkInv, LinkTypeOK', NEW n, Leaves(Stream, n, Stream'),
         parser' # "alive", HeaderWait',
         UNCHANGED <<sent, torn, filed, field, sending, connected, emulator>>
  PROVE  LinkInv'
<1>1. Stream \in Seq(Pairs)
  BY LinkTypes DEF LinkInv
<1>2. /\ FieldsSent(Stream', sent) /\ InOrder(Stream', sent, torn)
      /\ UpTo(Stream, sent, torn, field) => UpTo(Stream', sent, torn, field)
  BY <1>1, ShorterStream DEF LinkInv, StreamInv
<1>3. StreamInv'
  BY <1>2 DEF LinkInv, StreamInv, Sends
<1>4. SenderInv' /\ Behind'
  BY DEF LinkInv, SenderInv, Sends, Behind
<1>5. InStep'
  BY DEF InStep
<1> QED
  BY <1>3, <1>4, <1>5 DEF LinkInv

LEMMA KillStep ==
  ASSUME LinkInv, ReceiveEnd \/ ServerStopped
  PROVE  LinkInv' /\ LogStep
<1>1. /\ parser' # "alive"
      /\ recv_buffer' = << >> /\ waiting_for' = "header"
      /\ wait_for_num_bytes' = 2 /\ header' = 0
      /\ UNCHANGED <<connected, greeted, executed, sending, field, sent, torn, refused,
                     wrapped, emulator, filed>>
  BY DEF ReceiveEnd, ServerStopped, KillParser, Kill, senderVars
<1>2. /\ recv_buffer \in Seq(Pairs) /\ client_packages \in Seq(Pairs)
      /\ wire \in Seq(Pairs) /\ Len(recv_buffer) \in Nat /\ Stream \in Seq(Pairs)
      /\ Len(Stream) \in Nat /\ Len(sent) \in Nat
  BY LinkTypes DEF LinkInv
<1>3. << >> \in Seq(Pairs) /\ Len(<< >>) = 0
  BY EmptySeq
<1>4. CASE ReceiveEnd
  <2>1. receiver' = "closed" /\ UNCHANGED <<wire, client_packages>>
    BY <1>4 DEF ReceiveEnd
  <2>2. LinkTypeOK'
    BY <1>1, <1>2, <1>3, <2>1 DEF LinkInv, LinkTypeOK, Pairs
  <2> DEFINE n == Len(recv_buffer)
             q == SubSeq(recv_buffer, n + 1, Len(recv_buffer))
  <2>3. n \in 0 .. Len(recv_buffer) /\ n + 1 \in Int /\ Len(recv_buffer) \in Int
        /\ Len(recv_buffer) < n + 1
    BY <1>2
  <2>4. q = << >>
    BY <2>3, SubSeqEmpty
  <2>5. Leaves(Stream, n, q \o client_packages \o wire)
    BY <1>2, <2>3, TakeFromBuffer DEF Stream
  <2> HIDE DEF n, q
  <2>6. Stream' = q \o client_packages \o wire
    BY <1>1, <2>1, <2>4 DEF Stream
  <2>7. Leaves(Stream, n, Stream')
    BY <2>5, <2>6
  <2>8. HeaderWait'
    BY <1>1 DEF HeaderWait
  <2> QED
    BY <1>1, <2>2, <2>7, <2>8, ParserEnds DEF LogStep, LogUnchanged
<1>5. CASE ServerStopped
  <2>1. receiver' = "gone" /\ wire' = << >> /\ client_packages' = << >>
    BY <1>5 DEF ServerStopped
  <2>2. LinkTypeOK'
    <3>1. Len(wire') <= WireSize
      BY <1>3, <2>1, LinkAssumption
    <3> QED
      BY <1>1, <1>2, <1>3, <2>1, <3>1 DEF LinkInv, LinkTypeOK, Pairs
  <2>3. Stream' = << >>
    BY <1>1, <1>3, <2>1, ConcatEmptySeq DEF Stream
  <2>4. Leaves(Stream, Len(Stream), Stream')
    BY <1>2, <1>3, <2>3 DEF Leaves
  <2>5. HeaderWait'
    BY <1>1 DEF HeaderWait
  <2> QED
    BY <1>1, <2>2, <2>4, <2>5, ParserEnds DEF LogStep, LogUnchanged
<1> QED
  BY <1>4, <1>5

(* What its first field <<k, j>> tells of the rest of the stream.          *)
Follows(s, ms, t, k, j) ==
  /\ k \in 1 .. Len(ms)
  /\ \A d \in 1 .. Len(s) - 1 :
       /\ j + d <= Fields(ms[k]) => s[1 + d] = <<k, j + d>>
       /\ j + d = Fields(ms[k]) + 1 => s[1 + d] = <<k + 1, 1>>
  /\ \A f : UpTo(s, ms, t, f) =>
       /\ j + Len(s) <= Fields(ms[k]) => k = Len(ms) /\ f = j + Len(s)
       /\ j + Len(s) = Fields(ms[k]) + 1 => k = Len(ms) /\ f = 1

LEMMA FirstField ==
  ASSUME NEW s \in Seq(Pairs), NEW ms, NEW t, NEW k, NEW j,
         FieldsSent(s, ms), InOrder(s, ms, t), Len(s) > 0, s[1] = <<k, j>>,
         Before(k, t)
  PROVE  Follows(s, ms, t, k, j)
<1>1. Len(s) \in Nat /\ 1 \in 1 .. Len(s) /\ s[1][1] = k /\ s[1][2] = j
  BY LenProperties
<1>2. k \in 1 .. Len(ms)
  BY <1>1 DEF FieldsSent
<1>4. \A d \in 1 .. Len(s) - 1 :
        /\ j + d <= Fields(ms[k]) => s[1 + d] = <<k, j + d>>
        /\ j + d = Fields(ms[k]) + 1 => s[1 + d] = <<k + 1, 1>>
  BY <1>1 DEF InOrder
<1>5. ASSUME NEW f, UpTo(s, ms, t, f)
      PROVE  /\ j + Len(s) <= Fields(ms[k]) => k = Len(ms) /\ f = j + Len(s)
             /\ j + Len(s) = Fields(ms[k]) + 1 => k = Len(ms) /\ f = 1
  <2>1. Len(s) + 1 - 1 = Len(s)
    BY <1>1
  <2> QED
    BY <1>1, <1>5, <2>1 DEF UpTo
<1> QED
  BY <1>2, <1>4, <1>5 DEF Follows

LEMMA ParseHeaderStep ==
  ASSUME LinkInv, ParseHeader
  PROVE  LinkInv' /\ LogStep
<1> DEFINE k == recv_buffer[1][1]
           inStep == recv_buffer[1] = <<k, 1>> /\ recv_buffer[2] = <<k, 2>>
<1>1. /\ parser = "alive" /\ waiting_for = "header" /\ Len(recv_buffer) >= 2
      /\ IF inStep
         THEN header' = k /\ wait_for_num_bytes' = DeclaredSize(sent[k])
         ELSE header' = 0 /\ wait_for_num_bytes' \in GarbageSizes
      /\ recv_buffer' = SubSeq(recv_buffer, 3, Len(recv_buffer))
      /\ waiting_for' = "body"
      /\ UNCHANGED <<connected, greeted, executed, sending, field, sent, torn, refused,
                     wrapped, wire, emulator, receiver, client_packages, filed, parser>>
  BY DEF ParseHeader, Complete, Idle, senderVars, reportVars, LinkInv, HeaderWait
<1>2. /\ recv_buffer \in Seq(Pairs) /\ client_packages \in Seq(Pairs)
      /\ wire \in Seq(Pairs) /\ Len(recv_buffer) \in Nat /\ Stream \in Seq(Pairs)
      /\ Len(Stream) \in Nat /\ Len(sent) \in Nat /\ Len(filed) \in Nat
      /\ sent \in Seq(Messages)
  BY LinkTypes DEF LinkInv, LinkTypeOK
<1> HIDE DEF k, inStep
<1>3. /\ Leaves(Stream, 2, Stream')
      /\ recv_buffer' \in Seq(Pairs)
      /\ Stream[1] = recv_buffer[1] /\ Stream[2] = recv_buffer[2]
      /\ Len(Stream) >= 2
  <2>1. 2 \in 0 .. Len(recv_buffer) /\ 1 \in 1 .. Len(recv_buffer) /\ 2 \in 1 .. Len(recv_buffer)
    BY <1>1, <1>2
  <2> DEFINE q == SubSeq(recv_buffer, 2 + 1, Len(recv_buffer))
  <2>2. /\ Leaves(Stream, 2, q \o client_packages \o wire) /\ q \in Seq(Pairs)
        /\ \A i \in 1 .. Len(recv_buffer) : Stream[i] = recv_buffer[i]
        /\ Len(Stream) >= Len(recv_buffer)
    BY <1>2, <2>1, TakeFromBuffer DEF Stream
  <2>3. recv_buffer' = q
    BY <1>1
  <2> HIDE DEF q
  <2>4. Stream' = q \o client_packages \o wire
    BY <1>1, <2>3 DEF Stream
  <2>5. Len(Stream) >= 2
    BY <1>1, <1>2, <2>2
  <2> QED
    BY <2>1, <2>2, <2>3, <2>4, <2>5
<1>4. FieldsSent(Stream, sent) /\ InOrder(Stream, sent, torn)
  BY DEF LinkInv, StreamInv
<1>5. /\ FieldsSent(Stream', sent) /\ InOrder(Stream', sent, torn)
      /\ UpTo(Stream, sent, torn, field) => UpTo(Stream', sent, torn, field)
  BY <1>2, <1>3, <1>4, ShorterStream
<1>6. StreamInv'
  BY <1>1, <1>5 DEF LinkInv, StreamInv, Sends
<1>7. k \in 1 .. Len(sent)
  <2>1. 1 \in 1 .. Len(Stream) /\ k = Stream[1][1]
    BY <1>2, <1>3 DEF k
  <2> QED
    BY <1>4, <2>1 DEF FieldsSent
<1>8. sent[k] \in Messages
  BY <1>2, <1>7, ElementOfSeq
<1>9. DeclaredSize(sent[k]) = BodySize(sent[k]) /\ BodySize(sent[k]) \in Nat \ {0}
      /\ Fields(sent[k]) = 2 + BodySize(sent[k])
  BY <1>8, SizeFacts
<1>10. LinkTypeOK'
  <2>1. header' \in 0 .. Len(sent) /\ wait_for_num_bytes' \in Nat
    <3>1. k \in 0 .. Len(sent) /\ 0 \in 0 .. Len(sent)
      BY <1>2, <1>7
    <3>2. GarbageSizes \subseteq Nat
      BY LinkAssumption
    <3> QED
      BY <1>1, <1>9, <3>1, <3>2
  <2> QED
    BY <1>1, <1>3, <2>1 DEF LinkInv, LinkTypeOK, Pairs
<1>11. SenderInv' /\ Behind' /\ HeaderWait'
  BY <1>1 DEF LinkInv, SenderInv, Sends, Behind, HeaderWait
<1>12. ASSUME Before(Len(filed) + 1, torn)
       PROVE  /\ header' = Len(filed) + 1
              /\ wait_for_num_bytes' = BodySize(sent[Len(filed) + 1])
              /\ Len(Stream') > 0 => Stream'[1] = <<Len(filed) + 1, 3>>
              /\ Len(Stream') = 0 /\ Sends => SenderPlace = <<Len(filed) + 1, 3>>
  <2>1. Stream[1] = <<Len(filed) + 1, 1>>
    BY <1>1, <1>2, <1>3, <1>12 DEF LinkInv, InStep, Place
  <2>2. k = Len(filed) + 1 /\ recv_buffer[1] = <<k, 1>>
    BY <1>3, <2>1 DEF k
  <2>3. /\ \A d \in 1 .. Len(Stream) - 1 :
             1 + d <= Fields(sent[k]) => Stream[1 + d] = <<k, 1 + d>>
        /\ UpTo(Stream, sent, torn, field) =>
             (1 + Len(Stream) <= Fields(sent[k]) => k = Len(sent) /\ field = 1 + Len(Stream))
    <3>1. Len(Stream) > 0 /\ Stream[1] = <<k, 1>> /\ Before(k, torn) /\ 1 \in Nat
      BY <1>2, <1>3, <1>12, <2>1, <2>2
    <3>2. Follows(Stream, sent, torn, k, 1)
      BY <1>2, <1>4, <3>1, FirstField
    <3> QED
      BY <3>2 DEF Follows
  <2>4. Stream[2] = <<k, 2>>
    <3>1. 1 \in 1 .. Len(Stream) - 1 /\ 1 + 1 <= Fields(sent[k]) /\ 1 + 1 = 2
      BY <1>2, <1>3, <1>9
    <3> QED
      BY <2>3, <3>1
  <2>5. header' = k /\ wait_for_num_bytes' = BodySize(sent[k])
    <3>1. inStep
      BY <1>3, <2>2, <2>4 DEF inStep
    <3> QED
      BY <1>1, <1>9, <3>1
  <2>6. Len(Stream') > 0 => Stream'[1] = <<k, 3>>
    <3>1. Len(Stream') = Len(Stream) - 2 /\ \A i \in 1 .. Len(Stream') : Stream'[i] = Stream[2 + i]
      BY <1>3 DEF Leaves
    <3>2. Len(Stream') > 0 => /\ Stream'[1] = Stream[1 + 2]
                              /\ 2 \in 1 .. Len(Stream) - 1
      BY <1>2, <3>1
    <3>3. 1 + 2 <= Fields(sent[k]) /\ 1 + 2 = 3
      BY <1>9
    <3>4. 2 \in 1 .. Len(Stream) - 1 => Stream[1 + 2] = <<k, 1 + 2>>
      BY <2>3, <3>3
    <3> QED
      BY <3>2, <3>3, <3>4
  <2>7. Len(Stream') = 0 /\ Sends => SenderPlace = <<k, 3>>
    <3> SUFFICES ASSUME Len(Stream') = 0, Sends PROVE SenderPlace = <<k, 3>>
      OBVIOUS
    <3>1. Len(Stream) = 2
      BY <1>2, <1>3 DEF Leaves
    <3>2. k = Len(sent) /\ field = 3
      BY <1>9, <2>3, <3>1 DEF LinkInv, StreamInv
    <3> QED
      BY <3>2 DEF SenderPlace
  <2> QED
    BY <2>2, <2>5, <2>6, <2>7
<1>13. InStep'
  <2>1. Place' = <<Len(filed) + 1, 3>> /\ SenderPlace' = SenderPlace /\ Sends' = Sends
    BY <1>1 DEF Place, SenderPlace, Sends
  <2> QED
    BY <1>1, <1>12, <2>1 DEF InStep
<1>14. LogStep
  BY <1>1 DEF LogStep, LogUnchanged
<1> QED
  BY <1>6, <1>10, <1>11, <1>13, <1>14 DEF LinkInv

(* A parser in step takes the body of its message off the stream.          *)
LEMMA BodyTaken ==
  ASSUME LinkInv, parser = "alive", waiting_for = "body",
         Len(recv_buffer) >= wait_for_num_bytes, Before(Len(filed) + 1, torn)
  PROVE  /\ header = Len(filed) + 1 /\ header \in 1 .. Len(sent)
         /\ wait_for_num_bytes \in Nat \ {0}
         /\ Follows(Stream, sent, torn, header, 3)
         /\ Fields(sent[header]) = 2 + wait_for_num_bytes
         /\ SubSeq(recv_buffer, 1, wait_for_num_bytes) = Body(header)
<1> DEFINE n == wait_for_num_bytes
           k == Len(filed) + 1
<1>1. /\ recv_buffer \in Seq(Pairs) /\ client_packages \in Seq(Pairs)
      /\ wire \in Seq(Pairs) /\ Len(recv_buffer) \in Nat /\ Stream \in Seq(Pairs)
      /\ Len(Stream) \in Nat /\ Len(sent) \in Nat /\ Len(filed) \in Nat
      /\ sent \in Seq(Messages) /\ header \in 0 .. Len(sent)
  BY LinkTypes DEF LinkInv, LinkTypeOK
<1>2. header = k /\ n = BodySize(sent[header])
      /\ (Len(Stream) > 0 => Stream[1] = <<k, 3>>)
  BY DEF LinkInv, InStep, Place
<1>3. k \in 1 .. Len(sent)
  BY <1>1, <1>2
<1>4. sent[k] \in Messages
  BY <1>1, <1>3, ElementOfSeq
<1>5. n \in Nat \ {0} /\ Fields(sent[k]) = 2 + n
  BY <1>2, <1>4, SizeFacts
<1>6. n \in 1 .. Len(recv_buffer) /\ 0 \in 0 .. Len(recv_buffer)
  BY <1>1, <1>5
<1>7. /\ Len(Stream) >= Len(recv_buffer)
      /\ \A i \in 1 .. Len(recv_buffer) : Stream[i] = recv_buffer[i]
  BY <1>1, <1>6, TakeFromBuffer DEF Stream
<1> HIDE DEF n, k
<1>8. Len(Stream) > 0 /\ Len(Stream) >= n
  BY <1>1, <1>6, <1>7
<1>9. Stream[1] = <<k, 3>>
  BY <1>2, <1>8
<1>10. Before(k, torn)
  BY DEF k
<1>11. Follows(Stream, sent, torn, k, 3)
  BY <1>1, <1>8, <1>9, <1>10, FirstField DEF LinkInv, StreamInv
<1>12. ASSUME NEW i \in 1 .. n PROVE recv_buffer[i] = <<k, 2 + i>>
  <2>1. i \in 1 .. Len(recv_buffer)
    BY <1>1, <1>6
  <2>2. CASE i = 1
    BY <1>7, <1>9, <2>1, <2>2
  <2>3. CASE i # 1
    <3>1. i - 1 \in 1 .. Len(Stream) - 1 /\ 3 + (i - 1) <= Fields(sent[k])
      BY <1>1, <1>5, <1>8, <2>3
    <3>2. Stream[1 + (i - 1)] = <<k, 3 + (i - 1)>>
      BY <1>11, <3>1 DEF Follows
    <3>3. 1 + (i - 1) = i /\ 3 + (i - 1) = 2 + i
      BY <1>5
    <3> QED
      BY <1>7, <2>1, <3>2, <3>3
  <2> QED
    BY <2>2, <2>3
<1>13. SubSeq(recv_buffer, 1, n) = Body(k)
  <2> DEFINE b == SubSeq(recv_buffer, 1, n)
  <2>1. \A i \in 1 .. n : recv_buffer[i] \in Pairs
    <3>1. \A i \in 1 .. n : i \in 1 .. Len(recv_buffer)
      BY <1>1, <1>6
    <3> QED
      BY <1>1, <3>1, ElementOfSeq
  <2>2. 1 \in Int /\ n \in Int
    BY <1>5
  <2>3. /\ b \in Seq(Pairs)
        /\ Len(b) = IF 1 <= n THEN n - 1 + 1 ELSE 0
        /\ \A i \in 1 .. n - 1 + 1 : b[i] = recv_buffer[1 + i - 1]
    BY <2>1, <2>2, SubSeqProperties
  <2> HIDE DEF b
  <2>4. Len(b) = n /\ n - 1 + 1 = n
    BY <1>5, <2>3
  <2>5. \A i \in 1 .. n : 1 + i - 1 = i
    BY <1>5
  <2>6. \A i \in 1 .. n : b[i] = <<k, 2 + i>>
    BY <1>12, <2>3, <2>4, <2>5
  <2>7. b \in [1 .. n -> Pairs]
    BY <2>3, <2>4, LenProperties
  <2>8. b = [j \in 1 .. n |-> <<k, 2 + j>>]
    BY <2>6, <2>7
  <2>9. Body(k) = [j \in 1 .. n |-> <<k, 2 + j>>]
    BY <1>2 DEF Body, n
  <2> QED
    BY <2>8, <2>9 DEF b
<1>14. header = k
  BY <1>2
<1> QED
  BY <1>3, <1>5, <1>11, <1>13, <1>14, Zenon DEF n, k

LEMMA ParseBodyStep ==
  ASSUME LinkInv, ParseBody
  PROVE  LinkInv' /\ LogStep
<1> DEFINE n == wait_for_num_bytes
           body == SubSeq(recv_buffer, 1, n)
           inStep == header # 0 /\ body = Body(header)
           due == Before(Len(filed) + 1, torn)
<1>1. /\ parser = "alive" /\ waiting_for = "body" /\ Len(recv_buffer) >= n
      /\ recv_buffer' = SubSeq(recv_buffer, n + 1, Len(recv_buffer))
      /\ waiting_for' = "header" /\ wait_for_num_bytes' = 2 /\ header' = 0
      /\ UNCHANGED <<connected, greeted, executed, sending, field, sent, torn, refused,
                     wrapped, wire, emulator, receiver, client_packages>>
  BY DEF ParseBody, Complete, Idle, Rest, senderVars
<1>2. PICK m \in IF inStep THEN {sent[header]} ELSE Messages :
             filed' = Append(filed, IF inStep THEN m ELSE None)
  BY DEF ParseBody, HandleBody
<1>3. /\ recv_buffer \in Seq(Pairs) /\ client_packages \in Seq(Pairs)
      /\ wire \in Seq(Pairs) /\ Len(recv_buffer) \in Nat /\ Stream \in Seq(Pairs)
      /\ Len(Stream) \in Nat /\ Len(sent) \in Nat /\ Len(filed) \in Nat
      /\ sent \in Seq(Messages) /\ filed \in Seq(Messages) /\ n \in Nat
      /\ torn \in 0 .. Len(sent) /\ header \in 0 .. Len(sent) /\ field \in Nat \ {0}
  BY LinkTypes DEF LinkInv, LinkTypeOK
<1>4. n \in 0 .. Len(recv_buffer)
  BY <1>1, <1>3
<1>5. /\ due => /\ header = Len(filed) + 1 /\ header \in 1 .. Len(sent)
                /\ n \in Nat \ {0}
                /\ Follows(Stream, sent, torn, header, 3)
                /\ Fields(sent[header]) = 2 + n
                /\ inStep
  <2>1. due => /\ header = Len(filed) + 1 /\ header \in 1 .. Len(sent)
               /\ n \in Nat \ {0}
               /\ Follows(Stream, sent, torn, header, 3)
               /\ Fields(sent[header]) = 2 + n
               /\ body = Body(header)
    BY <1>1, BodyTaken
  <2> QED
    BY <1>3, <2>1
<1> HIDE DEF n, body, inStep, due
<1>6. (IF inStep THEN m ELSE None) \in Messages /\ (inStep => m = sent[header])
  <2>1. inStep => m = sent[header] /\ header \in 1 .. Len(sent)
    BY <1>2, <1>3 DEF inStep
  <2>2. inStep => m \in Messages
    BY <1>3, <2>1, ElementOfSeq
  <2> QED
    BY <2>1, <2>2, MessageKinds
<1>7. filed' \in Seq(Messages) /\ Len(filed') = Len(filed) + 1
  BY <1>2, <1>3, <1>6, AppendProperties
<1>8. Leaves(Stream, n, Stream') /\ recv_buffer' \in Seq(Pairs)
  <2> DEFINE q == SubSeq(recv_buffer, n + 1, Len(recv_buffer))
  <2>1. Leaves(Stream, n, q \o client_packages \o wire) /\ q \in Seq(Pairs)
    BY <1>3, <1>4, TakeFromBuffer DEF Stream
  <2>2. recv_buffer' = q
    BY <1>1
  <2> HIDE DEF q
  <2>3. Stream' = q \o client_packages \o wire
    BY <1>1, <2>2 DEF Stream
  <2> QED
    BY <2>1, <2>2, <2>3
<1>9. /\ Len(Stream') = Len(Stream) - n
      /\ \A i \in 1 .. Len(Stream') : Stream'[i] = Stream[n + i]
      /\ n <= Len(Stream)
  BY <1>3, <1>8 DEF Leaves
<1>10. FieldsSent(Stream, sent) /\ InOrder(Stream, sent, torn)
  BY DEF LinkInv, StreamInv
<1>11. /\ FieldsSent(Stream', sent) /\ InOrder(Stream', sent, torn)
       /\ UpTo(Stream, sent, torn, field) => UpTo(Stream', sent, torn, field)
  BY <1>3, <1>8, <1>10, ShorterStream
<1>12. StreamInv'
  BY <1>1, <1>11 DEF LinkInv, StreamInv, Sends
<1>13. LinkTypeOK'
  BY <1>1, <1>3, <1>7, <1>8 DEF LinkInv, LinkTypeOK, Pairs
<1>14. SenderInv' /\ HeaderWait'
  BY <1>1 DEF LinkInv, SenderInv, Sends, HeaderWait
<1>15. ASSUME due
       PROVE  /\ Len(Stream') > 0 => Stream'[1] = <<header + 1, 1>>
              /\ Len(Stream') = 0 /\ Sends => header = Len(sent) /\ field = 1
  <2>1. /\ n \in Nat \ {0} /\ Follows(Stream, sent, torn, header, 3)
        /\ Fields(sent[header]) = 2 + n /\ 3 + n = (2 + n) + 1
    BY <1>5, <1>15
  <2>2. ASSUME Len(Stream') > 0
        PROVE  Stream'[1] = <<header + 1, 1>>
    <3>1. n \in 1 .. Len(Stream) - 1 /\ Stream'[1] = Stream[1 + n]
      BY <1>3, <1>9, <2>1, <2>2
    <3> QED
      BY <2>1, <3>1 DEF Follows
  <2>3. ASSUME Len(Stream') = 0, Sends
        PROVE  header = Len(sent) /\ field = 1
    <3>1. Len(Stream) = n
      BY <1>3, <1>9, <2>1, <2>3
    <3>2. UpTo(Stream, sent, torn, field)
      BY <2>3 DEF LinkInv, StreamInv
    <3> QED
      BY <2>1, <3>1, <3>2 DEF Follows
  <2> QED
    BY <2>2, <2>3
<1>16. InStep'
  <2> SUFFICES ASSUME Before(Len(filed') + 1, torn)
               PROVE  /\ Len(Stream') > 0 => Stream'[1] = <<Len(filed') + 1, 1>>
                      /\ Len(Stream') = 0 /\ Sends => SenderPlace = <<Len(filed') + 1, 1>>
    BY <1>1 DEF InStep, Place, SenderPlace, Sends
  <2>1. due
    BY <1>3, <1>7 DEF Before, due
  <2>2. Len(filed') = header
    BY <1>5, <1>7, <2>1
  <2> QED
    BY <1>15, <2>1, <2>2 DEF SenderPlace
<1>17. Behind'
  <2> SUFFICES ASSUME torn = 0
               PROVE  Len(filed') + (IF field > 1 THEN 1 ELSE 0) <= Len(sent)
    BY <1>1 DEF Behind
  <2>1. due
    BY DEF Before, due
  <2>2. Len(filed') = header /\ header \in 1 .. Len(sent)
    BY <1>5, <1>7, <2>1
  <2>3. field > 1 => header + 1 <= Len(sent)
    <3> SUFFICES ASSUME field > 1 PROVE header + 1 <= Len(sent)
      OBVIOUS
    <3>1. Sends
      BY <1>3 DEF LinkInv, SenderInv
    <3>2. Len(Stream') > 0
      BY <1>3, <1>9, <1>15, <2>1, <3>1
    <3>3. Stream'[1] = <<header + 1, 1>> /\ Stream'[1][1] = header + 1
      BY <1>15, <2>1, <3>2
    <3>4. 1 \in 1 .. Len(Stream')
      BY <1>3, <1>9, <3>2
    <3>5. header + 1 \in 1 .. Len(sent)
      BY <1>11, <3>3, <3>4 DEF FieldsSent
    <3> QED
      BY <1>3, <3>5
  <2> QED
    BY <1>3, <2>2, <2>3
<1>18. LogStep
  <2>1. CASE due
    <3>1. Len(filed) + 1 <= Len(sent) /\ (torn = 0 \/ Len(filed) + 1 < torn)
      BY <1>3, <1>5, <2>1 DEF due, Before
    <3>2. filed' = Append(filed, sent[Len(filed) + 1])
      BY <1>2, <1>5, <1>6, <2>1
    <3>3. Log!File
      BY <1>1, <3>1, <3>2 DEF Log!File
    <3> QED
      BY <3>3 DEF LogStep, Log!Next
  <2>2. CASE ~due
    <3>1. torn # 0 /\ Len(filed) + 1 >= torn
      BY <1>3, <2>2 DEF due, Before
    <3>2. Log!FileOutOfStep(IF inStep THEN m ELSE None)
      BY <1>1, <1>2, <3>1 DEF Log!FileOutOfStep
    <3> QED
      BY <1>6, <3>2 DEF LogStep, Log!Next
  <2> QED
    BY <2>1, <2>2
<1> QED
  BY <1>12, <1>13, <1>14, <1>16, <1>17, <1>18 DEF LinkInv

-----------------------------------------------------------------------------
LEMMA LinkInit ==
  ASSUME Init
  PROVE  LinkInv /\ Log!Init
<1>1. << >> \in Seq(Pairs) /\ << >> \in Seq(Messages) /\ Len(<< >>) = 0
  BY EmptySeq
<1>2. LinkTypeOK
  <2>1. 0 \in 0 .. CounterMod - 1 /\ 0 <= WireSize
    BY LinkAssumption
  <2>2. sending \in Messages /\ field \in 1 .. Fields(sending)
    BY MessageKinds DEF Init
  <2>3. /\ wire \in Seq(Nat \X Nat) /\ client_packages \in Seq(Nat \X Nat)
        /\ recv_buffer \in Seq(Nat \X Nat) /\ Len(wire) <= WireSize
    BY <1>1, <2>1 DEF Init, Pairs
  <2>4. sent \in Seq(Messages) /\ filed \in Seq(Messages)
        /\ torn \in 0 .. Len(sent) /\ header \in 0 .. Len(sent)
    BY <1>1 DEF Init
  <2> QED
    BY <2>1, <2>2, <2>3, <2>4 DEF Init, LinkTypeOK
<1>3. Stream = << >>
  BY <1>1, ConcatEmptySeq DEF Init, Stream
<1>4. StreamInv
  BY <1>1, <1>3 DEF StreamInv, FieldsSent, InOrder, UpTo
<1>5. InStep
  BY <1>1, <1>3 DEF Init, InStep, SenderPlace, Place
<1>6. HeaderWait /\ SenderInv /\ Behind
  BY <1>1 DEF Init, HeaderWait, SenderInv, Sends, Behind
<1> QED
  BY <1>2, <1>4, <1>5, <1>6 DEF LinkInv, Init, Log!Init

LEMMA LinkNext ==
  ASSUME LinkInv, [Next]_vars
  PROVE  LinkInv' /\ LogStep
<1>1. CASE Report
  BY <1>1, ReportStep
<1>2. CASE ReportStats
  BY <1>2, ReportStatsStep
<1>3. CASE Transmit
  BY <1>3, TransmitStep
<1>4. CASE ConnectionLost \/ EmulatorExits
  BY <1>4, BrokenOffStep
<1>5. CASE SendRefused
  BY <1>5, SendRefusedStep
<1>6. CASE Receive
  BY <1>6, ReceiveStep
<1>7. CASE ReceiveEnd \/ ServerStopped
  BY <1>7, KillStep
<1>8. CASE Get
  BY <1>8, GetStep
<1>9. CASE ParseHeader
  BY <1>9, ParseHeaderStep
<1>10. CASE ParseBody
  BY <1>10, ParseBodyStep
<1>11. CASE ReceiverExits \/ Server
  BY <1>11, OutsideStep
<1>12. CASE UNCHANGED vars
  <2>1. UNCHANGED <<connected, greeted, executed, sending, field, sent, torn, refused,
                    wrapped, wire, emulator, receiver, client_packages, recv_buffer,
                    waiting_for, wait_for_num_bytes, header, filed, parser>>
    BY <1>12 DEF vars, linkVars, senderVars, parserVars, reportVars
  <2>2. LinkTypeOK' /\ SenderInv' /\ (Sends' => Sends) /\ Stream' = Stream
    BY <2>1 DEF LinkInv, LinkTypeOK, SenderInv, Sends, Stream
  <2>3. LinkInv'
    BY <2>1, <2>2, StreamKept
  <2> QED
    BY <2>1, <2>3 DEF LogStep, LogUnchanged
<1> QED
  BY <1>1, <1>2, <1>3, <1>4, <1>5, <1>6, <1>7, <1>8, <1>9, <1>10, <1>11, <1>12
     DEF Next, Emulate, Parse

(* A parser that lives is where the sender's stream says it should be.     *)
THEOREM InStepAlways == Spec => []LinkInv
<1>1. Init => LinkInv
  BY LinkInit
<1>2. LinkInv /\ [Next]_vars => LinkInv'
  BY LinkNext
<1> QED
  BY <1>1, <1>2, PTL DEF Spec

(* The framed stream over socket, queue and buffer (fuzz_server_notify.c,  *)
(* socket_buffer_queue.py, parser.py) implements the log of messages.      *)
THEOREM DeliversTheLog == Spec => LogRefined
<1>1. Init => Log!Init
  BY LinkInit
<1>2. LinkInv /\ [Next]_vars => [Log!Next]_(Log!logVars)
  BY LinkNext DEF LogStep, LogUnchanged, Log!logVars
<1> QED
  BY <1>1, <1>2, InStepAlways, PTL DEF Spec, LogRefined, Log!Spec

LEMMA FaithfulNext ==
  ASSUME LinkTypeOK, LinkTypeOK', Log!Faithful, LogStep
  PROVE  Log!Faithful'
<1>1. /\ Len(sent) \in Nat /\ Len(filed) \in Nat
      /\ sent \in Seq(Messages) /\ filed \in Seq(Messages)
      /\ sent' \in Seq(Messages) /\ filed' \in Seq(Messages)
  BY LenProperties DEF LinkTypeOK
<1>2. ASSUME NEW m \in Messages, Log!Send(m)
      PROVE  Log!Faithful'
  <2>1. /\ filed' = filed /\ torn' = torn /\ Len(sent') = Len(sent) + 1
        /\ \A k \in 1 .. Len(sent) : sent'[k] = sent[k]
    BY <1>1, <1>2, AppendProperties DEF Log!Send
  <2>2. \A k \in Nat : k <= Len(sent) => k <= Len(sent')
    BY <1>1, <2>1
  <2>3. \A k \in 1 .. Len(filed) : k \in Nat /\ (k <= Len(sent) => k \in 1 .. Len(sent))
    BY <1>1
  <2> QED
    BY <2>1, <2>2, <2>3 DEF Log!Faithful
<1>3. CASE Log!Tear
  BY <1>1, <1>3 DEF Log!Tear, Log!Faithful
<1>4. CASE Log!File
  <2>1. /\ UNCHANGED <<sent, torn>> /\ Len(filed) + 1 <= Len(sent)
        /\ filed' = Append(filed, sent[Len(filed) + 1])
    BY <1>4 DEF Log!File
  <2>2. sent[Len(filed) + 1] \in Messages
    <3>1. Len(filed) + 1 \in 1 .. Len(sent)
      BY <1>1, <2>1
    <3> QED
      BY <1>1, <3>1, ElementOfSeq
  <2>3. /\ Len(filed') = Len(filed) + 1
        /\ \A k \in 1 .. Len(filed) : filed'[k] = filed[k]
        /\ filed'[Len(filed) + 1] = sent[Len(filed) + 1]
    BY <1>1, <2>1, <2>2, AppendProperties
  <2>4. \A k \in 1 .. Len(filed') : k \in 1 .. Len(filed) \/ k = Len(filed) + 1
    BY <1>1, <2>3
  <2> QED
    BY <2>1, <2>3, <2>4 DEF Log!Faithful
<1>5. ASSUME NEW m \in Messages, Log!FileOutOfStep(m)
      PROVE  Log!Faithful'
  <2>1. /\ UNCHANGED <<sent, torn>> /\ torn # 0 /\ Len(filed) + 1 >= torn
        /\ filed' = Append(filed, m)
    BY <1>5 DEF Log!FileOutOfStep
  <2>2. /\ Len(filed') = Len(filed) + 1
        /\ \A k \in 1 .. Len(filed) : filed'[k] = filed[k]
    BY <1>1, <2>1, AppendProperties
  <2>3. \A k \in 1 .. Len(filed') : k \in 1 .. Len(filed) \/ ~(k < torn)
    BY <1>1, <2>1, <2>2 DEF LinkTypeOK
  <2> QED
    BY <2>1, <2>2, <2>3 DEF Log!Faithful
<1>6. CASE LogUnchanged
  BY <1>6 DEF LogUnchanged, Log!Faithful
<1> QED
  BY <1>2, <1>3, <1>4, <1>5, <1>6 DEF LogStep, Log!Next

(* What the handlers are given is what was sent: every message once and in *)
(* order, up to the first torn one.                                        *)
THEOREM NothingLostOrSwapped == Spec => []Log!Faithful
<1>1. Init => Log!Faithful
  BY EmptySeq DEF Init, Log!Faithful
<1>2. LinkInv /\ LinkInv' /\ Log!Faithful /\ [Next]_vars => Log!Faithful'
  BY LinkNext, FaithfulNext DEF LinkInv
<1> QED
  BY <1>1, <1>2, InStepAlways, PTL DEF Spec

-----------------------------------------------------------------------------
(* What a step may do to the state of the parser process.                  *)
Handled == Idle /\ \E m \in Messages : Handle(m)

LEMMA ReportsAction ==
  ASSUME LinkInv, [Next]_vars
  PROVE  \/ UNCHANGED reportVars
         \/ Kill
         \/ Handled
         \/ Fail
         \/ OnNewEdge
         \/ Run
<1>1. CASE ParseBody
  <2> DEFINE inStep == header # 0
                       /\ SubSeq(recv_buffer, 1, wait_for_num_bytes) = Body(header)
  <2>1. PICK m \in IF inStep THEN {sent[header]} ELSE Messages : Handle(m) \/ Fail
    BY <1>1 DEF ParseBody, HandleBody
  <2>2. m \in Messages
    <3>1. header \in 0 .. Len(sent) /\ Len(sent) \in Nat /\ sent \in Seq(Messages)
      BY LenProperties DEF LinkInv, LinkTypeOK
    <3>2. inStep => header \in 1 .. Len(sent) /\ m = sent[header]
      BY <2>1, <3>1
    <3>3. inStep => m \in Messages
      BY <3>1, <3>2, ElementOfSeq
    <3> QED
      BY <2>1, <3>3
  <2>3. Idle
    BY <1>1 DEF ParseBody, Complete
  <2> QED
    BY <2>1, <2>2, <2>3 DEF Handled
<1>2. CASE Report
  BY <1>2 DEF Report, Start
<1>3. CASE ReportStats
  BY <1>3 DEF ReportStats, Start
<1>4. CASE Transmit \/ ConnectionLost \/ SendRefused
  BY <1>4 DEF Transmit, ConnectionLost, SendRefused, SendingUnchanged
<1>5. CASE EmulatorExits \/ Receive \/ ReceiverExits \/ Get \/ ParseHeader
  BY <1>5 DEF EmulatorExits, Receive, ReceiverExits, Get, ParseHeader
<1>6. CASE ReceiveEnd \/ ServerStopped
  BY <1>6 DEF ReceiveEnd, ServerStopped, KillParser
<1>7. CASE Server
  BY <1>7 DEF Server, HandlerFails
<1>8. CASE UNCHANGED vars
  BY <1>8 DEF vars
<1> QED
  BY <1>1, <1>2, <1>3, <1>4, <1>5, <1>6, <1>7, <1>8 DEF Next, Emulate, Parse

LEMMA MessageCounts ==
  \A m \in Messages : m.executed \in Nat
BY LinkAssumption DEF Messages, Target, None, Coverages, Crashes, Stats, Message

LEMMA ReportsTyped ==
  ASSUME LinkInv, ReportsTypeOK, [Next]_vars
  PROVE  ReportsTypeOK'
<1>1. CASE UNCHANGED reportVars
  BY <1>1 DEF ReportsTypeOK, reportVars, uiVars, fileVars, pageVars
<1>2. CASE Kill
  <2>1. /\ parser' = "killed" /\ handler' = "none" /\ ui' = "killed"
        /\ inputs_executed' = 0 /\ plot' = 0
        /\ unshown' = 0
        /\ UNCHANGED <<written, moved, failed, snapshot, rendered>>
    BY <1>2 DEF Kill, fileVars
  <2>2. /\ disassembler' \in BOOLEAN /\ new_coverage' \in BOOLEAN
        /\ start_time' \in BOOLEAN /\ failed' \in BOOLEAN
    BY <1>2 DEF Kill, ReportsTypeOK
  <2> QED
    BY <2>1, <2>2 DEF ReportsTypeOK
<1>3. CASE Handled
  <2>1. PICK m \in Messages : Handle(m)
    BY <1>3 DEF Handled
  <2>2. m.executed \in Nat
    BY MessageCounts
  <2>3. \/ Die \/ Skip \/ InitialMessage \/ UpdateCoverage
        \/ UpdateFuzzerStats(m.executed)
    BY <2>1 DEF Handle, CrashingInput
  <2>4. CASE Die \/ Skip
    BY <2>4 DEF Die, Skip, ReportsTypeOK, reportVars, uiVars, fileVars, pageVars
  <2>5. CASE InitialMessage
    <3>1. CASE Known
      <4>1. GreetAgain
        BY <2>5, <3>1 DEF InitialMessage
      <4>2. ui' \in {ui, "lost"}
        BY <4>1 DEF GreetAgain
      <4>3. /\ written' = 0 /\ snapshot' = 0 /\ rendered' = 0 /\ moved' = TRUE
            /\ parser' = "dead" /\ handler' = "none"
            /\ UNCHANGED <<disassembler, inputs_executed, new_coverage, start_time,
                           plot, failed, unshown>>
        BY <4>1 DEF GreetAgain
      <4> QED
        BY <4>2, <4>3 DEF ReportsTypeOK
    <3>2. CASE ~Known
      BY <2>5, <3>2 DEF InitialMessage, ReportsTypeOK, fileVars, pageVars
    <3> QED
      BY <3>1, <3>2
  <2>6. CASE UpdateCoverage
    BY <2>6 DEF UpdateCoverage, Skip, ReportsTypeOK, reportVars, uiVars, fileVars, pageVars
  <2>7. CASE UpdateFuzzerStats(m.executed)
    BY <2>2, <2>7 DEF UpdateFuzzerStats, Die, ReportsTypeOK, uiVars, fileVars, pageVars
  <2> QED
    BY <2>3, <2>4, <2>5, <2>6, <2>7
<1>4. CASE Fail
  BY <1>4 DEF Fail, ReportsTypeOK, uiVars, fileVars, pageVars
<1>5. CASE OnNewEdge
  <2>1. CASE FlagEdge
    BY <2>1 DEF FlagEdge, ReportsTypeOK, uiVars, fileVars, pageVars
  <2>2. CASE TimeEdge
    BY <2>2 DEF TimeEdge, ReportsTypeOK, uiVars, fileVars, pageVars
  <2>3. CASE AppendEdge
    BY <2>3 DEF AppendEdge, ReportsTypeOK, uiVars, fileVars, pageVars
  <2> QED
    BY <1>5, <2>1, <2>2, <2>3 DEF OnNewEdge
<1>6. CASE Run
  <2>1. CASE TestFlag \/ ClearFlag
    BY <2>1 DEF TestFlag, ClearFlag, ReportsTypeOK, uiOnly, fileVars, pageVars
  <2>2. CASE GcovrReads
    BY <2>2 DEF GcovrReads, ReportsTypeOK, uiOnly, fileVars, pageVars
  <2>3. CASE GcovrEnds
    BY <2>3 DEF GcovrEnds, ReportsTypeOK, uiOnly, fileVars, pageVars
  <2>4. CASE GcovrFails
    BY <2>4 DEF GcovrFails, ReportsTypeOK, uiOnly, fileVars
  <2>5. CASE PlotCoverage
    BY <2>5 DEF PlotCoverage, ReportsTypeOK, uiOnly, fileVars, pageVars
  <2> QED
    BY <1>6, <2>1, <2>2, <2>3, <2>4, <2>5 DEF Run
<1> QED
  BY <1>1, <1>2, <1>3, <1>4, <1>5, <1>6, ReportsAction

(* Every variable of the link and of the parser process keeps its type.    *)
THEOREM LinkTyped == Spec => []TypeOK
<1>1. Init => LinkInv /\ ReportsTypeOK
  <2> SUFFICES ASSUME Init PROVE LinkInv /\ ReportsTypeOK
    OBVIOUS
  <2>1. /\ parser = "alive" /\ handler = "none" /\ ui = "off"
        /\ inputs_executed = 0 /\ plot = 0
        /\ written = 0 /\ snapshot = 0 /\ rendered = 0 /\ unshown = 0
    BY DEF Init, ReportsInit
  <2>2. {disassembler, new_coverage, start_time, moved, failed} \subseteq BOOLEAN
    BY DEF Init, ReportsInit
  <2> QED
    BY <2>1, <2>2, LinkInit DEF ReportsTypeOK
<1>2. LinkInv /\ ReportsTypeOK /\ [Next]_vars => LinkInv' /\ ReportsTypeOK'
  BY LinkNext, ReportsTyped
<1>3. LinkInv /\ ReportsTypeOK => TypeOK
  BY DEF TypeOK, LinkInv
<1> QED
  BY <1>1, <1>2, <1>3, PTL DEF Spec

(* The time base is there before the first point of the plot.              *)
PlotInv ==
  /\ plot \in Nat /\ ui # "dead"
  /\ plot > 0 \/ handler = "timed" => start_time = TRUE

LEMMA PlotNext ==
  ASSUME LinkInv, PlotInv, [Next]_vars
  PROVE  PlotInv'
<1>1. CASE UNCHANGED reportVars \/ Kill \/ Fail
  BY <1>1 DEF PlotInv, reportVars, uiVars, fileVars, pageVars, Kill, Fail
<1>2. CASE Handled
  <2>1. PICK m \in Messages : Handle(m)
    BY <1>2 DEF Handled
  <2>2. \/ Die \/ Skip \/ InitialMessage \/ UpdateCoverage
        \/ UpdateFuzzerStats(m.executed)
    BY <2>1 DEF Handle, CrashingInput
  <2> QED
    BY <2>2 DEF PlotInv, Die, Skip, InitialMessage, GreetAgain, UpdateCoverage, UpdateFuzzerStats,
                reportVars, uiVars, fileVars, pageVars
<1>3. CASE OnNewEdge
  BY <1>3 DEF OnNewEdge, FlagEdge, TimeEdge, AppendEdge, PlotInv, uiVars, fileVars, pageVars
<1>4. CASE Run
  BY <1>4 DEF Run, TestFlag, ClearFlag, GcovrReads, GcovrEnds, GcovrFails,
         PlotCoverage, PlotInv, uiOnly, fileVars, pageVars
<1> QED
  BY <1>1, <1>2, <1>3, <1>4, ReportsAction

(* The UI thread never plots a point without the time base (update_ui.py), *)
(* whatever the two threads do in between.                                 *)
THEOREM PlotNeverBaseless == Spec => []PlotSafe
<1>1. Init => PlotInv
  BY DEF Init, ReportsInit, PlotInv
<1>2. LinkInv /\ PlotInv /\ [Next]_vars => PlotInv'
  BY PlotNext
<1>3. PlotInv => PlotSafe
  BY DEF PlotInv, PlotSafe
<1> QED
  BY <1>1, <1>2, <1>3, InStepAlways, PTL DEF Spec

-----------------------------------------------------------------------------
(* Why a parser dies.  The emulator greets first, and only once;           *)
Kinds == {"target", "coverage", "crash", "stats"}

Greeting ==
  /\ \A k \in 1 .. Len(sent) : sent[k].kind \in Kinds
  /\ sending # None => sending.kind \in Kinds /\ greeted = TRUE
  /\ ~refused =>
       /\ \A k \in 1 .. Len(sent) : sent[k].kind = "target" <=> k = 1
       /\ sending # None /\ field = 1 => (sending.kind = "target" <=> Len(sent) = 0)
       /\ Sends /\ sending = None => (greeted = TRUE <=> Len(sent) # 0)

(* its counts grow until the counter wraps;                                *)
Counting ==
  ~wrapped =>
    /\ sending.executed <= executed
    /\ \A k \in 1 .. Len(sent) : sent[k].kind = "stats" =>
         /\ sent[k].executed <= executed
         /\ \A l \in k .. Len(sent) :
              sent[l].kind = "stats" => sent[k].executed <= sent[l].executed
         /\ field = 1 /\ sending.kind = "stats" => sent[k].executed <= sending.executed

TornRefused == ~refused => torn = 0

(* and the parser knows the last count of those it has filed.              *)
Heard ==
  parser = "alive" /\ ~refused =>
    /\ Known <=> Len(filed) > 0
    /\ \/ inputs_executed = 0
       \/ \E k \in 1 .. Len(filed) :
            sent[k].kind = "stats" /\ inputs_executed = sent[k].executed

DeathInv == Greeting /\ Counting /\ TornRefused /\ Heard /\ DeathExplained

LEMMA KindFacts ==
  /\ None.kind = "none" /\ None.executed = 0 /\ None.kind \notin Kinds
  /\ Target.kind = "target" /\ Target.executed = 0
  /\ \A m \in Coverages \cup Crashes :
       m.kind \in {"coverage", "crash"} /\ m.executed = 0
  /\ \A c : Stats(c).kind = "stats" /\ Stats(c).executed = c
  /\ \A m \in {Target} \cup Coverages \cup Crashes :
       m # None /\ m.kind \in Kinds /\ m.kind # "stats" /\ m.executed = 0
  /\ \A c : Stats(c) # None
BY DEF None, Target, Coverages, Crashes, Stats, Message, Kinds

LEMMA SenderTypes ==
  ASSUME LinkInv
  PROVE  /\ sent \in Seq(Messages) /\ Len(sent) \in Nat /\ sending \in Messages
         /\ executed \in Nat /\ sending.executed \in Nat
         /\ \A k \in 1 .. Len(sent) : sent[k] \in Messages /\ sent[k].executed \in Nat
         /\ field \in Nat \ {0}
<1>1. /\ sent \in Seq(Messages) /\ sending \in Messages /\ executed \in 0 .. CounterMod - 1
  BY DEF LinkInv, LinkTypeOK
<1>2. \A k \in 1 .. Len(sent) : sent[k] \in Messages
  BY <1>1, ElementOfSeq
<1>3. executed \in Nat
  BY <1>1, LinkAssumption
<1> QED
  BY <1>1, <1>2, <1>3, LinkTypes, MessageCounts DEF LinkInv

(* The sender's side.                                                      *)
LEMMA StartCounts ==
  ASSUME LinkInv, Greeting, Counting, TornRefused, NEW m \in Messages, Start(m),
         m # None, m.kind \in Kinds,
         wrapped' \in BOOLEAN,
         ~wrapped' => /\ ~wrapped /\ executed' \in Nat /\ executed <= executed'
                      /\ m.executed <= executed'
                      /\ m.kind = "stats" => m.executed = executed'
  PROVE  Greeting' /\ Counting' /\ TornRefused'
<1>1. /\ emulator = "running" /\ connected /\ sending = None
      /\ m.kind = "target" <=> ~greeted
      /\ sending' = m /\ field' = 1 /\ greeted' = TRUE
      /\ UNCHANGED <<connected, sent, torn, refused, emulator>>
  BY DEF Start
<1>2. Greeting'
  <2>1. ~refused => (m.kind = "target" <=> Len(sent) = 0)
    BY <1>1 DEF Greeting, Sends, LinkInv, LinkTypeOK
  <2> QED
    BY <1>1, <2>1 DEF Greeting
<1>3. Counting'
  <2> SUFFICES ASSUME ~wrapped'
               PROVE  /\ m.executed <= executed'
                      /\ \A k \in 1 .. Len(sent) : sent[k].kind = "stats" =>
                           /\ sent[k].executed <= executed'
                           /\ \A l \in k .. Len(sent) :
                                sent[l].kind = "stats" => sent[k].executed <= sent[l].executed
                           /\ m.kind = "stats" => sent[k].executed <= m.executed
    BY <1>1 DEF Counting
  <2>1. \A k \in 1 .. Len(sent) : sent[k].kind = "stats" =>
          /\ sent[k].executed <= executed
          /\ \A l \in k .. Len(sent) :
               sent[l].kind = "stats" => sent[k].executed <= sent[l].executed
    BY DEF Counting
  <2>2. \A k \in 1 .. Len(sent) : sent[k].kind = "stats" => sent[k].executed <= executed'
    BY <2>1, SenderTypes
  <2> QED
    BY <2>1, <2>2
<1> QED
  BY <1>1, <1>2, <1>3 DEF TornRefused

LEMMA SenderCounts ==
  ASSUME LinkInv, Greeting, Counting, TornRefused, [Next]_vars
  PROVE  Greeting' /\ Counting' /\ TornRefused'
<1>1. CASE Report
  <2>1. PICK m \in {Target} \cup Coverages \cup Crashes : Start(m)
    BY <1>1 DEF Report
  <2>2. m \in Messages /\ m # None /\ m.kind \in Kinds /\ m.kind # "stats" /\ m.executed = 0
    BY KindFacts, MessageKinds
  <2>3. UNCHANGED <<executed, wrapped>> /\ executed \in Nat /\ wrapped' \in BOOLEAN
    BY <1>1, SenderTypes DEF Report, LinkInv, LinkTypeOK
  <2> QED
    BY <2>1, <2>2, <2>3, StartCounts
<1>2. CASE ReportStats
  <2>1. PICK tests \in 0 .. CounterMod - 1 :
               /\ executed' = (executed + tests) % CounterMod
               /\ wrapped' = (wrapped \/ executed + tests >= CounterMod)
               /\ Start(Stats(executed'))
    BY <1>2 DEF ReportStats
  <2>2. executed \in 0 .. CounterMod - 1 /\ CounterMod \in Nat \ {0} /\ wrapped \in BOOLEAN
    BY MessageKinds DEF LinkInv, LinkTypeOK
  <2>3. executed' \in 0 .. CounterMod - 1 /\ executed' \in Nat
    BY <2>1, <2>2
  <2>4. wrapped' \in BOOLEAN /\ (~wrapped' => ~wrapped /\ ~(executed + tests >= CounterMod))
    BY <2>1, <2>2
  <2>5. ~(executed + tests >= CounterMod) => executed <= executed'
    BY <2>1, <2>2
  <2>6. /\ Stats(executed') \in Messages /\ Stats(executed') # None
        /\ Stats(executed').kind \in Kinds /\ Stats(executed').executed = executed'
    BY <2>3, KindFacts, MessageKinds DEF Kinds
  <2>7. Stats(executed').executed <= executed'
    BY <2>3, <2>6
  <2> HIDE DEF Stats
  <2> QED
    BY <2>1, <2>3, <2>4, <2>5, <2>6, <2>7, StartCounts
<1>3. CASE Transmit
  <2>1. /\ emulator = "running" /\ sending # None
        /\ sent' = IF field = 1 THEN Append(sent, sending) ELSE sent
        /\ IF field = Fields(sending) THEN sending' = None /\ field' = 1
                                      ELSE sending' = sending /\ field' = field + 1
        /\ UNCHANGED <<connected, greeted, executed, torn, refused, wrapped, emulator>>
    BY <1>3 DEF Transmit, SendingUnchanged
  <2>2. TornRefused'
    BY <2>1 DEF TornRefused
  <2>3. Fields(sending) >= 3 /\ Fields(sending) \in Nat
    BY SenderTypes, SizeFacts
  <2>4. sending.kind \in Kinds /\ greeted = TRUE
    BY <2>1 DEF Greeting
  <2>5. CASE field = 1
    <3>1. sending' = sending /\ field' = 2 /\ sent' = Append(sent, sending)
      BY <2>1, <2>3, <2>5
    <3>2. /\ Len(sent') = Len(sent) + 1 /\ sent'[Len(sent) + 1] = sending
          /\ \A k \in 1 .. Len(sent) : sent'[k] = sent[k]
      BY <3>1, SenderTypes, AppendProperties
    <3>3. Greeting'
      <4>1. \A k \in 1 .. Len(sent') : k \in 1 .. Len(sent) \/ k = Len(sent) + 1
        BY <3>2, SenderTypes
      <4>2. \A k \in 1 .. Len(sent') : sent'[k].kind \in Kinds
        BY <2>4, <3>2, <4>1 DEF Greeting
      <4>3. ~refused => \A k \in 1 .. Len(sent') : sent'[k].kind = "target" <=> k = 1
        <5>1. ~refused => (sending.kind = "target" <=> Len(sent) = 0)
          BY <2>1, <2>5 DEF Greeting
        <5>2. Len(sent) = 0 <=> Len(sent) + 1 = 1
          BY SenderTypes
        <5>3. ~refused => \A k \in 1 .. Len(sent) : sent[k].kind = "target" <=> k = 1
          BY DEF Greeting
        <5> QED
          BY <3>2, <4>1, <5>1, <5>2, <5>3
      <4> QED
        BY <2>1, <2>4, <3>1, <4>2, <4>3 DEF Greeting
    <3>4. Counting'
      <4> SUFFICES ASSUME ~wrapped
                   PROVE  /\ sending.executed <= executed
                          /\ \A k \in 1 .. Len(sent') : sent'[k].kind = "stats" =>
                               /\ sent'[k].executed <= executed
                               /\ \A l \in k .. Len(sent') : sent'[l].kind = "stats"
                                    => sent'[k].executed <= sent'[l].executed
        BY <2>1, <3>1 DEF Counting
      <4>1. /\ sending.executed <= executed
            /\ \A k \in 1 .. Len(sent) : sent[k].kind = "stats" =>
                 /\ sent[k].executed <= executed
                 /\ \A l \in k .. Len(sent) :
                      sent[l].kind = "stats" => sent[k].executed <= sent[l].executed
                 /\ sending.kind = "stats" => sent[k].executed <= sending.executed
        BY <2>5 DEF Counting
      <4> SUFFICES ASSUME NEW k \in 1 .. Len(sent'), sent'[k].kind = "stats"
                   PROVE  /\ sent'[k].executed <= executed
                          /\ \A l \in k .. Len(sent') : sent'[l].kind = "stats"
                               => sent'[k].executed <= sent'[l].executed
        BY <4>1
      <4>2. CASE k \in 1 .. Len(sent)
        <5>1. sent'[k] = sent[k] /\ sent[k].executed <= executed
          BY <3>2, <4>1, <4>2
        <5>2. \A l \in k .. Len(sent') : (l \in k .. Len(sent) /\ l \in 1 .. Len(sent)) \/ l = Len(sent) + 1
          BY <3>2, <4>2, SenderTypes
        <5>3. \A l \in k .. Len(sent) : l \in 1 .. Len(sent) /\ sent'[l].kind = "stats"
                => sent'[k].executed <= sent'[l].executed
          BY <3>2, <4>1, <4>2, <5>1
        <5>4. sending.kind = "stats" => sent'[k].executed <= sending.executed
          BY <4>1, <4>2, <5>1
        <5> QED
          BY <3>2, <5>1, <5>2, <5>3, <5>4
      <4>3. CASE k = Len(sent) + 1
        <5>1. sent'[k] = sending /\ \A l \in k .. Len(sent') : l = k
          BY <3>2, <4>3, SenderTypes
        <5>2. sending.executed <= sending.executed
          BY SenderTypes
        <5> QED
          BY <4>1, <5>1, <5>2
      <4>4. k \in 1 .. Len(sent) \/ k = Len(sent) + 1
        BY <3>2, SenderTypes
      <4> QED
        BY <4>2, <4>3, <4>4
    <3> QED
      BY <2>2, <3>3, <3>4
  <2>6. CASE field # 1
    <3>1. sent' = sent /\ (sending' = sending \/ sending' = None) /\ (sending' # None => field' # 1)
      BY <2>1, <2>6, SenderTypes
    <3>2. Len(sent) # 0
      <4>1. sent # << >>
        BY <2>6, SenderTypes DEF LinkInv, SenderInv
      <4> QED
        BY <4>1, SenderTypes, EmptySeq
    <3>3. Greeting'
      BY <2>1, <2>4, <3>1, <3>2 DEF Greeting
    <3>4. Counting'
      <4>1. sending'.executed <= sending.executed /\ sending'.executed \in Nat
        BY <3>1, SenderTypes, KindFacts
      <4>2. ~wrapped => sending'.executed <= executed
        BY <4>1, SenderTypes DEF Counting
      <4>3. field' # 1 \/ sending'.kind # "stats"
        BY <3>1, KindFacts
      <4> QED
        BY <2>1, <3>1, <4>2, <4>3 DEF Counting
    <3> QED
      BY <2>2, <3>3, <3>4
  <2> QED
    BY <2>5, <2>6
<1>4. CASE ConnectionLost \/ EmulatorExits \/ SendRefused
  <2>1. /\ sending' = None
        /\ UNCHANGED <<greeted, executed, sent, wrapped>>
        /\ (refused' = refused /\ torn' = torn /\ ~Sends') \/ refused' = TRUE
    BY <1>4 DEF ConnectionLost, EmulatorExits, SendRefused, SendingUnchanged, Sends
  <2>2. TornRefused'
    BY <2>1 DEF TornRefused
  <2>3. Greeting'
    BY <2>1, KindFacts DEF Greeting
  <2>4. Counting'
    <3>1. sending'.executed = 0 /\ sending'.kind = "none" /\ 0 <= executed
      BY <2>1, KindFacts, SenderTypes
    <3> QED
      BY <2>1, <3>1 DEF Counting
  <2> QED
    BY <2>2, <2>3, <2>4
<1>5. CASE UNCHANGED <<senderVars, emulator>>
  BY <1>5 DEF senderVars, Greeting, Counting, TornRefused, Sends
<1>6. Receive \/ ReceiveEnd \/ ReceiverExits \/ ServerStopped \/ Parse \/ Server \/ UNCHANGED vars
        => UNCHANGED <<senderVars, emulator>>
  BY DEF Receive, ReceiveEnd, ReceiverExits, ServerStopped, Parse, Get, ParseHeader,
         ParseBody, Server, linkVars, vars
<1> QED
  BY <1>1, <1>2, <1>3, <1>4, <1>5, <1>6 DEF Next, Emulate

(* The reader's side: the handler is called with the message that is due,  *)
LEMMA DueHandled ==
  ASSUME LinkInv, ParseBody, torn = 0
  PROVE  /\ header = Len(filed) + 1 /\ header \in 1 .. Len(sent)
         /\ Len(filed') = Len(filed) + 1 /\ parser = "alive"
         /\ Handle(sent[header]) \/ Fail
         /\ UNCHANGED <<sent, refused, wrapped>>
<1>1. /\ parser = "alive" /\ waiting_for = "body"
      /\ Len(recv_buffer) >= wait_for_num_bytes
      /\ UNCHANGED <<sent, refused, wrapped>>
  BY DEF ParseBody, Complete, Idle, senderVars
<1>2. Before(Len(filed) + 1, torn)
  BY DEF Before
<1>3. /\ header = Len(filed) + 1 /\ header \in 1 .. Len(sent)
      /\ SubSeq(recv_buffer, 1, wait_for_num_bytes) = Body(header)
  BY <1>1, <1>2, BodyTaken
<1>4. header # 0 /\ sent[header] \in Messages /\ filed \in Seq(Messages)
  BY <1>3, SenderTypes DEF LinkInv, LinkTypeOK
<1>5. /\ Handle(sent[header]) \/ Fail
      /\ filed' = Append(filed, sent[header])
  BY <1>3, <1>4 DEF ParseBody, HandleBody
<1> QED
  BY <1>1, <1>3, <1>4, <1>5, AppendProperties

(* any other step calls none.                                              *)
LEMMA NotHandled ==
  ASSUME LinkInv, [Next]_vars, ~ParseBody
  PROVE  /\ filed' = filed
         /\ UNCHANGED reportVars \/ Kill \/ Fail \/ OnNewEdge \/ Run
<1>1. CASE Report
  BY <1>1 DEF Report, Start, parserVars
<1>2. CASE ReportStats
  BY <1>2 DEF ReportStats, Start, parserVars
<1>3. CASE Transmit \/ ConnectionLost \/ SendRefused
  BY <1>3 DEF Transmit, ConnectionLost, SendRefused, SendingUnchanged, parserVars
<1>4. CASE EmulatorExits \/ Receive \/ ReceiverExits \/ Get \/ ParseHeader
  BY <1>4 DEF EmulatorExits, Receive, ReceiverExits, Get, ParseHeader, parserVars
<1>5. CASE ReceiveEnd \/ ServerStopped
  BY <1>5 DEF ReceiveEnd, ServerStopped, KillParser
<1>6. CASE Server
  BY <1>6 DEF Server, HandlerFails, linkVars, parserVars
<1>7. CASE UNCHANGED vars
  BY <1>7 DEF vars, linkVars, parserVars
<1> QED
  BY <1>1, <1>2, <1>3, <1>4, <1>5, <1>6, <1>7 DEF Next, Emulate, Parse

LEMMA HistoryGrows ==
  ASSUME LinkInv, [Next]_vars
  PROVE  /\ refused \in BOOLEAN /\ wrapped \in BOOLEAN
         /\ refused = TRUE => refused' = TRUE
         /\ wrapped = TRUE => wrapped' = TRUE
         /\ \A k \in 1 .. Len(sent) : sent'[k] = sent[k]
<1>0. refused \in BOOLEAN /\ wrapped \in BOOLEAN
  BY DEF LinkInv, LinkTypeOK
<1>1. CASE Report
  BY <1>0, <1>1 DEF Report, Start
<1>2. CASE ReportStats
  <2>1. PICK tests \in 0 .. CounterMod - 1 :
               wrapped' = (wrapped \/ executed + tests >= CounterMod)
    BY <1>2 DEF ReportStats
  <2>2. wrapped = TRUE => wrapped' = TRUE
    BY <2>1
  <2>3. UNCHANGED <<refused, sent>>
    BY <1>2 DEF ReportStats, Start
  <2> QED
    BY <1>0, <2>2, <2>3
<1>3. CASE Transmit
  <2>1. /\ sent' = IF field = 1 THEN Append(sent, sending) ELSE sent
        /\ UNCHANGED <<refused, wrapped>>
    BY <1>3 DEF Transmit, SendingUnchanged
  <2>2. field = 1 => \A k \in 1 .. Len(sent) : sent'[k] = sent[k]
    BY <2>1, SenderTypes, AppendProperties
  <2> QED
    BY <1>0, <2>1, <2>2
<1>4. CASE ConnectionLost \/ SendRefused \/ EmulatorExits
  BY <1>0, <1>4 DEF ConnectionLost, SendRefused, EmulatorExits, SendingUnchanged
<1>5. CASE UNCHANGED senderVars
  BY <1>0, <1>5 DEF senderVars
<1>6. Receive \/ ReceiveEnd \/ ReceiverExits \/ ServerStopped \/ Parse \/ Server \/ UNCHANGED vars
        => UNCHANGED senderVars
  BY DEF Receive, ReceiveEnd, ReceiverExits, ServerStopped, Parse, Get, ParseHeader,
         ParseBody, Server, linkVars, vars
<1> QED
  BY <1>1, <1>2, <1>3, <1>4, <1>5, <1>6 DEF Next, Emulate

LEMMA ReaderHears ==
  ASSUME LinkInv, DeathInv, [Next]_vars
  PROVE  Heard' /\ DeathExplained'
<1>1. /\ refused \in BOOLEAN /\ wrapped \in BOOLEAN
      /\ refused = TRUE => refused' = TRUE
      /\ wrapped = TRUE => wrapped' = TRUE
      /\ \A k \in 1 .. Len(sent) : sent'[k] = sent[k]
  BY HistoryGrows
<1>2. Len(filed) \in Nat /\ Len(sent) \in Nat
  BY LinkTypes DEF LinkInv
<1>3. torn = 0 => \A k \in 1 .. Len(filed) : k \in 1 .. Len(sent)
  BY <1>2 DEF LinkInv, Behind
<1>4. CASE ~ParseBody
  <2>1. /\ filed' = filed
        /\ UNCHANGED reportVars \/ Kill \/ Fail \/ OnNewEdge \/ Run
    BY <1>4, NotHandled
  <2>2. CASE Kill
    BY <2>2 DEF Kill, Heard, DeathExplained
  <2>3. CASE Fail
    BY <2>3 DEF Fail, Heard, DeathExplained
  <2>4. CASE UNCHANGED reportVars \/ OnNewEdge \/ Run
    <3>1. UNCHANGED <<parser, inputs_executed, failed>> /\ Known' = Known
      <4>1. CASE UNCHANGED reportVars
        BY <4>1 DEF reportVars, uiVars, fileVars, pageVars, Known
      <4>2. CASE OnNewEdge
        BY <4>2 DEF OnNewEdge, FlagEdge, TimeEdge, AppendEdge, uiVars, fileVars, pageVars, Known
      <4>3. CASE Run
        BY <4>3 DEF Run, TestFlag, ClearFlag, GcovrReads, GcovrEnds, GcovrFails,
         PlotCoverage,
                    uiOnly, fileVars, pageVars, Known
      <4> QED
        BY <2>4, <4>1, <4>2, <4>3
    <3>2. DeathExplained'
      BY <1>1, <3>1 DEF DeathInv, DeathExplained
    <3>3. Heard'
      <4> SUFFICES ASSUME parser = "alive", ~refused
                   PROVE  /\ Known <=> Len(filed) > 0
                          /\ \/ inputs_executed = 0
                             \/ \E k \in 1 .. Len(filed) :
                                  /\ sent'[k].kind = "stats"
                                  /\ inputs_executed = sent'[k].executed
        BY <1>1, <2>1, <3>1 DEF Heard
      <4>1. torn = 0
        BY DEF DeathInv, TornRefused
      <4> QED
        BY <1>1, <1>3, <4>1 DEF DeathInv, Heard
    <3> QED
      BY <3>2, <3>3
  <2> QED
    BY <2>1, <2>2, <2>3, <2>4
<1>5. CASE ParseBody /\ refused
  BY <1>1, <1>5 DEF Heard, DeathExplained
<1>6. CASE ParseBody /\ ~refused
  <2>1. torn = 0
    BY <1>6 DEF DeathInv, TornRefused
  <2> DEFINE m == sent[header]
  <2>2. /\ header = Len(filed) + 1 /\ header \in 1 .. Len(sent)
        /\ Len(filed') = Len(filed) + 1 /\ parser = "alive"
        /\ Handle(m) \/ Fail
        /\ UNCHANGED <<sent, refused, wrapped>>
    BY <1>6, <2>1, DueHandled
  <2>3. m.kind \in Kinds /\ (m.kind = "target" <=> header = 1) /\ m.executed \in Nat
    BY <1>6, <2>2, SenderTypes DEF DeathInv, Greeting
  <2>4. /\ Known <=> header > 1
        /\ \/ inputs_executed = 0
           \/ \E k \in 1 .. Len(filed) :
                sent[k].kind = "stats" /\ inputs_executed = sent[k].executed
    BY <1>2, <1>6, <2>2 DEF DeathInv, Heard
  <2>5. m.kind = "stats" /\ ~wrapped => inputs_executed <= m.executed
    <3> SUFFICES ASSUME m.kind = "stats", ~wrapped PROVE inputs_executed <= m.executed
      OBVIOUS
    <3>1. CASE inputs_executed = 0
      BY <2>3, <3>1
    <3>2. ASSUME NEW k \in 1 .. Len(filed), sent[k].kind = "stats",
                 inputs_executed = sent[k].executed
          PROVE  inputs_executed <= m.executed
      <4>1. k \in 1 .. Len(sent) /\ header \in k .. Len(sent)
        BY <1>2, <2>2
      <4> QED
        BY <3>2, <4>1 DEF DeathInv, Counting
    <3> QED
      BY <2>4, <3>1, <3>2
  <2> HIDE DEF m
  <2>6. CASE Fail
    BY <2>6 DEF Fail, Heard, DeathExplained
  <2>7. CASE Handle(m)
    <3>1. CASE m.kind = "target"
      <4>1. ~Known /\ InitialMessage
        BY <2>3, <2>4, <2>7, <3>1 DEF Handle
      <4>2. parser' = "alive" /\ Known' /\ inputs_executed' = inputs_executed
        BY <2>2, <4>1 DEF InitialMessage, Known
      <4>3. inputs_executed = 0
        BY <1>2, <2>2, <2>3, <2>4, <3>1
      <4> QED
        BY <1>2, <2>2, <4>2, <4>3 DEF Heard, DeathExplained
    <3>2. CASE m.kind \in {"coverage", "crash"}
      <4>1. Known
        BY <2>2, <2>3, <2>4, <3>2
      <4>2. UpdateCoverage \/ Skip
        BY <2>7, <3>2, <4>1 DEF Handle, CrashingInput
      <4>3. UNCHANGED <<parser, inputs_executed>> /\ Known'
        BY <4>1, <4>2 DEF UpdateCoverage, Skip, reportVars, uiVars, fileVars, pageVars, Known
      <4>4. \A k \in 1 .. Len(filed) : k \in 1 .. Len(filed')
        BY <1>2, <2>2
      <4>5. \/ inputs_executed = 0
            \/ \E k \in 1 .. Len(filed') :
                 sent[k].kind = "stats" /\ inputs_executed = sent[k].executed
        BY <2>4, <4>4
      <4> QED
        BY <1>2, <2>2, <4>3, <4>5 DEF Heard, DeathExplained
    <3>3. CASE m.kind = "stats"
      <4>1. Known
        BY <2>2, <2>3, <2>4, <3>3
      <4>2. UpdateFuzzerStats(m.executed)
        BY <2>7, <3>3 DEF Handle
      <4>3. CASE inputs_executed <= m.executed
        <5>1. inputs_executed' = m.executed /\ parser' = "alive" /\ Known'
          BY <2>2, <4>1, <4>2, <4>3 DEF UpdateFuzzerStats, uiVars, fileVars, pageVars, Known
        <5>2. Len(filed') > 0 /\ header \in 1 .. Len(filed')
          BY <1>2, <2>2
        <5>3. \E k \in 1 .. Len(filed') :
                sent[k].kind = "stats" /\ inputs_executed' = sent[k].executed
          BY <3>3, <5>1, <5>2 DEF m
        <5> QED
          BY <2>2, <5>1, <5>2, <5>3 DEF Heard, DeathExplained
      <4>4. CASE ~(inputs_executed <= m.executed)
        <5>1. wrapped' /\ parser' = "dead"
          BY <1>1, <2>2, <2>5, <3>3, <4>2, <4>4 DEF UpdateFuzzerStats, Die
        <5> QED
          BY <5>1 DEF Heard, DeathExplained
      <4> QED
        BY <4>3, <4>4
    <3> QED
      BY <2>3, <3>1, <3>2, <3>3 DEF Kinds
  <2> QED
    BY <2>2, <2>6, <2>7
<1> QED
  BY <1>1, <1>4, <1>5, <1>6

(* Sizes and order agree in fuzz_server_notify.c and in the server: the    *)
(* parser dies of itself only of what fails outside the two programs, of a *)
(* send that was refused, or of a count that has wrapped.                  *)
THEOREM DeathHasACause == Spec => []DeathExplained
<1>1. Init => DeathInv
  <2> SUFFICES ASSUME Init PROVE DeathInv
    OBVIOUS
  <2>1. Len(sent) = 0 /\ Len(filed) = 0
    BY EmptySeq DEF Init
  <2>2. Greeting
    BY <2>1 DEF Init, Greeting
  <2>3. Counting
    BY <2>1, KindFacts DEF Init, Counting
  <2>4. TornRefused /\ Heard /\ DeathExplained
    BY <2>1 DEF Init, ReportsInit, TornRefused, Heard, DeathExplained, Known
  <2> QED
    BY <2>2, <2>3, <2>4 DEF DeathInv
<1>2. LinkInv /\ DeathInv /\ [Next]_vars => DeathInv'
  BY SenderCounts, ReaderHears DEF DeathInv
<1>3. DeathInv => DeathExplained
  BY DEF DeathInv
<1> QED
  BY <1>1, <1>2, <1>3, InStepAlways, PTL DEF Spec
=============================================================================
