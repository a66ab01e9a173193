-------------------------- MODULE Interrupts_proofs --------------------------
(***************************************************************************)
(* Theorems about Interrupts, for every set of vectors, every fifo size    *)
(* and every depth of nesting.                                             *)
(***************************************************************************)
EXTENDS Interrupts, SequenceTheorems, TLAPS

(* Removing one entry of the fifo leaves a shorter fifo of vectors,        *)
(* whichever order the compiler chose.                                     *)
LEMMA TakenShortens ==
  ASSUME queue \in Seq(Vectors), NEW k \in 1 .. Len(queue), NEW q \in Taken(k)
  PROVE  q \in Seq(Vectors) /\ Len(q) = Len(queue) - 1
<1>1. queue # << >> /\ Len(queue) \in Nat
  OBVIOUS
<1>2. ASSUME NEW r \in Seq(Vectors), Len(r) = Len(queue)
      PROVE  Tail(r) \in Seq(Vectors) /\ Len(Tail(r)) = Len(queue) - 1
  BY <1>1, <1>2
<1>3. [queue EXCEPT ![k] = queue[1]] \in Seq(Vectors)
      /\ Len([queue EXCEPT ![k] = queue[1]]) = Len(queue)
  BY ExceptSeq
<1>4. k < Len(queue) => /\ [queue EXCEPT ![k + 1] = queue[1]] \in Seq(Vectors)
                        /\ Len([queue EXCEPT ![k + 1] = queue[1]]) = Len(queue)
  BY ExceptSeq
<1>5. CASE q = TakenIndexFirst(k)
  BY <1>2, <1>3, <1>5 DEF TakenIndexFirst
<1>6. CASE q = TakenReadFirst(k)
  BY <1>2, <1>4, <1>6 DEF TakenReadFirst
<1> QED
  BY <1>5, <1>6 DEF Taken

(* Evaluated index first, the dequeue loses at most the entry it takes.    *)
LEMMA TakenKeepsOthers ==
  ASSUME queue \in Seq(Vectors), NEW k \in 1 .. Len(queue)
  PROVE  Entries(queue) \ {queue[k]} \subseteq Entries(TakenIndexFirst(k))
<1> DEFINE r == [queue EXCEPT ![k] = queue[1]]
<1>1. r \in Seq(Vectors) /\ Len(r) = Len(queue) /\ r # << >> /\ Len(queue) \in Nat
  BY ExceptSeq
<1>2. /\ Len(Tail(r)) = Len(queue) - 1
      /\ \A m \in 1 .. Len(queue) - 1 : Tail(r)[m] = r[m + 1]
  BY <1>1
<1>3. SUFFICES ASSUME NEW j \in 1 .. Len(queue), queue[j] # queue[k]
               PROVE  \E m \in 1 .. Len(Tail(r)) : Tail(r)[m] = queue[j]
  BY DEF Entries, TakenIndexFirst
<1>4. \E i \in 2 .. Len(queue) : r[i] = queue[j]
  <2>1. CASE j = 1
    BY <1>3, <2>1
  <2>2. CASE j # 1
    BY <1>3, <2>2
  <2> QED
    BY <2>1, <2>2
<1>5. PICK i \in 2 .. Len(queue) : r[i] = queue[j]
  BY <1>4
<1>6. i - 1 \in 1 .. Len(queue) - 1 /\ (i - 1) + 1 = i
  BY <1>1
<1> QED
  BY <1>2, <1>5, <1>6

(* Typing, and with it the bound on the fifo and on the nesting.           *)
THEOREM TypeCorrect == Spec => []TypeOK
<1>1. Init => TypeOK
  <2>1. << >> \in Seq(Vectors) /\ Len(<< >>) = 0
    BY EmptySeq
  <2>2. 0 < FifoSize /\ 0 <= NestMax /\ 0 \in -2 .. 1 /\ 0 \in 0 .. 2
    BY VectorAssumption
  <2> QED
    BY <2>1, <2>2 DEF Init, TypeOK
<1>2. TypeOK /\ [Next]_vars => TypeOK'
  <2> SUFFICES ASSUME TypeOK, [Next]_vars PROVE TypeOK'
    OBVIOUS
  <2> USE DEF vars, coreVars, tableVars
  <2>1. ASSUME NEW v \in Vectors, Raise(v) PROVE TypeOK'
    <3>1. queue' \in Seq(Vectors) /\ Len(queue') < FifoSize /\ overflowed' \in BOOLEAN
      <4>1. UNCHANGED <<queue, overflowed>> \/ Enqueue(v)
        BY <2>1 DEF Raise
      <4>2. CASE Enqueue(v)
        <5>1. CASE ~Full /\ queue' = Append(queue, v) /\ UNCHANGED overflowed
          <6>1. Len(queue) \in Nat /\ Len(queue') = Len(queue) + 1
                /\ queue' \in Seq(Vectors)
            BY <5>1 DEF TypeOK
          <6> QED
            BY <5>1, <6>1, VectorAssumption DEF Full, TypeOK
        <5>2. CASE Full /\ overflowed' = TRUE /\ UNCHANGED queue
          BY <5>2 DEF TypeOK
        <5> QED
          BY <4>2, <5>1, <5>2 DEF Enqueue
      <4> QED
        BY <4>1, <4>2 DEF TypeOK
    <3>2. interrupt_state' \in -2 .. 1 /\ state' \in {"Running", "Sleeping"}
          /\ pending' \subseteq Vectors
      BY <2>1 DEF Raise, Schedule, Wake, TypeOK
    <3> QED
      BY <2>1, <3>1, <3>2 DEF Raise, TypeOK
  <2>2. Waited \in 0 .. 2
    BY DEF Waited, TypeOK
  <2>3. ASSUME EnableInterrupts
        PROVE  sreg_i' \in BOOLEAN /\ interrupt_state' \in -2 .. 1 /\ waited' \in 0 .. 2
    <3>1. CASE sreg_i
      BY <2>2, <2>3, <3>1 DEF EnableInterrupts, TypeOK
    <3>2. CASE ~sreg_i
      BY <2>3, <3>2 DEF EnableInterrupts
    <3> QED
      BY <3>1, <3>2
  <2>4. CASE Sei
    BY <2>3, <2>4 DEF Sei, Executed, TypeOK
  <2>5. CASE Cli
    <3>1. 0 \in -2 .. 1
      OBVIOUS
    <3>2. sreg_i' = FALSE /\ interrupt_state' = 0 /\ waited' = Waited /\ phase' = "timers"
          /\ UNCHANGED <<state, running, tableVars>>
      BY <2>5 DEF Cli, Executed
    <3> QED
      BY <2>2, <3>1, <3>2 DEF TypeOK
  <2>6. CASE Reti
    <3>1. running' \in Seq(Vectors) /\ Len(running') <= NestMax
      <4>1. CASE running = << >>
        BY <2>6, <4>1 DEF Reti, TypeOK
      <4>2. CASE running # << >>
        <5>1. Len(running) - 1 \in 0 .. Len(running) /\ Len(running) \in Nat
          BY <4>2 DEF TypeOK
        <5> DEFINE n == Len(running) - 1
        <5>2. SubSeq(running, 1, n) \in Seq(Vectors) /\ Len(SubSeq(running, 1, n)) = n
          <6>1. n \in Nat /\ \A i \in 1 .. n : running[i] \in Vectors
            BY <5>1 DEF TypeOK
          <6> HIDE DEF n
          <6>2. SubSeq(running, 1, n) \in Seq(Vectors)
            BY <6>1, SubSeqProperties
          <6>3. Len(SubSeq(running, 1, n)) = IF 1 <= n THEN n - 1 + 1 ELSE 0
            BY <6>1, SubSeqProperties
          <6> QED
            BY <6>1, <6>2, <6>3
        <5>3. running' = SubSeq(running, 1, Len(running) - 1)
          BY <2>6, <4>2 DEF Reti
        <5>4. Len(running) - 1 <= NestMax
          BY <5>1, VectorAssumption DEF TypeOK
        <5> QED
          BY <5>2, <5>3, <5>4
      <4> QED
        BY <4>1, <4>2
    <3> QED
      BY <2>3, <2>6, <3>1 DEF Reti, Executed, TypeOK
  <2>7. CASE Sleep
    BY <2>2, <2>7 DEF Sleep, SleepState, Executed, TypeOK
  <2>8. CASE OtherInstruction
    BY <2>2, <2>8 DEF OtherInstruction, Executed, TypeOK
  <2>9. ASSUME NEW v \in Vectors, WriteFlag(v) PROVE TypeOK'
    <3>1. pending' \subseteq Vectors /\ raised' \subseteq Vectors
      BY <2>9 DEF WriteFlag, ClearInterrupt, TypeOK
    <3> QED
      BY <2>2, <2>9, <3>1 DEF WriteFlag, Executed, TypeOK
  <2>10. ASSUME NEW v \in Vectors, NEW on \in BOOLEAN, WriteEnable(v, on) PROVE TypeOK'
    BY <2>2, <2>10 DEF WriteEnable, Executed, TypeOK
  <2>11. CASE Reset
    <3>1. << >> \in Seq(Vectors) /\ Len(<< >>) = 0
      BY EmptySeq
    <3>2. 0 < FifoSize /\ 0 <= NestMax /\ 0 \in -2 .. 1 /\ 0 \in 0 .. 2
      BY VectorAssumption
    <3> QED
      BY <2>11, <3>1, <3>2 DEF Reset, TypeOK
  <2>12. CASE EndTimers
    BY <2>12 DEF EndTimers, TypeOK
  <2>13. CASE NothingToService
    BY <2>13 DEF NothingToService, NextRun, TypeOK
  <2>14. CASE CountDown
    BY <2>14 DEF CountDown, NextRun, AsInt, TypeOK
  <2>15. CASE DropInterrupt
    <3>1. PICK k \in 1 .. Len(queue) : queue' \in Taken(k) /\ pending' = pending \ {queue[k]}
      BY <2>15 DEF DropInterrupt
    <3>2. queue' \in Seq(Vectors) /\ Len(queue') < FifoSize
      BY <3>1, TakenShortens, VectorAssumption DEF TypeOK
    <3>3. interrupt_state' \in -2 .. 1 /\ phase' \in {"run", "timers", "service", "done"}
      BY <2>15 DEF DropInterrupt, StateAfterDrop, AsInt, NextRun
    <3>4. UNCHANGED <<state, running, waited, sreg_i, enabled, raised, overflowed>>
      BY <2>15 DEF DropInterrupt
    <3> QED
      BY <3>1, <3>2, <3>3, <3>4 DEF TypeOK
  <2>16. CASE EnterHandler
    <3>1. PICK k \in 1 .. Len(queue) :
            /\ queue' \in Taken(k) /\ ClearInterrupt(queue[k])
            /\ running' = IF Len(running) = NestMax THEN running
                          ELSE Append(running, queue[k])
      BY <2>16 DEF EnterHandler
    <3>2. queue[k] \in Vectors
      BY DEF TypeOK
    <3>3. queue' \in Seq(Vectors) /\ Len(queue') < FifoSize
      BY <3>1, TakenShortens, VectorAssumption DEF TypeOK
    <3>4. running' \in Seq(Vectors) /\ Len(running') <= NestMax
      BY <3>1, <3>2, VectorAssumption DEF TypeOK
    <3>5. pending' \subseteq Vectors /\ raised' \subseteq Vectors
      BY <3>1 DEF ClearInterrupt, TypeOK
    <3>6. 0 \in -2 .. 1
      OBVIOUS
    <3>7. /\ sreg_i' = FALSE /\ interrupt_state' = 0
          /\ phase' \in {"run", "timers", "service", "done"}
          /\ UNCHANGED <<state, waited, enabled, overflowed>>
      BY <2>16 DEF EnterHandler, NextRun
    <3> QED
      BY <3>3, <3>4, <3>5, <3>6, <3>7 DEF TypeOK
  <2>17. CASE UNCHANGED vars
    BY <2>17 DEF TypeOK
  <2> QED
    BY <2>1, <2>4, <2>5, <2>6, <2>7, <2>8, <2>9, <2>10, <2>11, <2>12, <2>13,
       <2>14, <2>15, <2>16, <2>17 DEF Next, Instruction, Service
<1>3. QED
  BY <1>1, <1>2, PTL DEF Spec

-----------------------------------------------------------------------------
(* interrupt_state agrees with the fifo after every step: an interrupt that*)
(* is queued while interrupts are on is never forgotten, and none is looked *)
(* for in an empty fifo.                                                    *)
THEOREM NeverForgotten == Spec => []StateMatchesQueue
<1>1. Init => StateMatchesQueue
  BY DEF Init, StateMatchesQueue
<1>2. TypeOK /\ StateMatchesQueue /\ [Next]_vars => StateMatchesQueue'
  <2> SUFFICES ASSUME TypeOK, StateMatchesQueue, [Next]_vars PROVE StateMatchesQueue'
    OBVIOUS
  <2> USE DEF vars, coreVars, tableVars
  <2>1. ASSUME UNCHANGED <<sreg_i, interrupt_state, queue>> PROVE StateMatchesQueue'
    BY <2>1 DEF StateMatchesQueue, HasPending
  <2>2. ASSUME interrupt_state' = 0, ~sreg_i' PROVE StateMatchesQueue'
    BY <2>2 DEF StateMatchesQueue
  <2>3. ASSUME NEW v \in Vectors, Raise(v) PROVE StateMatchesQueue'
    <3>1. sreg_i' = sreg_i
      BY <2>3 DEF Raise
    <3>2. CASE UNCHANGED <<queue, interrupt_state>>
      BY <2>1, <3>1, <3>2
    <3>3. CASE Enqueue(v) /\ interrupt_state' = Schedule
      <4>1. HasPending'
        <5>1. CASE queue' = Append(queue, v)
          BY <5>1 DEF HasPending, TypeOK
        <5>2. CASE Full /\ UNCHANGED queue
          BY <5>2, VectorAssumption DEF HasPending, Full, TypeOK
        <5> QED
          BY <3>3, <5>1, <5>2 DEF Enqueue
      <4>2. sreg_i => interrupt_state' # 0
        BY <3>3 DEF Schedule, TypeOK
      <4>3. interrupt_state' = 1 => sreg_i
        BY <3>3 DEF Schedule, StateMatchesQueue
      <4>4. interrupt_state' # 0 => sreg_i
        BY <3>3 DEF Schedule, StateMatchesQueue
      <4> QED
        BY <3>1, <4>1, <4>2, <4>3, <4>4 DEF StateMatchesQueue
    <3> QED
      BY <2>3, <3>2, <3>3 DEF Raise
  <2>4. ASSUME EnableInterrupts, UNCHANGED queue PROVE StateMatchesQueue'
    <3>1. CASE sreg_i
      BY <2>1, <2>4, <3>1 DEF EnableInterrupts
    <3>2. CASE ~sreg_i
      BY <2>4, <3>2 DEF EnableInterrupts, StateMatchesQueue
    <3> QED
      BY <3>1, <3>2
  <2>5. CASE Sei \/ Reti
    BY <2>4, <2>5 DEF Sei, Reti
  <2>6. CASE Cli \/ Reset \/ EnterHandler
    BY <2>2, <2>6 DEF Cli, Reset, EnterHandler
  <2>7. CASE Sleep \/ OtherInstruction \/ EndTimers \/ NothingToService
    BY <2>1, <2>7 DEF Sleep, OtherInstruction, EndTimers, NothingToService
  <2>8. ASSUME NEW v, WriteFlag(v) PROVE StateMatchesQueue'
    BY <2>1, <2>8 DEF WriteFlag
  <2>9. ASSUME NEW v, NEW on, WriteEnable(v, on) PROVE StateMatchesQueue'
    BY <2>1, <2>9 DEF WriteEnable
  <2>10. CASE CountDown
    <3>1. UNCHANGED <<sreg_i, queue>> /\ interrupt_state < 0
      BY <2>10 DEF CountDown
    <3>2. sreg_i
      BY <3>1 DEF StateMatchesQueue, TypeOK
    <3>3. CASE interrupt_state = -1
      BY <2>10, <3>1, <3>2, <3>3 DEF CountDown, AsInt, HasPending, StateMatchesQueue
    <3>4. CASE interrupt_state = -2
      BY <2>10, <3>1, <3>2, <3>4 DEF CountDown, HasPending, StateMatchesQueue
    <3> QED
      BY <3>1, <3>3, <3>4 DEF TypeOK
  <2>11. CASE DropInterrupt
    BY <2>11 DEF DropInterrupt, StateAfterDrop, AsInt, HasPending, StateMatchesQueue
  <2>12. CASE UNCHANGED vars
    BY <2>1, <2>12
  <2> QED
    BY <2>3, <2>5, <2>6, <2>7, <2>8, <2>9, <2>10, <2>11, <2>12
    DEF Next, Instruction, Service
<1>3. QED
  BY <1>1, <1>2, TypeCorrect, PTL DEF Spec

(* The arrays of the controller and the state cached beside them agree,    *)
(* for every number of vectors, size of the fifo and depth of nesting.     *)
THEOREM TableKept == Spec => []TableSound
BY TypeCorrect, NeverForgotten, PTL DEF TableSound

-----------------------------------------------------------------------------
(* The steps that do not take, queue or clear an interrupt.                *)
LEMMA TableSteps ==
  ASSUME [Next]_vars
  PROVE  \/ UNCHANGED <<pending, queue, overflowed>>
         \/ \E v \in Vectors : Raise(v)
         \/ \E v \in Vectors : WriteFlag(v)
         \/ Reset \/ DropInterrupt \/ EnterHandler
<1> USE DEF vars, tableVars
<1>1. CASE Sei \/ Cli \/ Reti \/ Sleep \/ OtherInstruction
  BY <1>1 DEF Sei, Cli, Reti, Sleep, OtherInstruction
<1>2. CASE EndTimers \/ NothingToService \/ CountDown
  BY <1>2 DEF EndTimers, NothingToService, CountDown
<1>3. ASSUME NEW v, NEW on, WriteEnable(v, on) PROVE UNCHANGED <<pending, queue, overflowed>>
  BY <1>3 DEF WriteEnable
<1>4. CASE UNCHANGED vars
  BY <1>4
<1> QED
  BY <1>1, <1>2, <1>3, <1>4 DEF Next, Instruction, Service

(* In a build that computes the slot first, raising, clearing, dropping and*)
(* servicing lose no other vector: only a full fifo does.                  *)
THEOREM LossNeedsOverflow ==
  EvalOrders = {"index_first"} => (Spec => []LossOnlyByOverflow)
<1> SUFFICES ASSUME EvalOrders = {"index_first"} PROVE Spec => []LossOnlyByOverflow
  OBVIOUS
<1>1. Init => LossOnlyByOverflow
  BY DEF Init, LossOnlyByOverflow, PendingQueued
<1>2. TypeOK /\ LossOnlyByOverflow /\ [Next]_vars => LossOnlyByOverflow'
  <2> SUFFICES ASSUME TypeOK, LossOnlyByOverflow, [Next]_vars PROVE LossOnlyByOverflow'
    OBVIOUS
  <2> USE DEF LossOnlyByOverflow, PendingQueued
  <2>1. CASE UNCHANGED <<pending, queue, overflowed>>
    BY <2>1 DEF Entries
  <2>2. ASSUME NEW v \in Vectors, Raise(v) PROVE LossOnlyByOverflow'
    <3>1. CASE UNCHANGED <<pending, queue, overflowed>>
      BY <2>1, <3>1
    <3>2. CASE pending' = pending \cup {v} /\ Enqueue(v)
      <4>1. CASE queue' = Append(queue, v) /\ UNCHANGED overflowed
        <5>1. Entries(queue) \cup {v} \subseteq Entries(queue')
          <6>1. /\ Len(queue') = Len(queue) + 1 /\ Len(queue) \in Nat
                /\ \A m \in 1 .. Len(queue) : queue'[m] = queue[m]
                /\ queue'[Len(queue) + 1] = v
            BY <4>1 DEF TypeOK
          <6>2. Entries(queue) \subseteq Entries(queue')
            BY <6>1 DEF Entries
          <6>3. v \in Entries(queue')
            BY <6>1 DEF Entries
          <6> QED
            BY <6>2, <6>3
        <5> QED
          BY <3>2, <4>1, <5>1
      <4>2. CASE overflowed' = TRUE
        BY <4>2
      <4> QED
        BY <3>2, <4>1, <4>2 DEF Enqueue
    <3> QED
      BY <2>2, <3>1, <3>2 DEF Raise
  <2>3. ASSUME NEW v \in Vectors, WriteFlag(v) PROVE LossOnlyByOverflow'
    <3>1. pending' \subseteq pending /\ UNCHANGED <<queue, overflowed>>
      BY <2>3 DEF WriteFlag, ClearInterrupt
    <3> QED
      BY <3>1 DEF Entries
  <2>4. CASE Reset
    BY <2>4 DEF Reset
  <2>5. CASE DropInterrupt \/ EnterHandler
    <3>1. UNCHANGED overflowed
      BY <2>5 DEF DropInterrupt, EnterHandler
    <3>2. PICK k \in 1 .. Len(queue) : queue' \in Taken(k) /\ pending' = pending \ {queue[k]}
      BY <2>5 DEF DropInterrupt, EnterHandler, ClearInterrupt
    <3>3. queue' = TakenIndexFirst(k)
      BY <3>2 DEF Taken
    <3>4. Entries(queue) \ {queue[k]} \subseteq Entries(queue')
      BY <3>3, TakenKeepsOthers DEF TypeOK
    <3> QED
      BY <3>1, <3>2, <3>4
  <2> QED
    BY <2>1, <2>2, <2>3, <2>4, <2>5, TableSteps
<1>3. QED
  BY <1>1, <1>2, TypeCorrect, PTL DEF Spec

(* The core never sleeps through an enabled interrupt unless the fifo has  *)
(* overflowed: SLEEP looks at the fifo, and raising wakes the core.        *)
THEOREM WakeupNeverLost ==
  EvalOrders = {"index_first"} => (Spec => []NoLostWakeup)
<1> SUFFICES ASSUME EvalOrders = {"index_first"} PROVE Spec => []NoLostWakeup
  OBVIOUS
<1>1. Init => NoLostWakeup
  BY DEF Init, NoLostWakeup
<1>2. TypeOK /\ LossOnlyByOverflow /\ NoLostWakeup /\ [Next]_vars => NoLostWakeup'
  <2> SUFFICES ASSUME TypeOK, LossOnlyByOverflow, NoLostWakeup, [Next]_vars
               PROVE  NoLostWakeup'
    OBVIOUS
  <2> USE DEF NoLostWakeup, vars, coreVars, tableVars
  <2>1. ASSUME NEW v \in Vectors, Raise(v) PROVE NoLostWakeup'
    BY <2>1 DEF Raise, Wake
  <2>2. ASSUME phase = "run", state = "Running", state' = state PROVE NoLostWakeup'
    BY <2>2
  <2>3. CASE Sei \/ Cli \/ Reti \/ OtherInstruction
    BY <2>2, <2>3 DEF Sei, Cli, Reti, OtherInstruction, Executed
  <2>4. ASSUME NEW v, WriteFlag(v) PROVE NoLostWakeup'
    BY <2>2, <2>4 DEF WriteFlag, Executed
  <2>5. ASSUME NEW v, NEW on, WriteEnable(v, on) PROVE NoLostWakeup'
    BY <2>2, <2>5 DEF WriteEnable, Executed
  <2>6. CASE Sleep
    <3>1. CASE HasPending /\ sreg_i
      BY <2>2, <2>6, <3>1 DEF Sleep, SleepState, Executed
    <3>2. CASE ~HasPending
      <4>1. Entries(queue) = {}
        BY <3>2 DEF HasPending, Entries
      <4>2. UNCHANGED <<pending, enabled, overflowed>>
        BY <2>6 DEF Sleep
      <4> QED
        BY <4>1, <4>2 DEF LossOnlyByOverflow, PendingQueued
    <3>3. CASE ~sreg_i
      BY <2>6, <3>3 DEF Sleep
    <3> QED
      BY <3>1, <3>2, <3>3
  <2>7. CASE Reset
    BY <2>7 DEF Reset
  <2>8. CASE EndTimers \/ NothingToService \/ CountDown
    BY <2>8 DEF EndTimers, NothingToService, CountDown
  <2>9. CASE DropInterrupt
    BY <2>9 DEF DropInterrupt
  <2>10. CASE EnterHandler
    BY <2>10 DEF EnterHandler
  <2>11. CASE UNCHANGED vars
    BY <2>11
  <2> QED
    BY <2>1, <2>3, <2>4, <2>5, <2>6, <2>7, <2>8, <2>9, <2>10, <2>11
    DEF Next, Instruction, Service
<1>3. QED
  BY <1>1, <1>2, TypeCorrect, LossNeedsOverflow, PTL DEF Spec

-----------------------------------------------------------------------------
(* Only entering a handler adds to the stack of running handlers.          *)
LEMMA OnlyEntryNests ==
  ASSUME TypeOK, [Next]_vars, Len(running') > Len(running)
  PROVE  EnterHandler
<1> USE DEF vars, coreVars, tableVars
<1>1. Len(running) \in Nat
  BY DEF TypeOK
<1>2. ASSUME UNCHANGED running PROVE FALSE
  BY <1>1, <1>2
<1>3. SUFFICES ASSUME ~EnterHandler PROVE FALSE
  OBVIOUS
<1>4. CASE Reti
  <2>1. CASE running = << >>
    BY <1>2, <1>4, <2>1 DEF Reti
  <2>2. CASE running # << >>
    <3>1. running' = SubSeq(running, 1, Len(running) - 1)
      BY <1>4, <2>2 DEF Reti
    <3>2. Len(running) - 1 \in Nat /\ \A i \in 1 .. Len(running) - 1 : running[i] \in Vectors
      BY <1>1, <2>2 DEF TypeOK
    <3>3. Len(running') = IF 1 <= Len(running) - 1 THEN Len(running) - 1 - 1 + 1 ELSE 0
      BY <3>1, <3>2, SubSeqProperties
    <3> QED
      BY <1>1, <3>2, <3>3
  <2> QED
    BY <2>1, <2>2
<1>5. CASE Reset
  <2>1. Len(running') = 0
    BY <1>5, EmptySeq DEF Reset
  <2> QED
    BY <1>1, <2>1
<1>6. CASE Sei \/ Cli \/ Sleep \/ OtherInstruction \/ EndTimers
           \/ NothingToService \/ CountDown \/ DropInterrupt
  BY <1>2, <1>6 DEF Sei, Cli, Sleep, OtherInstruction, EndTimers, NothingToService,
     CountDown, DropInterrupt
<1>7. ASSUME NEW v, Raise(v) \/ WriteFlag(v) PROVE FALSE
  BY <1>2, <1>7 DEF Raise, WriteFlag
<1>8. ASSUME NEW v, NEW on, WriteEnable(v, on) PROVE FALSE
  BY <1>2, <1>8 DEF WriteEnable
<1>9. CASE UNCHANGED vars
  BY <1>2, <1>9
<1> QED
  BY <1>3, <1>4, <1>5, <1>6, <1>7, <1>8, <1>9 DEF Next, Instruction, Service

(* How far interrupt_state has counted and what ran since S_I was set.     *)
LatencyInv ==
  /\ interrupt_state = -2 => state = "Running" /\ phase \in {"timers", "service"}
  /\ interrupt_state = -1 /\ phase # "run" => waited >= 1
  /\ sreg_i /\ interrupt_state >= 0 => waited >= 1

LEMMA LatencyAlways == Spec => []LatencyInv
<1> USE DEF vars, coreVars, tableVars
<1>1. Init => LatencyInv
  BY DEF Init, LatencyInv
<1>2. TypeOK /\ StateMatchesQueue /\ LatencyInv /\ [Next]_vars => LatencyInv'
  <2> SUFFICES ASSUME TypeOK, StateMatchesQueue, LatencyInv, [Next]_vars
               PROVE  LatencyInv'
    OBVIOUS
  <2>1. waited \in 0 .. 2 /\ interrupt_state \in {-2, -1, 0, 1}
    BY DEF TypeOK
  <2>2. Waited >= 1
    BY <2>1 DEF Waited
  <2>3. ASSUME NEW v \in Vectors, Raise(v) PROVE LatencyInv'
    <3>1. /\ UNCHANGED <<phase, waited, sreg_i>>
          /\ interrupt_state' \in {interrupt_state, Schedule}
          /\ state' \in {state, "Running"}
      BY <2>3 DEF Raise, Wake
    <3>2. CASE interrupt_state' = interrupt_state
      BY <3>1, <3>2 DEF LatencyInv
    <3>3. CASE interrupt_state' = 1 /\ sreg_i /\ interrupt_state = 0
      BY <3>1, <3>3 DEF LatencyInv
    <3> QED
      BY <3>1, <3>2, <3>3 DEF Schedule
  <2>4. ASSUME Executed, EnableInterrupts, UNCHANGED state PROVE LatencyInv'
    <3>1. CASE sreg_i
      BY <2>1, <2>2, <2>4, <3>1 DEF EnableInterrupts, Executed, LatencyInv
    <3>2. CASE ~sreg_i
      BY <2>4, <3>2 DEF EnableInterrupts, Executed, LatencyInv
    <3> QED
      BY <3>1, <3>2
  <2>5. CASE Sei \/ Reti
    BY <2>4, <2>5 DEF Sei, Reti
  <2>6. CASE Cli
    BY <2>6 DEF Cli, LatencyInv
  <2>7. ASSUME Executed, waited' = Waited, UNCHANGED <<sreg_i, interrupt_state>>
        PROVE  LatencyInv'
    BY <2>1, <2>2, <2>7 DEF Executed, LatencyInv
  <2>8. CASE Sleep \/ OtherInstruction
    BY <2>7, <2>8 DEF Sleep, OtherInstruction
  <2>9. ASSUME NEW v, WriteFlag(v) PROVE LatencyInv'
    BY <2>7, <2>9 DEF WriteFlag
  <2>10. ASSUME NEW v, NEW on, WriteEnable(v, on) PROVE LatencyInv'
    BY <2>7, <2>10 DEF WriteEnable
  <2>11. CASE Reset
    BY <2>11 DEF Reset, LatencyInv
  <2>12. CASE EndTimers
    BY <2>12 DEF EndTimers, StateMatchesQueue, LatencyInv
  <2>13. CASE NothingToService
    BY <2>13 DEF NothingToService, LatencyInv
  <2>14. CASE CountDown
    <3>1. CASE interrupt_state = -1
      BY <2>14, <3>1 DEF CountDown, AsInt, LatencyInv
    <3>2. CASE interrupt_state = -2
      BY <2>14, <3>2 DEF CountDown, NextRun, LatencyInv
    <3> QED
      BY <2>1, <2>14, <3>1, <3>2 DEF CountDown
  <2>15. CASE DropInterrupt
    BY <2>15 DEF DropInterrupt, StateAfterDrop, AsInt, LatencyInv
  <2>16. CASE EnterHandler
    BY <2>16 DEF EnterHandler, LatencyInv
  <2>17. CASE UNCHANGED vars
    BY <2>17 DEF LatencyInv
  <2> QED
    BY <2>3, <2>5, <2>6, <2>8, <2>9, <2>10, <2>11, <2>12, <2>13, <2>14, <2>15,
       <2>16, <2>17 DEF Next, Instruction, Service
<1> QED
  BY <1>1, <1>2, TypeCorrect, NeverForgotten, PTL DEF Spec

(* "set wait if enabling interrupts": the negative interrupt_state makes at*)
(* least one instruction run between SEI or RETI and the next handler.     *)
THEOREM LatencyKept == Spec => LatencyRespected
<1>1. TypeOK /\ LatencyInv /\ [Next]_vars
        => [Len(running') > Len(running) => waited >= 1]_vars
  <2> SUFFICES ASSUME TypeOK, LatencyInv, [Next]_vars, Len(running') > Len(running)
               PROVE  waited >= 1
    OBVIOUS
  <2>1. EnterHandler
    BY OnlyEntryNests
  <2> QED
    BY <2>1 DEF EnterHandler, LatencyInv
<1> QED
  BY <1>1, TypeCorrect, LatencyAlways, PTL DEF Spec, LatencyRespected

(* In a build that computes the slot first, a handler is entered only when *)
(* no vector of higher priority is pending and enabled, unless the fifo has*)
(* overflowed: such a vector is queued, and the scan finds the lowest.     *)
THEOREM PriorityKept ==
  EvalOrders = {"index_first"} => (Spec => PriorityRespected)
<1> SUFFICES ASSUME EvalOrders = {"index_first"} PROVE Spec => PriorityRespected
  OBVIOUS
<1>1. TypeOK /\ LossOnlyByOverflow /\ [Next]_vars
        => [Len(running') > Len(running) =>
              \A v \in pending \cap enabled :
                running'[Len(running')] <= v \/ overflowed]_vars
  <2> SUFFICES ASSUME TypeOK, LossOnlyByOverflow, [Next]_vars,
                      Len(running') > Len(running), ~overflowed,
                      NEW v \in pending
               PROVE  running'[Len(running')] <= v
    OBVIOUS
  <2>1. EnterHandler
    BY OnlyEntryNests
  <2>2. PICK k \in 1 .. Len(queue) :
          /\ HighestPriority(k)
          /\ running' = IF Len(running) = NestMax THEN running
                        ELSE Append(running, queue[k])
    BY <2>1 DEF EnterHandler
  <2>3. running' = Append(running, queue[k])
    BY <2>2 DEF TypeOK
  <2>4. running'[Len(running')] = queue[k]
    <3>1. running \in Seq(Vectors) /\ queue[k] \in Vectors
      BY DEF TypeOK
    <3> QED
      BY <2>3, <3>1
  <2>5. PICK m \in 1 .. Len(queue) : v = queue[m]
    BY DEF LossOnlyByOverflow, PendingQueued, Entries
  <2> QED
    BY <2>2, <2>4, <2>5 DEF HighestPriority
<1>2. QED
  BY <1>1, TypeCorrect, LossNeedsOverflow, PTL DEF Spec, PriorityRespected

-----------------------------------------------------------------------------
(* The refinement of Requests.                                             *)

(* While the core sleeps with interrupts on, its fifo is empty.            *)
SleepInv == state = "Sleeping" /\ sreg_i => queue = << >>

LEMMA SleepAlwaysEmpty == Spec => []SleepInv
<1>1. Init => SleepInv
  BY DEF Init, SleepInv
<1>2. TypeOK /\ StateMatchesQueue /\ SleepInv /\ [Next]_vars => SleepInv'
  <2> SUFFICES ASSUME TypeOK, StateMatchesQueue, SleepInv, [Next]_vars PROVE SleepInv'
    OBVIOUS
  <2> USE DEF SleepInv, vars, coreVars, tableVars
  <2>1. ASSUME NEW v, Raise(v) PROVE SleepInv'
    BY <2>1 DEF Raise, Wake
  <2>2. CASE Sei \/ Cli \/ Reti \/ OtherInstruction
    BY <2>2 DEF Sei, Cli, Reti, OtherInstruction, Executed
  <2>3. ASSUME NEW v, WriteFlag(v) PROVE SleepInv'
    BY <2>3 DEF WriteFlag, Executed
  <2>4. ASSUME NEW v, NEW on, WriteEnable(v, on) PROVE SleepInv'
    BY <2>4 DEF WriteEnable, Executed
  <2>5. CASE Sleep
    BY <2>5 DEF Sleep, SleepState, HasPending, Executed
  <2>6. CASE Reset \/ EndTimers \/ NothingToService \/ CountDown \/ UNCHANGED vars
    BY <2>6 DEF Reset, EndTimers, NothingToService, CountDown
  <2>7. CASE DropInterrupt \/ EnterHandler
    <3>1. queue # << >> /\ sreg_i /\ state' = state
      BY <2>7 DEF DropInterrupt, EnterHandler, StateMatchesQueue, HasPending
    <3> QED
      BY <3>1
  <2> QED
    BY <2>1, <2>2, <2>3, <2>4, <2>5, <2>6, <2>7 DEF Next, Instruction, Service
<1> QED
  BY <1>1, <1>2, TypeCorrect, NeverForgotten, PTL DEF Spec

ReqInv == TypeOK /\ StateMatchesQueue /\ LossOnlyByOverflow /\ LatencyInv /\ SleepInv

LEMMA RaiseRequests ==
  ASSUME ReqInv, NEW v \in Vectors, Raise(v)
  PROVE  Promise!Next \/ UNCHANGED Promise!requestVars
<1>1. UNCHANGED <<running, waited, sreg_i, enabled>>
  BY DEF Raise
<1>2. CASE UNCHANGED <<pending, overflowed, state>>
  BY <1>1, <1>2 DEF Promise!requestVars
<1>3. CASE /\ v \in enabled /\ pending' = pending \cup {v} /\ Enqueue(v)
           /\ state' = Wake
  <2>1. (state' = "Sleeping") = FALSE
    BY <1>3 DEF Wake
  <2>2. overflowed' \in {overflowed, TRUE}
    BY <1>3 DEF Enqueue
  <2>3. Promise!Request(v)
    BY <1>1, <1>3, <2>1, <2>2 DEF Promise!Request
  <2> QED
    BY <2>3 DEF Promise!Next
<1> QED
  BY <1>2, <1>3 DEF Raise

(* An instruction other than those that switch interrupts on.              *)
LEMMA InstructionSteps ==
  ASSUME TypeOK, Executed, waited' = Waited
  PROVE  /\ ~(state = "Sleeping")
         /\ (sreg_i' /\ waited' = 0) = FALSE
<1>1. waited \in 0 .. 2 /\ waited' # 0
  BY DEF TypeOK, Waited
<1> QED
  BY <1>1 DEF Executed

LEMMA EnableSwitchesOn ==
  ASSUME TypeOK, EnableInterrupts
  PROVE  Promise!SwitchOn
<1>1. waited \in 0 .. 2 /\ sreg_i \in BOOLEAN /\ Waited # 0
  BY DEF TypeOK, Waited
<1>2. (sreg_i' /\ waited' = 0) = ~sreg_i
  BY <1>1 DEF EnableInterrupts
<1>3. sreg_i' = TRUE
  BY DEF EnableInterrupts
<1> QED
  BY <1>2, <1>3 DEF Promise!SwitchOn

LEMMA InstructionKept ==
  ASSUME ReqInv, Instruction
  PROVE  Promise!Instruction
<1> USE DEF coreVars, tableVars, Promise!tableVars
<1>0. TypeOK /\ LossOnlyByOverflow
  BY DEF ReqInv
<1>1. CASE Sei
  <2>1. ~(state = "Sleeping") /\ Promise!SwitchOn
    BY <1>0, <1>1, EnableSwitchesOn DEF Sei, Executed
  <2>2. Promise!Sei
    BY <1>1, <2>1 DEF Sei, Promise!Sei
  <2> QED
    BY <2>1, <2>2 DEF Promise!Instruction
<1>2. CASE Reti
  <2>1. ~(state = "Sleeping") /\ Promise!SwitchOn
    BY <1>0, <1>2, EnableSwitchesOn DEF Reti, Executed
  <2>2. Promise!Reti
    BY <1>2, <2>1 DEF Reti, Promise!Reti
  <2> QED
    BY <2>1, <2>2 DEF Promise!Instruction
<1>3. CASE Cli
  <2>1. ~(state = "Sleeping") /\ (sreg_i' /\ waited' = 0) = FALSE
    BY <1>0, <1>3, InstructionSteps DEF Cli
  <2>2. Promise!Cli
    BY <1>3, <2>1 DEF Cli, Promise!Cli, Promise!SwitchOff
  <2> QED
    BY <2>1, <2>2 DEF Promise!Instruction
<1>4. CASE OtherInstruction
  <2>1. ~(state = "Sleeping") /\ (sreg_i' /\ waited' = 0) = FALSE
    BY <1>0, <1>4, InstructionSteps DEF OtherInstruction
  <2>2. Promise!Other
    BY <1>4, <2>1 DEF OtherInstruction, Promise!Other, Promise!Step
  <2> QED
    BY <2>1, <2>2 DEF Promise!Instruction
<1>5. CASE Sleep
  <2>1. ~(state = "Sleeping") /\ (sreg_i' /\ waited' = 0) = FALSE
    BY <1>0, <1>5, InstructionSteps DEF Sleep
  <2>2. UNCHANGED <<sreg_i, pending, enabled, running, overflowed>>
    BY <1>5 DEF Sleep
  <2>3. CASE HasPending /\ sreg_i
    <3>1. (state' = "Sleeping") = (state = "Sleeping")
      BY <1>5, <2>3 DEF Sleep, SleepState
    <3>2. Promise!Other
      BY <2>1, <2>2, <3>1 DEF Promise!Other, Promise!Step
    <3> QED
      BY <2>1, <3>2 DEF Promise!Instruction
  <2>4. CASE ~(HasPending /\ sreg_i)
    <3>1. (state' = "Sleeping") = TRUE
      BY <1>5, <2>4 DEF Sleep, SleepState
    <3>2. sreg_i => Promise!Ready = {} \/ overflowed
      <4>1. SUFFICES ASSUME sreg_i, ~overflowed PROVE Promise!Ready = {}
        OBVIOUS
      <4>2. Entries(queue) = {}
        BY <2>4, <4>1 DEF HasPending, Entries
      <4> QED
        BY <1>0, <4>1, <4>2 DEF LossOnlyByOverflow, PendingQueued, Promise!Ready
    <3>3. Promise!Sleep
      BY <2>1, <2>2, <3>1, <3>2 DEF Promise!Sleep, Promise!Step
    <3> QED
      BY <2>1, <3>3 DEF Promise!Instruction
  <2> QED
    BY <2>3, <2>4
<1>6. ASSUME NEW v \in Vectors, WriteFlag(v) PROVE Promise!Instruction
  <2>1. ~(state = "Sleeping") /\ (sreg_i' /\ waited' = 0) = FALSE
    BY <1>0, <1>6, InstructionSteps DEF WriteFlag
  <2>2. UNCHANGED <<state, sreg_i, enabled, running, overflowed>>
    BY <1>6 DEF WriteFlag
  <2>3. CASE pending' = pending \ {v}
    <3>1. Promise!Withdraw(v)
      BY <2>1, <2>2, <2>3 DEF Promise!Withdraw, Promise!Step
    <3> QED
      BY <2>1, <3>1 DEF Promise!Instruction
  <2>4. CASE UNCHANGED pending
    <3>1. Promise!Other
      BY <2>1, <2>2, <2>4 DEF Promise!Other, Promise!Step
    <3> QED
      BY <2>1, <3>1 DEF Promise!Instruction
  <2> QED
    BY <1>6, <2>3, <2>4 DEF WriteFlag, ClearInterrupt
<1>7. ASSUME NEW v \in Vectors, NEW on \in BOOLEAN, WriteEnable(v, on)
      PROVE  Promise!Instruction
  <2>1. ~(state = "Sleeping") /\ (sreg_i' /\ waited' = 0) = FALSE
    BY <1>0, <1>7, InstructionSteps DEF WriteEnable
  <2>2. /\ UNCHANGED <<state, sreg_i, pending, running, overflowed>>
        /\ enabled' = enabled \cup {v} \/ enabled' = enabled \ {v}
    BY <1>7 DEF WriteEnable
  <2>3. Promise!Mask(v) \/ Promise!Unmask(v)
    BY <2>1, <2>2 DEF Promise!Mask, Promise!Unmask, Promise!Step
  <2> QED
    BY <2>1, <2>3 DEF Promise!Instruction
<1> QED
  BY <1>1, <1>2, <1>3, <1>4, <1>5, <1>6, <1>7 DEF Instruction

(* The entry taken from the fifo is the first of the requests.             *)
LEMMA TakenAttends ==
  ASSUME ReqInv, NEW k \in 1 .. Len(queue), HighestPriority(k), queue[k] \in pending,
         interrupt_state = 1, sreg_i, pending' = pending \ {queue[k]}
  PROVE  Promise!Attends(queue[k])
<1>1. ~(sreg_i /\ waited = 0)
  BY DEF ReqInv, LatencyInv
<1>2. ~(state = "Sleeping")
  BY DEF ReqInv, SleepInv, StateMatchesQueue, HasPending
<1>3. ASSUME NEW u \in Promise!Ready PROVE queue[k] <= u \/ overflowed
  <2> SUFFICES ASSUME ~overflowed PROVE queue[k] <= u
    OBVIOUS
  <2>1. PICK m \in 1 .. Len(queue) : u = queue[m]
    BY <1>3 DEF ReqInv, LossOnlyByOverflow, PendingQueued, Promise!Ready, Entries
  <2> QED
    BY <2>1 DEF HighestPriority
<1> QED
  BY <1>1, <1>2, <1>3 DEF Promise!Attends, Promise!First

LEMMA ServiceKept ==
  ASSUME ReqInv, Service
  PROVE  Promise!Next \/ UNCHANGED Promise!requestVars
<1> USE DEF coreVars, tableVars
<1>1. CASE NothingToService \/ CountDown
  BY <1>1 DEF NothingToService, CountDown, Promise!requestVars
<1>2. CASE DropInterrupt
  <2>1. PICK k \in 1 .. Len(queue) :
          /\ HighestPriority(k) /\ queue[k] \notin enabled \cap pending
          /\ pending' = pending \ {queue[k]}
    BY <1>2 DEF DropInterrupt
  <2>2. /\ interrupt_state = 1 /\ sreg_i
        /\ UNCHANGED <<state, running, waited, sreg_i, enabled, overflowed>>
    BY <1>2 DEF DropInterrupt
  <2>3. CASE queue[k] \in pending
    <3>1. Promise!Drop(queue[k])
      BY <2>1, <2>2, <2>3, TakenAttends DEF Promise!Drop
    <3>2. queue[k] \in Vectors
      BY <2>3 DEF ReqInv, TypeOK
    <3> QED
      BY <3>1, <3>2 DEF Promise!Next
  <2>4. CASE queue[k] \notin pending
    <3>1. pending' = pending
      BY <2>1, <2>4
    <3> QED
      BY <2>2, <3>1 DEF Promise!requestVars
  <2> QED
    BY <2>3, <2>4
<1>3. CASE EnterHandler
  <2>1. PICK k \in 1 .. Len(queue) :
          /\ HighestPriority(k) /\ queue[k] \in enabled \cap pending
          /\ pending' = pending \ {queue[k]}
          /\ running' = IF Len(running) = NestMax THEN running
                        ELSE Append(running, queue[k])
    BY <1>3 DEF EnterHandler, ClearInterrupt
  <2>2. /\ interrupt_state = 1 /\ sreg_i /\ sreg_i' = FALSE
        /\ UNCHANGED <<state, enabled, overflowed>>
    BY <1>3 DEF EnterHandler
  <2>3. Promise!Attends(queue[k]) /\ queue[k] \in Vectors
    BY <2>1, <2>2, TakenAttends DEF ReqInv, TypeOK
  <2>4. Promise!SwitchOff
    BY <2>2 DEF Promise!SwitchOff
  <2>5. Promise!Serve(queue[k])
    BY <2>1, <2>2, <2>3, <2>4 DEF Promise!Serve
  <2> QED
    BY <2>3, <2>5 DEF Promise!Next
<1> QED
  BY <1>1, <1>2, <1>3 DEF Service

LEMMA RequestStep == ReqInv /\ [Next]_vars => [Promise!Next]_(Promise!requestVars)
<1> SUFFICES ASSUME ReqInv, [Next]_vars
             PROVE  Promise!Next \/ UNCHANGED Promise!requestVars
  OBVIOUS
<1>1. ASSUME NEW v \in Vectors, Raise(v)
      PROVE  Promise!Next \/ UNCHANGED Promise!requestVars
  BY <1>1, RaiseRequests
<1>2. CASE Instruction
  BY <1>2, InstructionKept DEF Promise!Next
<1>3. CASE Service
  BY <1>3, ServiceKept
<1>4. CASE Reset
  <2>1. Promise!Reset
    BY <1>4 DEF Reset, Promise!Reset, Promise!SwitchOff
  <2> QED
    BY <2>1 DEF Promise!Next
<1>5. CASE EndTimers \/ UNCHANGED vars
  BY <1>5 DEF EndTimers, vars, coreVars, tableVars, Promise!requestVars
<1> QED
  BY <1>1, <1>2, <1>3, <1>4, <1>5 DEF Next

(* In a build that computes the slot first, the fifo with its cached state *)
(* implements the set of requests: no request is served out of turn, twice,*)
(* within the wait after SEI or to a sleeping core, and none disappears    *)
(* otherwise (sim_interrupts.c with the run loop).                         *)
THEOREM FifoKeepsRequests ==
  EvalOrders = {"index_first"} => (Spec => RequestsKept)
<1> SUFFICES ASSUME EvalOrders = {"index_first"} PROVE Spec => RequestsKept
  OBVIOUS
<1>1. Init => Promise!Init
  BY DEF Init, Promise!Init
<1>2. ReqInv /\ [Next]_vars => [Promise!Next]_(Promise!requestVars)
  BY RequestStep
<1>3. TypeOK /\ StateMatchesQueue /\ LossOnlyByOverflow /\ LatencyInv /\ SleepInv => ReqInv
  BY DEF ReqInv
<1> QED
  BY <1>1, <1>2, <1>3, TypeCorrect, NeverForgotten, LossNeedsOverflow, LatencyAlways,
     SleepAlwaysEmpty, PTL DEF Spec, RequestsKept, Promise!Spec
=============================================================================
