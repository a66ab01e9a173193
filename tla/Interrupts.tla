----------------------------- MODULE Interrupts -----------------------------
(***************************************************************************)
(* The interrupt controller of the emulated core: sim_interrupts.c over    *)
(* the FIFO of fifo_declare.h, with what avr_run_one (SEI, CLI, RETI,      *)
(* SLEEP), avr_sreg_set and avr_callback_run_raw do to it.                 *)
(*                                                                         *)
(* Peripherals, cycle timers and patches are the environment: they raise   *)
(* vectors.  Firmware is the environment too: it enables and disables      *)
(* vectors, clears their flags, and executes any instruction at any time.  *)
(* The irq notifications (avr_raise_irq) only inform listeners outside the *)
(* core and are left out.                                                  *)
(***************************************************************************)
EXTENDS Integers, Sequences

CONSTANTS
  Vectors,    \* vector numbers; a lower number has priority
  Sticky,     \* vectors with raise_sticky: servicing leaves the flag raised
  FifoSize,   \* avr_int_pending_fifo_size, 64 in the code
  NestMax,    \* ARRAY_SIZE(table->running), 64 in the code
  EvalOrders  \* orders in which the compiler evaluates the dequeue assignment

ASSUME VectorAssumption ==
  /\ Vectors \subseteq Nat \ {0} /\ Sticky \subseteq Vectors
  /\ FifoSize \in Nat /\ FifoSize > 1
  /\ NestMax \in Nat \ {0}
  /\ EvalOrders \subseteq {"index_first", "read_first"}

VARIABLES
  phase,           \* avr_callback_run_raw: "run", "timers", "service", "done"
  state,           \* avr->state: "Running" or "Sleeping"
  sreg_i,          \* avr->sreg[S_I]
  interrupt_state, \* avr->interrupt_state
  enabled,         \* vectors whose enable bit is set
  raised,          \* vectors whose raised bit is set
  pending,         \* vectors with vector->pending
  queue,           \* table->pending, from read to write
  running,         \* table->running up to running_ptr, innermost last
  overflowed,      \* history: a write to a full fifo was ignored
  waited           \* history: instructions run since S_I was last set, up to 2

coreVars == <<phase, state, running, waited>>
tableVars == <<enabled, raised, pending, queue, overflowed>>
vars == <<coreVars, sreg_i, interrupt_state, tableVars>>

Entries(q) == {q[k] : k \in 1 .. Len(q)}
HasPending == queue # << >>
AsInt(b) == IF b THEN 1 ELSE 0

TypeOK ==
  /\ phase \in {"run", "timers", "service", "done"}
  /\ state \in {"Running", "Sleeping"}
  /\ sreg_i \in BOOLEAN /\ overflowed \in BOOLEAN
  /\ interrupt_state \in -2 .. 1
  /\ enabled \subseteq Vectors /\ raised \subseteq Vectors /\ pending \subseteq Vectors
  /\ queue \in Seq(Vectors) /\ Len(queue) < FifoSize
  /\ running \in Seq(Vectors) /\ Len(running) <= NestMax
  /\ waited \in 0 .. 2

-----------------------------------------------------------------------------
(* The core is woken from sleep by an enabled interrupt.                   *)
Wake == "Running"

Schedule == IF sreg_i /\ interrupt_state = 0 THEN 1 ELSE interrupt_state

Full == Len(queue) = FifoSize - 1

(* avr_int_pending_write: a write to a full fifo is ignored.               *)
Enqueue(v) ==
  \/ ~Full /\ queue' = Append(queue, v) /\ UNCHANGED overflowed
  \/ Full /\ overflowed' = TRUE /\ UNCHANGED queue

(* avr_raise_interrupt, from a peripheral, a cycle timer or a patch.       *)
Raise(v) ==
  /\ phase \in {"run", "timers"}
  /\ phase = "run" => state = "Running"
  /\ raised' = raised \cup {v}
  /\ \/ /\ v \in pending \/ v \notin enabled
        /\ UNCHANGED <<pending, queue, overflowed, interrupt_state, state>>
     \/ /\ v \in enabled \ pending
        /\ pending' = pending \cup {v}
        /\ Enqueue(v)
        /\ interrupt_state' = Schedule
        /\ state' = Wake
  /\ UNCHANGED <<phase, running, waited, sreg_i, enabled>>

(* avr_clear_interrupt: the entry stays in the fifo.                       *)
ClearInterrupt(v) ==
  /\ pending' = pending \ {v}
  /\ raised' = IF v \in Sticky THEN raised ELSE raised \ {v}

-----------------------------------------------------------------------------
(* Instructions of avr_run_one.                                            *)

Executed ==
  /\ phase = "run" /\ state = "Running"
  /\ phase' = "timers"

Waited == IF waited < 2 THEN waited + 1 ELSE waited

\* Fault: the latency starts again although interrupts are on already.
EnableInterruptsAgain ==
  /\ sreg_i' = TRUE
  /\ interrupt_state' = -2 /\ waited' = 0

(* avr_sreg_set on S_I: two services pass before interrupts are looked at. *)
EnableInterrupts ==
  /\ sreg_i' = TRUE
  /\ IF sreg_i
     THEN interrupt_state' = interrupt_state /\ waited' = Waited
     ELSE interrupt_state' = -2 /\ waited' = 0

Sei ==
  /\ Executed /\ EnableInterrupts
  /\ UNCHANGED <<state, running, tableVars>>

Cli ==
  /\ Executed
  /\ sreg_i' = FALSE /\ interrupt_state' = 0
  /\ waited' = Waited
  /\ UNCHANGED <<state, running, tableVars>>

(* RETI sets S_I and avr_interrupt_reti pops the innermost handler.        *)
Reti ==
  /\ Executed /\ EnableInterrupts
  /\ running' = IF running = << >> THEN running
                ELSE SubSeq(running, 1, Len(running) - 1)
  /\ UNCHANGED <<state, tableVars>>

\* Fault: SLEEP does not look at the fifo.
SleepAlways == "Sleeping"

SleepState == IF ~HasPending \/ ~sreg_i THEN "Sleeping" ELSE state

Sleep ==
  /\ Executed
  /\ state' = SleepState
  /\ waited' = Waited
  /\ UNCHANGED <<running, sreg_i, interrupt_state, tableVars>>

(* A write to an interrupt enable bit.                                     *)
WriteEnable(v, on) ==
  /\ Executed
  /\ enabled' = IF on THEN enabled \cup {v} ELSE enabled \ {v}
  /\ waited' = Waited
  /\ UNCHANGED <<state, running, sreg_i, interrupt_state, raised, pending, queue,
                 overflowed>>

(* avr_clear_interrupt_if: a one written to a raised flag clears it.       *)
WriteFlag(v) ==
  /\ Executed
  /\ IF v \in raised THEN ClearInterrupt(v) ELSE UNCHANGED <<pending, raised>>
  /\ waited' = Waited
  /\ UNCHANGED <<state, running, sreg_i, interrupt_state, enabled, queue, overflowed>>

OtherInstruction ==
  /\ Executed
  /\ waited' = Waited
  /\ UNCHANGED <<state, running, sreg_i, interrupt_state, tableVars>>

(* avr_interrupt_reset within avr_reset, which also zeroes SREG and the    *)
(* I/O registers with the enable and raised bits.  The watchdog resets the *)
(* core between two calls of avr_callback_run_raw, also a sleeping one.    *)
Reset ==
  /\ phase = "run" \/ (phase = "timers" /\ state = "Sleeping")
  /\ phase' = "run" /\ state' = "Running"
  /\ sreg_i' = FALSE /\ interrupt_state' = 0
  /\ enabled' = {} /\ raised' = {} /\ pending' = {}
  /\ queue' = << >> /\ running' = << >>
  /\ overflowed' = FALSE /\ waited' = 0

-----------------------------------------------------------------------------
(* avr_callback_run_raw after the cycle timers.                            *)
EndTimers ==
  /\ phase = "timers"
  /\ phase' = IF state = "Sleeping" /\ ~sreg_i THEN "done" ELSE "service"
  /\ UNCHANGED <<state, running, waited, sreg_i, interrupt_state, tableVars>>

NextRun == phase' = IF state = "Running" THEN "run" ELSE "timers"

NothingToService ==
  /\ phase = "service" /\ interrupt_state = 0
  /\ NextRun
  /\ UNCHANGED <<state, running, waited, sreg_i, interrupt_state, tableVars>>

(* interrupt_state < 0: the latency after interrupts were enabled.         *)
CountDown ==
  /\ phase = "service" /\ interrupt_state < 0
  /\ interrupt_state' = IF interrupt_state = -1 THEN AsInt(HasPending)
                        ELSE interrupt_state + 1
  /\ NextRun
  /\ UNCHANGED <<state, running, waited, sreg_i, tableVars>>

\* Fault: the oldest entry is serviced, whatever its priority.
OldestFirst(k) == k = 1

(* The first of the queued vectors with the lowest number.                 *)
HighestPriority(k) ==
  \A m \in 1 .. Len(queue) : /\ queue[k] <= queue[m]
                             /\ m < k => queue[k] # queue[m]

\* Fault: the slot is computed after the read has advanced the cursor.
TakenReadFirst(k) ==
  Tail(IF k < Len(queue) THEN [queue EXCEPT ![k + 1] = queue[1]] ELSE queue)

(* The queue without entry k.  The code assigns the entry at the front to  *)
(* slot read + mini; C leaves open whether that slot is computed before or *)
(* after avr_int_pending_read advances read.                               *)
TakenIndexFirst(k) == Tail([queue EXCEPT ![k] = queue[1]])

Taken(k) ==
  {IF order = "index_first" THEN TakenIndexFirst(k) ELSE TakenReadFirst(k) :
     order \in EvalOrders}

\* Fault: a masked entry leaves no interrupt to look at.
StateAfterDropIdle == 0

StateAfterDrop == AsInt(queue' # << >>)

(* The entry taken is masked, was cleared, or repeats one that was served. *)
DropInterrupt ==
  /\ phase = "service" /\ interrupt_state = 1 /\ sreg_i
  /\ \E k \in 1 .. Len(queue) :
       /\ HighestPriority(k)
       /\ queue[k] \notin enabled \cap pending
       /\ queue' \in Taken(k)
       /\ pending' = pending \ {queue[k]}
  /\ interrupt_state' = StateAfterDrop
  /\ NextRun
  /\ UNCHANGED <<state, running, waited, sreg_i, enabled, raised, overflowed>>

EnterHandler ==
  /\ phase = "service" /\ interrupt_state = 1 /\ sreg_i
  /\ \E k \in 1 .. Len(queue) :
       /\ HighestPriority(k)
       /\ queue[k] \in enabled \cap pending
       /\ queue' \in Taken(k)
       /\ ClearInterrupt(queue[k])
       /\ running' = IF Len(running) = NestMax THEN running
                     ELSE Append(running, queue[k])
  /\ sreg_i' = FALSE /\ interrupt_state' = 0
  /\ NextRun
  /\ UNCHANGED <<state, waited, enabled, overflowed>>

-----------------------------------------------------------------------------
Init ==
  /\ phase = "run" /\ state = "Running"
  /\ sreg_i = FALSE /\ interrupt_state = 0
  /\ enabled = {} /\ raised = {} /\ pending = {}
  /\ queue = << >> /\ running = << >>
  /\ overflowed = FALSE /\ waited = 0

Instruction ==
  \/ Sei \/ Cli \/ Reti \/ Sleep \/ OtherInstruction
  \/ \E v \in Vectors : WriteFlag(v)
  \/ \E v \in Vectors, on \in BOOLEAN : WriteEnable(v, on)

Service == NothingToService \/ CountDown \/ DropInterrupt \/ EnterHandler

Next ==
  \/ \E v \in Vectors : Raise(v)
  \/ Instruction \/ Reset \/ EndTimers \/ Service

(* The emulator is one thread that main keeps calling.                     *)
Spec == Init /\ [][Next]_vars
FairSpec == Spec /\ WF_vars(Next)

-----------------------------------------------------------------------------
(* While interrupts are on, a queued one is never forgotten: interrupt_state*)
(* is nonzero until avr_service_interrupts has emptied the fifo.  And it is *)
(* never positive on an empty fifo, from which the code would read NULL.    *)
StateMatchesQueue ==
  /\ sreg_i /\ HasPending => interrupt_state # 0
  /\ interrupt_state # 0 => sreg_i
  /\ interrupt_state = 1 => HasPending

(* The arrays of the controller hold, and the state cached beside them     *)
(* agrees with what they hold.                                             *)
TableSound == TypeOK /\ StateMatchesQueue

(* pending is set "while scheduled in the fifo" (sim_interrupts.h).        *)
PendingQueued == pending \subseteq Entries(queue)

(* A pending vector can only be missing from the fifo once the fifo was    *)
(* full: dequeuing, dropping and clearing lose no other vector.            *)
LossOnlyByOverflow == PendingQueued \/ overflowed

(* The core does not sleep on an interrupt that ought to wake it, whatever *)
(* the order of raise, SEI and SLEEP (the check in SLEEP and in raise).    *)
NoLostWakeup ==
  state = "Sleeping" /\ sreg_i => pending \cap enabled = {} \/ overflowed

(* When a handler is entered no vector of higher priority is pending and   *)
(* enabled.                                                                *)
PriorityRespected ==
  [][ Len(running') > Len(running) =>
        \A v \in pending \cap enabled : running'[Len(running')] <= v \/ overflowed ]_vars

(* "set wait if enabling interrupts" (sim_core.h): at least one more       *)
(* instruction runs between enabling interrupts and a handler.             *)
LatencyRespected == [][ Len(running') > Len(running) => waited >= 1 ]_vars

(* The fifo and its cached state keep what Requests promises: whatever is  *)
(* raised, masked, cleared and enabled in between, a request is served by  *)
(* its priority, once, or withdrawn, and never while the core sleeps or in *)
(* the wait after SEI (sim_interrupts.c with the run loop).                *)
Promise == INSTANCE Requests WITH
  requested <- pending, on <- sreg_i, fresh <- sreg_i /\ waited = 0,
  asleep <- state = "Sleeping", handlers <- running, lossy <- overflowed
RequestsKept == Promise!Spec

(* With interrupts on, the pending interrupt of the highest priority does  *)
(* not wait for ever, however the others are raised and cleared.           *)
Top == CHOOSE v \in Vectors : \A u \in Vectors : v <= u
TopServed ==
  Top \in pending \cap enabled /\ sreg_i ~>
    Top \notin pending \cap enabled \/ ~sreg_i \/ overflowed
=============================================================================
