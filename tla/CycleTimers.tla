---------------------------- MODULE CycleTimers ----------------------------
(***************************************************************************)
(* The cycle timers of the core: sim_cycle_timers.c, as avr_callback_run_raw*)
(* of sim_avr.c drives it.                                                 *)
(*                                                                         *)
(* avr->cycle is not kept: every time is relative to it, so that time      *)
(* passing moves all timers towards and below 0.  The peripherals are the  *)
(* environment: they register and cancel timers from instructions and from *)
(* within callbacks, and a callback answers when it wants to be called     *)
(* next.  run_cycle_limit is 1 after a reset and nothing raises it, so     *)
(* run_cycle_count is 1 throughout and is left out.                        *)
(***************************************************************************)
EXTENDS Integers, Sequences, FiniteSets

CONSTANTS
  Timers,       \* what may be timed: the pairs <<timer, param>>
  MaxTimers,    \* MAX_CYCLE_TIMERS, 64 in the code
  Delays,       \* cycles ahead for which a timer may be asked
  Haste,        \* by how many cycles it may be asked for too late
  MaxCycles,    \* the longest instruction, in cycles
  DefaultSleep  \* DEFAULT_SLEEP_CYCLES, 1000 in the code

\* A delay may be 0, or negative: the time asked for has passed already.
ASSUME TimerAssumption ==
  /\ IsFiniteSet(Timers) /\ MaxTimers \in Nat \ {0}
  /\ Delays \subseteq Int /\ Haste \in Nat /\ \A d \in Delays : d >= -Haste
  /\ MaxCycles \in Nat \ {0} /\ DefaultSleep \in Nat

VARIABLES
  phase,   \* "run", "process" of avr_cycle_timer_process, "callback", "idle"
  timer,   \* pool->timer: the active list, by the time each is due
  free,    \* length of pool->timer_free
  firing,  \* the detached slot whose callback runs: none or one
  wanted,  \* history: timers asked for that neither expired nor were cancelled
  crowded  \* history: all slots were wanted at once since the last reset

vars == <<phase, timer, free, firing, wanted, crowded>>

Slots == [id : Timers, when : Int]
Ids(q) == {q[k].id : k \in 1 .. Len(q)}

TypeOK ==
  /\ phase \in {"run", "process", "callback", "idle"}
  /\ timer \in Seq(Slots) /\ firing \in Seq(Slots) /\ Len(firing) <= 1
  /\ free \in 0 .. MaxTimers
  /\ wanted \subseteq Timers /\ crowded \in BOOLEAN

-----------------------------------------------------------------------------
\* Fault: a timer is put before those that are due at the same time or later.
BeforePlace(q, w) ==
  CHOOSE n \in 0 .. Len(q) : /\ \A k \in 1 .. n : q[k].when > w
                             /\ n < Len(q) => q[n + 1].when <= w

(* How many timers stay ahead of one that is due at w.                     *)
Place(q, w) ==
  CHOOSE n \in 0 .. Len(q) : /\ \A k \in 1 .. n : q[k].when <= w
                             /\ n < Len(q) => q[n + 1].when > w

InsertSlot(q, slot) ==
  LET n == Place(q, slot.when)
  IN  [k \in 1 .. Len(q) + 1 |-> IF k <= n THEN q[k]
                                 ELSE IF k = n + 1 THEN slot ELSE q[k - 1]]

\* Fault: the first slot of the list is freed, whoever it belongs to.
WithoutFirst(q, t) == IF t \in Ids(q) THEN Tail(q) ELSE q

(* avr_cycle_timer_cancel detaches the first slot of t.                    *)
Without(q, t) ==
  IF t \notin Ids(q) THEN q
  ELSE LET n == CHOOSE k \in 1 .. Len(q) :
                  q[k].id = t /\ \A j \in 1 .. k - 1 : q[j].id # t
       IN  [k \in 1 .. Len(q) - 1 |-> IF k < n THEN q[k] ELSE q[k + 1]]

Want(set) ==
  /\ wanted' = set
  /\ crowded' = (crowded \/ Cardinality(set) >= MaxTimers)

(* Instructions, interrupts and callbacks of peripherals.                  *)
MayCall == phase \in {"run", "callback"}

(* avr_cycle_timer_register: cancel, and insert if a slot is free.         *)
Register(t, delay) ==
  LET rest == Without(timer, t)
      left == free + Len(timer) - Len(rest)
  IN  /\ MayCall
      /\ IF left = 0
         THEN timer' = rest /\ free' = left
         ELSE timer' = InsertSlot(rest, [id |-> t, when |-> delay]) /\ free' = left - 1
      /\ Want(wanted \cup {t})
      /\ UNCHANGED <<phase, firing>>

(* What a peripheral asks for in a callback lies after the time that the    *)
(* callback is for, but may be due already: avr_timer_tov asks for a compare*)
(* match comp_cycles after the overflow that it is called for.             *)
Timely(delay) == phase = "callback" => delay > firing[1].when

Ask(t, delay) == Timely(delay) /\ Register(t, delay)

Cancel(t) ==
  /\ MayCall
  /\ timer' = Without(timer, t)
  /\ free' = free + Len(timer) - Len(timer')
  /\ Want(wanted \ {t})
  /\ UNCHANGED <<phase, firing>>

(* avr_cycle_timer_reset, from avr_reset.                                  *)
Reset ==
  /\ phase \in {"run", "idle"}
  /\ phase' = "run"
  /\ timer' = << >> /\ free' = MaxTimers
  /\ wanted' = {} /\ crowded' = FALSE
  /\ UNCHANGED firing

-----------------------------------------------------------------------------
Later(q, cycles) == [k \in 1 .. Len(q) |-> [q[k] EXCEPT !.when = @ - cycles]]

(* avr_run_one.                                                            *)
Execute(cycles) ==
  /\ phase = "run"
  /\ timer' = Later(timer, cycles)
  /\ phase' = "process"
  /\ UNCHANGED <<free, firing, wanted, crowded>>

\* Fault: a timer that is due right now is left for the next pass.
DuePast(w) == w < 0

Due(w) == w <= 0

(* The head of the list is due: its slot is detached.                      *)
Fire ==
  /\ phase = "process" /\ timer # << >> /\ Due(Head(timer).when)
  /\ firing' = <<Head(timer)>>
  /\ timer' = Tail(timer)
  /\ phase' = "callback"
  /\ UNCHANGED <<free, wanted, crowded>>

\* Fault: a callback may answer with the time it was called for.
AgainSame(w, when) == w >= when

(* The answer counts only if it lies after the time the callback was for.  *)
Again(w, when) == w > when

(* The callback asks for nothing more (it returned 0, or no later time).   *)
Expire(w) ==
  /\ phase = "callback" /\ ~Again(w, firing[1].when)
  /\ free' = free + 1
  /\ Want(IF firing[1].id \in Ids(timer) THEN wanted ELSE wanted \ {firing[1].id})
  /\ firing' = << >> /\ phase' = "process"
  /\ UNCHANGED timer

(* It wants to run again at a time that has passed: it is called at once.  *)
CatchUp(w) ==
  /\ phase = "callback" /\ Again(w, firing[1].when) /\ Due(w)
  /\ firing' = <<[firing[1] EXCEPT !.when = w]>>
  /\ Want(wanted \cup {firing[1].id})
  /\ UNCHANGED <<phase, timer, free>>

\* Fault: both the insertion and the caller give the fired slot back.
FreedTwice == 2

(* The fired slot goes to the free ones, after the insertion.              *)
Freed == 1

\* Fault: the slot is inserted with the time it was called for.
RescheduleSame(w) ==
  /\ phase = "callback" /\ Again(w, firing[1].when) /\ ~Due(w) /\ free > 0
  /\ timer' = InsertSlot(timer, firing[1]) /\ free' = free - 1 + Freed
  /\ Want(wanted \cup {firing[1].id})
  /\ firing' = << >> /\ phase' = "process"

(* It is rescheduled, in another slot, before its own slot becomes free.   *)
Reschedule(w) ==
  /\ phase = "callback" /\ Again(w, firing[1].when) /\ ~Due(w)
  /\ IF free = 0
     THEN timer' = timer /\ free' = Freed
     ELSE /\ timer' = InsertSlot(timer, [firing[1] EXCEPT !.when = w])
          /\ free' = free - 1 + Freed
  /\ Want(wanted \cup {firing[1].id})
  /\ firing' = << >> /\ phase' = "process"

(* A callback returns.  One that has registered itself returns 0: no       *)
(* peripheral does both.                                                   *)
Return ==
  \E d \in Delays \cup {0} :
    LET w == firing[1].when + d
    IN  /\ phase = "callback"
        /\ firing[1].id \in Ids(timer) => d = 0
        /\ Expire(w) \/ CatchUp(w) \/ Reschedule(w)

ProcessDone ==
  /\ phase = "process"
  /\ timer # << >> => ~Due(Head(timer).when)
  /\ phase' = "idle"
  /\ UNCHANGED <<timer, free, firing, wanted, crowded>>

SleepCycles == IF timer = << >> THEN DefaultSleep ELSE Head(timer).when

(* The core is asleep: cycle += 1 + sleep.                                 *)
Sleep ==
  /\ phase = "idle"
  /\ timer' = Later(timer, 1 + SleepCycles)
  /\ phase' = "process"
  /\ UNCHANGED <<free, firing, wanted, crowded>>

Awake ==
  /\ phase = "idle"
  /\ phase' = "run"
  /\ UNCHANGED <<timer, free, firing, wanted, crowded>>

-----------------------------------------------------------------------------
Init ==
  /\ phase = "run"
  /\ timer = << >> /\ free = MaxTimers /\ firing = << >>
  /\ wanted = {} /\ crowded = FALSE

Process == Fire \/ Return \/ ProcessDone

Next ==
  \/ \E t \in Timers, d \in Delays : Ask(t, d)
  \/ \E t \in Timers : Cancel(t)
  \/ \E cycles \in 1 .. MaxCycles : Execute(cycles)
  \/ Reset \/ Process \/ Sleep \/ Awake

Spec == Init /\ [][Next]_vars

(* The emulator is one thread, and the callbacks return.                   *)
FairSpec == Spec /\ WF_vars(Process)

-----------------------------------------------------------------------------
(* Every slot is in the active list, in the free list or being fired.      *)
SlotsConserved == Len(timer) + Len(firing) + free = MaxTimers

(* The list is sorted, which is what lets the core look at its head only,  *)
(* and holds each timer once, which is what lets a cancel stop it.         *)
ListSound ==
  /\ \A j, k \in 1 .. Len(timer) : j < k => timer[j].when <= timer[k].when
  /\ \A j, k \in 1 .. Len(timer) : timer[j].id = timer[k].id => j = k

(* Through inserts and cancels from within callbacks the pool stays intact *)
(* (insert, cancel, the re-insertion of a fired timer and reset together). *)
PoolIntact == TypeOK /\ SlotsConserved /\ ListSound

(* What was asked for is scheduled and what was cancelled is not, unless   *)
(* all slots were taken (register, cancel and process together).           *)
Scheduled ==
  /\ Ids(timer) \subseteq wanted
  /\ wanted \subseteq Ids(timer) \cup Ids(firing) \/ crowded

(* When the core goes on, no timer is overdue (the early return of         *)
(* avr_cycle_timer_process and the sleep it computes from the head).       *)
NoneOverdue == phase = "idle" => \A k \in 1 .. Len(timer) : timer[k].when > 0

(* The list and its slots keep what Alarms promises the peripherals: each  *)
(* of them is called, in order, in the first pass after the time it asked  *)
(* for last (sim_cycle_timers.c as a whole).                               *)
SlotsOf(q) == {q[k] : k \in 1 .. Len(q)}
Promise == INSTANCE Alarms WITH alarms <- SlotsOf(timer), ringing <- SlotsOf(firing),
                                working <- phase \in {"run", "idle"}
AlarmsKept == Promise!Spec

(* A callback may ask for timers that are due at once, and so prolong the  *)
(* loop of avr_cycle_timer_process; yet it adds nothing to the calls due by*)
(* its own time or by any time before, and when it returns, one of those is*)
(* done, however it answers.  Nothing is added between callbacks: what is  *)
(* overdue moves towards the present, and the loop comes to its end.       *)
BacklogShrinks ==
  [][ /\ phase = "process" =>
           \A w \in -Promise!Lateness .. 0 : Promise!Backlog(w)' = Promise!Backlog(w)
      /\ phase = "callback" =>
           \A now \in {firing[1].when} :
             /\ \A w \in -Promise!Lateness .. now :
                  Promise!Backlog(w)' \subseteq Promise!Backlog(w)
             /\ firing' # firing => Promise!Backlog(now)' # Promise!Backlog(now) ]_vars

(* "make sure the return value is either zero, or greater than the last one*)
(* to prevent infinite loop here" (avr_cycle_timer_process).               *)
ProcessEnds == phase = "process" ~> phase = "idle"
=============================================================================
