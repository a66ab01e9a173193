------------------------------ MODULE Watchdog ------------------------------
(***************************************************************************)
(* The watchdog of the microcontroller, avr_watchdog.c, over the cycle     *)
(* timers and the run loop: CycleTimers supplies the pool, the passage of  *)
(* time and the moments at which callbacks run.  The firmware writes the   *)
(* control register and executes WDR as it likes, at most once per         *)
(* instruction; another peripheral competes for slots.                     *)
(*                                                                         *)
(* Of the interrupt controller only the vector of the watchdog is kept:    *)
(* once pending it is served, or found masked and dropped, at some later   *)
(* call of avr_service_interrupts.                                         *)
(***************************************************************************)
EXTENDS CycleTimers

CONSTANTS
  Prescalers,   \* values of WDP
  BasePeriod,   \* cycles of the shortest period (2048 * frequency / 128000)
  Window        \* cycles for which WDCE stays set, 4 in the code

ASSUME WatchdogAssumption ==
  /\ {"watchdog", "wdce_clear", "other"} \subseteq Timers
  /\ Prescalers \subseteq Nat /\ 0 \in Prescalers
  /\ BasePeriod \in Nat \ {0} /\ Window \in Nat \ {0}

\* True of every natural p; stated because the provers know no powers.
ASSUME PowerAssumption == \A p \in Prescalers : 2 ^ p \in Nat \ {0}

VARIABLES
  wde, wdie, wdce, wdp, \* bits of the control register
  raised,      \* WDIF, its interrupt flag
  wdrf,        \* watchdog reset flag, in MCUSR
  cycle_count, \* the period
  pending,     \* the vector is pending
  runner,      \* avr->run: "raw", or "reset" while the watchdog has replaced it
  acted,       \* what the instruction being executed has done so far
  age          \* history: cycles since WDCE was granted, up to Window

timers == vars
registers == <<wde, wdie, wdce, wdp, raised>>
watchdogVars == <<timers, registers, wdrf, cycle_count, pending, runner, acted, age>>

Period(p) == BasePeriod * 2 ^ p
Values == [wde : BOOLEAN, wdie : BOOLEAN, wdce : BOOLEAN, wdp : Prescalers,
           wdif : BOOLEAN]

WatchdogTypeOK ==
  /\ TypeOK
  /\ {wde, wdie, wdce, raised, wdrf, pending} \subseteq BOOLEAN
  /\ wdp \in Prescalers /\ cycle_count \in {0} \cup {Period(p) : p \in Prescalers}
  /\ runner \in {"raw", "reset"} /\ acted \in {"none", "wdr", "reset", "other"}
  /\ age \in 0 .. Window

-----------------------------------------------------------------------------
Enabled == wde \/ wdie

(* An instruction acts before its cycles pass.                             *)
Act(what) ==
  /\ phase = "run" /\ acted = "none" /\ runner = "raw"
  /\ acted' = what

\* Fault: a watchdog whose interrupt was on stays scheduled.
EnableChangedReset(was) == was # wde'

EnableChanged(was) == was # (wde' \/ wdie')

(* set_cycle_count_and_timer.  The old prescaler it is given is read after *)
(* the register was written, or is -1: it never finds that it has changed. *)
SetTimer(was) ==
  /\ cycle_count' = Period(wdp')
  /\ IF ~EnableChanged(was) THEN UNCHANGED timers
     ELSE IF wde' \/ wdie' THEN Register("watchdog", cycle_count')
     ELSE Cancel("watchdog")

(* While WDCE is set the register takes the value as it is, but WDE cannot *)
(* be cleared before WDRF is.                                              *)
WriteOpen(v) ==
  /\ Act("other") /\ wdce
  /\ wde' = (v.wde \/ wdrf) /\ wdie' = v.wdie /\ wdce' = v.wdce
  /\ wdp' = v.wdp /\ raised' = v.wdif
  /\ SetTimer(Enabled)
  /\ UNCHANGED <<wdrf, pending, runner, age>>

(* WDCE and WDE together open the register for a few cycles.               *)
GrantChange(v) ==
  /\ Act("other") /\ ~wdce /\ v.wdce /\ v.wde
  /\ wdce' = TRUE /\ age' = 0
  /\ Register("wdce_clear", Window)
  /\ UNCHANGED <<wde, wdie, wdp, raised, wdrf, cycle_count, pending, runner>>

(* Otherwise WDE can be set and WDIE be changed, nothing else.             *)
WriteLocked(v) ==
  /\ Act("other") /\ ~wdce /\ ~(v.wdce /\ v.wde)
  /\ wde' = (wde \/ v.wde) /\ wdie' = v.wdie
  /\ UNCHANGED <<wdce, wdp, raised>>
  /\ SetTimer(Enabled)
  /\ UNCHANGED <<wdrf, pending, runner, age>>

Write == \E v \in Values : WriteOpen(v) \/ GrantChange(v) \/ WriteLocked(v)

(* MCUSR is written without a hook.                                        *)
WriteFlag ==
  /\ Act("other")
  /\ wdrf' \in BOOLEAN
  /\ UNCHANGED <<timers, registers, cycle_count, pending, runner, age>>

(* avr_watchdog_ioctl, from WDR.                                           *)
WDR ==
  /\ Act("wdr")
  /\ IF Enabled THEN Register("watchdog", cycle_count) ELSE UNCHANGED timers
  /\ UNCHANGED <<registers, wdrf, cycle_count, pending, runner, age>>

(* Another peripheral asks for a timer.                                    *)
OtherTimer ==
  /\ Act("other")
  /\ (\E d \in Delays : Ask("other", d)) \/ Cancel("other")
  /\ UNCHANGED <<registers, wdrf, cycle_count, pending, runner, age>>

(* A reset that is not the watchdog's clears the registers and the timers. *)
OrdinaryReset ==
  /\ Act("reset")
  /\ Reset
  /\ wde' = FALSE /\ wdie' = FALSE /\ wdce' = FALSE /\ wdp' = 0 /\ raised' = FALSE
  /\ wdrf' = FALSE /\ pending' = FALSE
  /\ UNCHANGED <<cycle_count, runner, age>>

-----------------------------------------------------------------------------
Older(cycles) == age' = IF age + cycles < Window THEN age + cycles ELSE Window

WatchdogExecute ==
  /\ \E cycles \in 1 .. MaxCycles : Execute(cycles) /\ Older(cycles)
  /\ acted' = "none"
  /\ UNCHANGED <<registers, wdrf, cycle_count, pending, runner>>

CoreSleeps ==
  /\ runner = "raw" /\ Sleep /\ Older(1 + SleepCycles)
  /\ UNCHANGED <<registers, wdrf, cycle_count, pending, runner, acted>>

GoOn ==
  /\ Fire \/ ProcessDone \/ (runner = "raw" /\ Awake)
  /\ UNCHANGED <<registers, wdrf, cycle_count, pending, runner, acted, age>>

Answer(w) == Expire(w) \/ CatchUp(w) \/ Reschedule(w)
NoAnswer == Expire(firing[1].when)
Called(t) == phase = "callback" /\ firing[1].id = t

\* Fault: the watchdog does not go on after its interrupt.
InterruptOnce(when) == when

AfterInterrupt(when) == when + cycle_count

(* avr_watchdog_timer: the interrupt goes before the reset.                *)
TimerInterrupt ==
  /\ Called("watchdog") /\ wdie
  /\ raised' = TRUE /\ pending' = TRUE
  /\ Answer(AfterInterrupt(firing[1].when))
  /\ UNCHANGED <<wde, wdie, wdce, wdp, wdrf, cycle_count, runner, acted, age>>

TimerReset ==
  /\ Called("watchdog") /\ ~wdie
  /\ runner' = IF wde THEN "reset" ELSE runner
  /\ NoAnswer
  /\ UNCHANGED <<registers, wdrf, cycle_count, pending, acted, age>>

\* Fault: the register stays open.
StaysOpen == wdce

Closed == FALSE

(* avr_wdce_clear.                                                         *)
WdceClear ==
  /\ Called("wdce_clear")
  /\ wdce' = Closed
  /\ NoAnswer
  /\ UNCHANGED <<wde, wdie, wdp, raised, wdrf, cycle_count, pending, runner, acted, age>>

OtherCallback ==
  /\ Called("other") /\ Return
  /\ UNCHANGED <<registers, wdrf, cycle_count, pending, runner, acted, age>>

(* avr_service_interrupts takes the vector.  Its notification comes before *)
(* the flag is cleared.                                                    *)
ServeInterrupt ==
  /\ phase = "idle" /\ pending
  /\ pending' = FALSE
  /\ IF wdie THEN wdie' = ~raised /\ raised' = FALSE ELSE UNCHANGED <<wdie, raised>>
  /\ UNCHANGED <<timers, wde, wdce, wdp, wdrf, cycle_count, runner, acted, age>>

(* The next call of avr->run: avr_reset, with avr_watchdog_reset in it,    *)
(* which turns the watchdog on at its shortest period.  (Cycles slept at   *)
(* the end of this call leave no trace: the reset removes all timers.)     *)
WatchdogReset ==
  /\ phase = "idle" /\ runner = "reset"
  /\ runner' = "raw" /\ phase' = "run" /\ acted' = "none"
  /\ wde' = TRUE /\ wdrf' = TRUE
  /\ wdie' = FALSE /\ wdce' = FALSE /\ raised' = FALSE /\ pending' = FALSE /\ wdp' = 0
  /\ cycle_count' = Period(0)
  /\ timer' = <<[id |-> "watchdog", when |-> Period(0)]>> /\ free' = MaxTimers - 1
  /\ wanted' = {"watchdog"} /\ crowded' = (MaxTimers = 1)
  /\ UNCHANGED <<firing, age>>

-----------------------------------------------------------------------------
WatchdogInit ==
  /\ Init
  /\ wde = FALSE /\ wdie = FALSE /\ wdce = FALSE /\ wdp = 0 /\ raised = FALSE
  /\ wdrf = FALSE /\ cycle_count = 0 /\ pending = FALSE
  /\ runner = "raw" /\ acted = "none" /\ age = Window

Instruction == Write \/ WriteFlag \/ WDR \/ OtherTimer \/ OrdinaryReset \/ WatchdogExecute
Callback == TimerInterrupt \/ TimerReset \/ WdceClear \/ OtherCallback

WatchdogNext == Instruction \/ Callback \/ GoOn \/ CoreSleeps \/ ServeInterrupt \/ WatchdogReset

WatchdogSpec == WatchdogInit /\ [][WatchdogNext]_watchdogVars

(* One thread, which main keeps running.                                   *)
WatchdogFairSpec == WatchdogSpec /\ WF_watchdogVars(WatchdogNext)

-----------------------------------------------------------------------------
(* As long as the watchdog is on its timer runs, whatever sequence of      *)
(* writes, interrupts and resets has led there; only a pool without a free *)
(* slot can stop it (avr_watchdog.c as a whole).                           *)
WatchArmed ==
  Enabled /\ runner = "raw" /\ ~crowded =>
    "watchdog" \in Ids(timer) \cup Ids(firing)

(* WDE is cleared only within the few cycles that WDCE grants, and not     *)
(* before WDRF (avr_watchdog_write), or by a reset.                        *)
WindowRespected ==
  [][wde /\ ~wde' => acted' = "reset" \/ (age < Window /\ ~wdrf) \/ crowded]_watchdogVars

(* Firmware that leaves the watchdog on in reset mode and stops executing  *)
(* WDR is reset, asleep or awake.                                          *)
WatchdogBites ==
  []<>(acted = "wdr" \/ ~wde \/ wdie \/ runner = "reset" \/ crowded)
=============================================================================
