-------------------------- MODULE Watchdog_proofs --------------------------
(***************************************************************************)
(* Theorems about Watchdog, for every value of its constants.              *)
(***************************************************************************)
EXTENDS Watchdog, CycleTimers_proofs

Types ==
  /\ {wde, wdie, wdce, raised, wdrf, pending} \subseteq BOOLEAN
  /\ wdp \in Prescalers /\ cycle_count \in {0} \cup {Period(p) : p \in Prescalers}
  /\ runner \in {"raw", "reset"} /\ acted \in {"none", "wdr", "reset", "other"}
  /\ age \in 0 .. Window

(* A watchdog that is on has been asked for, and it has a period, so that  *)
(* its interrupt asks for it again.                                        *)
Armed ==
  /\ Enabled => cycle_count # 0
  /\ Enabled /\ runner = "raw" => "watchdog" \in wanted

(* While the register is open, the timer that closes it is due before the  *)
(* window has passed, or its callback runs.                                *)
Closing ==
  wdce /\ ~crowded =>
    \/ \E s \in SlotsOf(timer) : s.id = "wdce_clear" /\ s.when + age <= Window
    \/ phase = "callback" /\ firing[1].id = "wdce_clear"

(* After the timers were processed, what is scheduled lies ahead; when an  *)
(* instruction runs, so does the timer that closes the register.           *)
Ahead ==
  \A s \in SlotsOf(timer) :
    phase = "idle" \/ (phase = "run" /\ s.id = "wdce_clear") => s.when > 0

WatchdogInv == PoolInv /\ Types /\ Armed /\ Closing /\ Ahead

LEMMA ConstantFacts ==
  /\ "watchdog" \in Timers /\ "wdce_clear" \in Timers /\ "other" \in Timers
  /\ 0 \in Prescalers /\ Window \in Nat \ {0}
  /\ \A d \in Delays : d \in Int
BY WatchdogAssumption, TimerAssumption

LEMMA PeriodPositive ==
  ASSUME NEW p \in Prescalers
  PROVE  Period(p) \in Nat \ {0}
<1>1. BasePeriod \in Nat \ {0} /\ 2 ^ p \in Nat \ {0}
  BY WatchdogAssumption, PowerAssumption
<1>2. \A b, q \in Nat \ {0} : b * q \in Nat \ {0}
  OBVIOUS
<1> QED
  BY <1>1, <1>2 DEF Period

LEMMA CountFacts ==
  ASSUME Types
  PROVE  cycle_count \in Nat
BY PeriodPositive DEF Types

-----------------------------------------------------------------------------
SomeAbout(t) == \E d \in Int : OnlyAbout(t, d)

(* A call about another timer does not disturb the one that closes the     *)
(* register.                                                               *)
LEMMA WindowUndisturbed ==
  ASSUME PoolInv, Closing, Ahead, NEW t, t # "wdce_clear", SomeAbout(t),
         phase = "idle" => timer' = timer, age' = age, wdce' => wdce
  PROVE  Closing' /\ Ahead'
<1>0. PICK d \in Int : OnlyAbout(t, d)
  BY DEF SomeAbout
<1>1. Closing'
  BY <1>0 DEF Closing, OnlyAbout
<1>2. Ahead'
  <2>1. phase' = phase
        /\ \A s \in SlotsOf(timer') : s \in SlotsOf(timer) \/ s = [id |-> t, when |-> d]
    BY <1>0 DEF OnlyAbout
  <2>2. phase = "idle" => SlotsOf(timer') = SlotsOf(timer)
    OBVIOUS
  <2> QED
    BY <2>1, <2>2 DEF Ahead
<1> QED
  BY <1>1, <1>2

LEMMA RegisterWatchdog ==
  ASSUME PoolInv, phase # "callback", NEW d \in Int, Register("watchdog", d)
  PROVE  PoolInv' /\ wanted' = wanted \cup {"watchdog"} /\ SomeAbout("watchdog")
BY PoolRegister, RegisterContents, ConstantFacts DEF PoolInv, SomeAbout

LEMMA UntouchedContents ==
  ASSUME UNCHANGED timers, NEW t
  PROVE  SomeAbout(t) /\ timer' = timer
<1>1. UNCHANGED <<phase, timer, firing, crowded>>
  BY DEF timers, vars
<1>2. OnlyAbout(t, 0)
  BY <1>1 DEF OnlyAbout, SlotsOf
<1> QED
  BY <1>1, <1>2 DEF SomeAbout

(* After a write to the register the watchdog is scheduled if it is on: if *)
(* it was switched on, because it is registered, and if it was on already, *)
(* because its timer is left alone.                                        *)
LEMMA SetTimerArms ==
  ASSUME PoolInv, Types, Armed, phase = "run", runner = "raw", runner' = "raw",
         wdp' \in Prescalers, wde' \in BOOLEAN, wdie' \in BOOLEAN, SetTimer(Enabled)
  PROVE  /\ PoolInv' /\ SomeAbout("watchdog") /\ Armed'
         /\ cycle_count' \in {Period(p) : p \in Prescalers}
<1>1. cycle_count' = Period(wdp') /\ cycle_count' \in Nat \ {0}
  BY PeriodPositive DEF SetTimer
<1>2. CASE ~EnableChanged(Enabled)
  <2>1. UNCHANGED timers
    BY <1>2 DEF SetTimer
  <2>2. PoolInv' /\ wanted' = wanted /\ SomeAbout("watchdog")
    BY <2>1, PoolUnchanged, UntouchedContents DEF timers
  <2>3. Enabled' => Enabled
    BY <1>2 DEF EnableChanged, Enabled, Types
  <2> QED
    BY <1>1, <2>2, <2>3 DEF Armed
<1>3. CASE EnableChanged(Enabled) /\ (wde' \/ wdie')
  <2>1. Register("watchdog", cycle_count')
    BY <1>3 DEF SetTimer
  <2>2. PoolInv' /\ wanted' = wanted \cup {"watchdog"} /\ SomeAbout("watchdog")
    BY <1>1, <2>1, RegisterWatchdog
  <2> QED
    BY <1>1, <2>2 DEF Armed
<1>4. CASE EnableChanged(Enabled) /\ ~(wde' \/ wdie')
  <2>1. Cancel("watchdog")
    BY <1>4 DEF SetTimer
  <2>2. PoolInv' /\ SomeAbout("watchdog")
    BY <2>1, PoolCancel, CancelContents, ConstantFacts DEF PoolInv, SomeAbout
  <2>3. ~Enabled'
    BY <1>4 DEF Enabled
  <2> QED
    BY <1>1, <2>2, <2>3 DEF Armed
<1> QED
  BY <1>2, <1>3, <1>4

LEMMA WriteKeeps ==
  ASSUME WatchdogInv, NEW v \in Values, WriteOpen(v) \/ WriteLocked(v)
  PROVE  WatchdogInv'
<1>1. /\ phase = "run" /\ runner = "raw" /\ runner' = "raw" /\ acted' = "other"
      /\ UNCHANGED <<wdrf, pending, age>> /\ SetTimer(Enabled)
  BY DEF WriteOpen, WriteLocked, Act
<1>2. /\ wde' \in BOOLEAN /\ wdie' \in BOOLEAN /\ wdce' \in BOOLEAN /\ raised' \in BOOLEAN
      /\ wdp' \in Prescalers /\ (wdce' => wdce)
  BY DEF WriteOpen, WriteLocked, Values, WatchdogInv, Types
<1>3. /\ PoolInv' /\ SomeAbout("watchdog") /\ Armed'
      /\ cycle_count' \in {Period(p) : p \in Prescalers}
  BY <1>1, <1>2, SetTimerArms DEF WatchdogInv
<1>4. Closing' /\ Ahead'
  BY <1>1, <1>2, <1>3, WindowUndisturbed DEF WatchdogInv
<1>5. Types'
  BY <1>1, <1>2, <1>3 DEF WatchdogInv, Types
<1> QED
  BY <1>3, <1>4, <1>5 DEF WatchdogInv

(* Opening the register registers the timer that closes it.                *)
LEMMA GrantChangeKeeps ==
  ASSUME WatchdogInv, NEW v \in Values, GrantChange(v)
  PROVE  WatchdogInv'
<1>1. /\ phase = "run" /\ runner = "raw" /\ acted' = "other" /\ wdce' = TRUE /\ age' = 0
      /\ Register("wdce_clear", Window)
      /\ UNCHANGED <<wde, wdie, wdp, raised, wdrf, cycle_count, pending, runner>>
  BY DEF GrantChange, Act
<1>2. PoolInv' /\ wanted' = wanted \cup {"wdce_clear"}
  BY <1>1, PoolRegister, ConstantFacts DEF WatchdogInv
<1>3. /\ OnlyAbout("wdce_clear", Window)
      /\ "wdce_clear" \in Ids(timer') =>
           [id |-> "wdce_clear", when |-> Window] \in SlotsOf(timer')
  BY <1>1, RegisterContents, ConstantFacts DEF WatchdogInv, PoolInv
<1>4. firing' = << >> /\ phase' = "run"
  BY <1>1, <1>3, InvFacts DEF WatchdogInv, PoolInv, OnlyAbout
<1>5. ~crowded' => "wdce_clear" \in Ids(timer')
  <2>1. Ids(firing') = {}
    BY <1>4 DEF Ids
  <2> QED
    BY <1>2, <2>1 DEF PoolInv, IInv, Scheduled
<1>6. Closing'
  BY <1>1, <1>3, <1>5, ConstantFacts DEF Closing
<1>7. Ahead'
  <2>1. \A s \in SlotsOf(timer') :
           s \in SlotsOf(timer) \/ s = [id |-> "wdce_clear", when |-> Window]
    BY <1>3 DEF OnlyAbout
  <2> QED
    BY <1>1, <1>4, <2>1, ConstantFacts DEF WatchdogInv, Ahead
<1>8. Types'
  BY <1>1, ConstantFacts DEF WatchdogInv, Types
<1>9. Armed'
  BY <1>1, <1>2 DEF WatchdogInv, Armed, Enabled
<1> QED
  BY <1>2, <1>6, <1>7, <1>8, <1>9 DEF WatchdogInv

LEMMA WDRKeeps ==
  ASSUME WatchdogInv, WDR
  PROVE  WatchdogInv'
<1>1. /\ phase = "run" /\ runner = "raw" /\ acted' = "wdr"
      /\ UNCHANGED <<wde, wdie, wdce, wdp, raised, wdrf, cycle_count, pending, runner, age>>
  BY DEF WDR, Act, registers
<1>2. PoolInv' /\ SomeAbout("watchdog") /\ wanted \subseteq wanted'
  <2>1. CASE Enabled
    <3>1. Register("watchdog", cycle_count)
      BY <2>1 DEF WDR
    <3>2. cycle_count \in Nat \ {0}
      BY <2>1, CountFacts DEF WatchdogInv, Armed
    <3> QED
      BY <1>1, <3>1, <3>2, RegisterWatchdog DEF WatchdogInv
  <2>2. CASE ~Enabled
    <3>1. UNCHANGED timers
      BY <2>2 DEF WDR
    <3> QED
      BY <3>1, PoolUnchanged, UntouchedContents DEF WatchdogInv, timers
  <2> QED
    BY <2>1, <2>2
<1>3. Closing' /\ Ahead'
  BY <1>1, <1>2, WindowUndisturbed DEF WatchdogInv
<1>4. Types'
  BY <1>1 DEF WatchdogInv, Types
<1>5. Armed'
  BY <1>1, <1>2 DEF WatchdogInv, Armed, Enabled
<1> QED
  BY <1>2, <1>3, <1>4, <1>5 DEF WatchdogInv

(* Steps that keep the watchdog's registers may cost another timer only.   *)
LEMMA RegistersKept ==
  ASSUME WatchdogInv, PoolInv', Closing', Ahead', wanted \ {"other"} \subseteq wanted',
         UNCHANGED <<registers, cycle_count, runner>>,
         wdrf' \in BOOLEAN, pending' \in BOOLEAN,
         acted' \in {"none", "wdr", "reset", "other"}, age' \in 0 .. Window
  PROVE  WatchdogInv'
<1>1. UNCHANGED <<wde, wdie, wdce, wdp, raised, cycle_count, runner>>
  BY DEF registers
<1>2. Types'
  BY <1>1 DEF WatchdogInv, Types
<1>3. Armed'
  BY <1>1 DEF WatchdogInv, Armed, Enabled
<1> QED
  BY <1>2, <1>3 DEF WatchdogInv

LEMMA WriteFlagKeeps ==
  ASSUME WatchdogInv, WriteFlag \/ UNCHANGED watchdogVars
  PROVE  WatchdogInv'
<1>1. /\ UNCHANGED <<timers, registers, cycle_count, pending, runner, age>>
      /\ wdrf' \in BOOLEAN /\ acted' \in {"none", "wdr", "reset", "other"}
  BY DEF WriteFlag, Act, watchdogVars, WatchdogInv, Types
<1>2. PoolInv' /\ wanted' = wanted /\ SomeAbout("watchdog") /\ timer' = timer
  BY <1>1, PoolUnchanged, UntouchedContents DEF timers, WatchdogInv
<1>3. Closing' /\ Ahead'
  BY <1>1, <1>2, WindowUndisturbed DEF WatchdogInv, registers
<1>4. pending' \in BOOLEAN /\ age' \in 0 .. Window
  BY <1>1 DEF WatchdogInv, Types
<1> QED
  BY <1>1, <1>2, <1>3, <1>4, RegistersKept

LEMMA OtherTimerKeeps ==
  ASSUME WatchdogInv, OtherTimer
  PROVE  WatchdogInv'
<1>1. /\ UNCHANGED <<registers, wdrf, cycle_count, pending, runner, age>>
      /\ phase = "run" /\ acted' = "other"
  BY DEF OtherTimer, Act
<1>2. /\ PoolInv' /\ wanted \ {"other"} \subseteq wanted'
      /\ SomeAbout("other")
  <2>1. ASSUME NEW d \in Delays, Ask("other", d)
        PROVE  PoolInv' /\ OnlyAbout("other", d) /\ wanted' = wanted \cup {"other"}
    <3>1. d \in Int /\ Register("other", d)
      BY <2>1, ConstantFacts DEF Ask
    <3> QED
      BY <1>1, <3>1, PoolRegister, RegisterContents, ConstantFacts
         DEF WatchdogInv, PoolInv
  <2>2. ASSUME Cancel("other")
        PROVE  PoolInv' /\ OnlyAbout("other", 0) /\ wanted' = wanted \ {"other"}
    BY <2>2, PoolCancel, CancelContents, ConstantFacts DEF WatchdogInv, PoolInv
  <2> QED
    BY <2>1, <2>2, ConstantFacts DEF OtherTimer, SomeAbout
<1>3. Closing' /\ Ahead'
  BY <1>1, <1>2, WindowUndisturbed DEF WatchdogInv, registers
<1>4. wdrf' \in BOOLEAN /\ pending' \in BOOLEAN /\ age' \in 0 .. Window
  BY <1>1 DEF WatchdogInv, Types
<1> QED
  BY <1>1, <1>2, <1>3, <1>4, RegistersKept

LEMMA OrdinaryResetKeeps ==
  ASSUME WatchdogInv, OrdinaryReset
  PROVE  WatchdogInv'
<1>1. /\ wde' = FALSE /\ wdie' = FALSE /\ wdce' = FALSE /\ wdp' = 0 /\ raised' = FALSE
      /\ wdrf' = FALSE /\ pending' = FALSE /\ acted' = "reset"
      /\ UNCHANGED <<cycle_count, runner, age>>
  BY DEF OrdinaryReset, Act
<1>2. PoolInv' /\ timer' = << >>
  BY PoolReset DEF OrdinaryReset, WatchdogInv, Reset
<1>3. Closing' /\ Ahead'
  <2>1. SlotsOf(timer') = {}
    BY <1>2 DEF SlotsOf
  <2> QED
    BY <1>1, <2>1 DEF Closing, Ahead
<1>4. Types'
  BY <1>1, ConstantFacts DEF WatchdogInv, Types
<1>5. Armed'
  BY <1>1 DEF Armed, Enabled
<1> QED
  BY <1>2, <1>3, <1>4, <1>5 DEF WatchdogInv

-----------------------------------------------------------------------------
(* Time passes for the timer as it does for the window.                    *)
LEMMA WindowShrinks ==
  ASSUME WatchdogInv, phase \in {"run", "idle"}, phase' = "process",
         NEW cycles \in Nat, timer' = Later(timer, cycles), Older(cycles),
         crowded' = crowded, wdce' = wdce
  PROVE  Closing' /\ Ahead' /\ age' \in 0 .. Window
<1>1. age' \in 0 .. Window /\ age' <= age + cycles /\ age \in Nat
  <2>1. age \in 0 .. Window /\ Window \in Nat
    BY ConstantFacts DEF WatchdogInv, Types
  <2> QED
    BY <2>1 DEF Older
<1>2. ASSUME wdce', ~crowded'
      PROVE  \E s \in SlotsOf(timer') : s.id = "wdce_clear" /\ s.when + age' <= Window
  <2>1. PICK s \in SlotsOf(timer) : s.id = "wdce_clear" /\ s.when + age <= Window
    BY <1>2 DEF WatchdogInv, Closing
  <2>2. PICK r \in SlotsOf(timer') : r.id = s.id /\ r.when = s.when - cycles
    BY LaterContents DEF WatchdogInv
  <2>3. s.when \in Int
    BY InvFacts, SlotTypes DEF WatchdogInv, PoolInv, SlotsOf
  <2>4. (s.when - cycles) + age' <= Window
    BY <1>1, <2>1, <2>3, ConstantFacts
  <2>5. r.id = "wdce_clear" /\ r.when + age' <= Window
    BY <2>1, <2>2, <2>4
  <2> QED
    BY <2>5
<1> QED
  BY <1>1, <1>2 DEF Closing, Ahead

LEMMA ExecuteKeeps ==
  ASSUME WatchdogInv, WatchdogExecute
  PROVE  WatchdogInv'
<1>1. PICK cycles \in 1 .. MaxCycles : Execute(cycles) /\ Older(cycles)
  BY DEF WatchdogExecute
<1>2. /\ acted' = "none" /\ UNCHANGED <<registers, wdrf, cycle_count, pending, runner>>
      /\ wdce' = wdce
  BY DEF WatchdogExecute, registers
<1>3. /\ phase = "run" /\ phase' = "process" /\ timer' = Later(timer, cycles)
      /\ crowded' = crowded /\ cycles \in Nat
  BY <1>1, TimerAssumption DEF Execute
<1>4. PoolInv' /\ wanted' = wanted
  BY <1>1, PoolGoesOn DEF WatchdogInv
<1>5. Closing' /\ Ahead' /\ age' \in 0 .. Window
  BY <1>1, <1>2, <1>3, WindowShrinks
<1>6. wdrf' \in BOOLEAN /\ pending' \in BOOLEAN
  BY <1>2 DEF WatchdogInv, Types
<1> QED
  BY <1>2, <1>4, <1>5, <1>6, RegistersKept

LEMMA CoreSleepsKeeps ==
  ASSUME WatchdogInv, CoreSleeps
  PROVE  WatchdogInv'
<1> DEFINE cycles == 1 + SleepCycles
<1>1. Sleep /\ Older(cycles)
  BY DEF CoreSleeps
<1>2. UNCHANGED <<registers, wdrf, cycle_count, pending, runner, acted>> /\ wdce' = wdce
  BY DEF CoreSleeps, registers
<1>3. /\ phase = "idle" /\ phase' = "process" /\ timer' = Later(timer, cycles)
      /\ crowded' = crowded
  BY <1>1 DEF Sleep
<1>4. cycles \in Nat
  <2>1. CASE timer = << >>
    BY <2>1, TimerAssumption DEF SleepCycles
  <2>2. CASE timer # << >>
    <3>1. timer \in Seq(Slots) /\ Len(timer) \in Nat
      BY InvFacts DEF WatchdogInv, PoolInv
    <3>2. Head(timer) = timer[1] /\ 1 \in 1 .. Len(timer)
      BY <2>2, <3>1, HeadTailProperties, EmptySeq
    <3>3. Head(timer).when \in Int
      BY <3>1, <3>2, SlotTypes
    <3>4. Head(timer).when > 0
      BY <1>3, <3>2 DEF WatchdogInv, Ahead, SlotsOf
    <3> QED
      BY <2>2, <3>3, <3>4 DEF SleepCycles
  <2> QED
    BY <2>1, <2>2
<1> HIDE DEF cycles
<1>5. PoolInv' /\ wanted' = wanted
  BY <1>1, PoolGoesOn DEF WatchdogInv
<1>6. Closing' /\ Ahead' /\ age' \in 0 .. Window
  BY <1>1, <1>2, <1>3, <1>4, WindowShrinks
<1>7. /\ wdrf' \in BOOLEAN /\ pending' \in BOOLEAN
      /\ acted' \in {"none", "wdr", "reset", "other"}
  BY <1>2 DEF WatchdogInv, Types
<1> QED
  BY <1>2, <1>5, <1>6, <1>7, RegistersKept

LEMMA GoOnKeeps ==
  ASSUME WatchdogInv, GoOn
  PROVE  WatchdogInv'
<1>1. UNCHANGED <<registers, wdrf, cycle_count, pending, runner, acted, age>> /\ wdce' = wdce
  BY DEF GoOn, registers
<1>2. PoolInv' /\ wanted' = wanted
  BY PoolFire, PoolGoesOn DEF GoOn, WatchdogInv
<1>3. Closing' /\ Ahead'
  <2>1. CASE Fire
    <3>1. phase' = "callback" /\ phase # "callback" /\ crowded' = crowded
      BY <2>1 DEF Fire
    <3>2. ASSUME wdce', ~crowded'
          PROVE  \/ \E s \in SlotsOf(timer') : s.id = "wdce_clear" /\ s.when + age' <= Window
                 \/ firing'[1].id = "wdce_clear"
      <4>1. PICK s \in SlotsOf(timer) : s.id = "wdce_clear" /\ s.when + age <= Window
        BY <1>1, <3>1, <3>2 DEF WatchdogInv, Closing
      <4>2. s = firing'[1] \/ s \in SlotsOf(timer')
        BY <2>1, FireContents DEF WatchdogInv
      <4> QED
        BY <1>1, <4>1, <4>2
    <3> QED
      BY <3>1, <3>2 DEF Closing, Ahead
  <2>2. CASE ProcessDone \/ Awake
    <3>1. /\ UNCHANGED <<timer, firing, crowded>> /\ phase # "callback"
          /\ SlotsOf(timer') = SlotsOf(timer)
      BY <2>2 DEF ProcessDone, Awake
    <3>2. \A s \in SlotsOf(timer) : s.when > 0
      <4>1. CASE ProcessDone
        BY <4>1, NoneDueLeft DEF WatchdogInv, PoolInv, SlotsOf
      <4>2. CASE Awake
        BY <4>2 DEF Awake, WatchdogInv, Ahead
      <4> QED
        BY <2>2, <4>1, <4>2
    <3> QED
      BY <1>1, <3>1, <3>2 DEF WatchdogInv, Closing, Ahead
  <2> QED
    BY <2>1, <2>2 DEF GoOn
<1>4. /\ wdrf' \in BOOLEAN /\ pending' \in BOOLEAN /\ age' \in 0 .. Window
      /\ acted' \in {"none", "wdr", "reset", "other"}
  BY <1>1 DEF WatchdogInv, Types
<1> QED
  BY <1>1, <1>2, <1>3, <1>4, RegistersKept

-----------------------------------------------------------------------------
(* An answer of another callback leaves the closing timer where it is.     *)
LEMMA WindowSurvivesAnswer ==
  ASSUME WatchdogInv, NEW t, t # "wdce_clear", Called(t), NEW w \in Int,
         Expire(w) \/ CatchUp(w) \/ Reschedule(w), age' = age, wdce' = wdce
  PROVE  Closing' /\ Ahead'
<1>1. SlotsOf(timer) \subseteq SlotsOf(timer') /\ (crowded => crowded')
  BY AnswerContents DEF WatchdogInv
<1>2. phase' \notin {"run", "idle"}
  BY DEF Expire, CatchUp, Reschedule
<1>3. wdce /\ ~crowded =>
        \E s \in SlotsOf(timer) : s.id = "wdce_clear" /\ s.when + age <= Window
  BY DEF WatchdogInv, Closing, Called
<1> QED
  BY <1>1, <1>2, <1>3 DEF Closing, Ahead

LEMMA CalledFacts ==
  ASSUME WatchdogInv, NEW t, Called(t)
  PROVE  firing[1].when \in Int /\ phase = "callback" /\ firing[1].id = t
<1>1. firing[1] \in Slots
  BY InvFacts DEF Called, WatchdogInv, PoolInv
<1> QED
  BY <1>1 DEF Called, Slots

LEMMA TimerInterruptKeeps ==
  ASSUME WatchdogInv, TimerInterrupt
  PROVE  WatchdogInv'
<1>1. /\ Called("watchdog") /\ wdie /\ raised' = TRUE /\ pending' = TRUE
      /\ UNCHANGED <<wde, wdie, wdce, wdp, wdrf, cycle_count, runner, acted, age>>
  BY DEF TimerInterrupt
<1> DEFINE w == firing[1].when + cycle_count
<1>2. w \in Int /\ w > firing[1].when
  <2>1. cycle_count \in Nat /\ cycle_count # 0
    BY <1>1, CountFacts DEF WatchdogInv, Armed, Enabled
  <2> QED
    BY <1>1, <2>1, CalledFacts
<1>3. Expire(w) \/ CatchUp(w) \/ Reschedule(w)
  BY DEF TimerInterrupt, AfterInterrupt, Answer
<1> HIDE DEF w
<1>4. PoolInv' /\ wanted' = wanted \cup {"watchdog"}
  <2>1. PoolInv' /\ wanted' = wanted \cup {firing[1].id}
    BY <1>2, <1>3, PoolAnswer DEF WatchdogInv
  <2> QED
    BY <1>1, <2>1, CalledFacts
<1>5. Closing' /\ Ahead'
  BY <1>1, <1>2, <1>3, WindowSurvivesAnswer
<1>6. Types'
  BY <1>1 DEF WatchdogInv, Types
<1>7. Armed'
  BY <1>1, <1>4 DEF WatchdogInv, Armed, Enabled
<1> QED
  BY <1>4, <1>5, <1>6, <1>7 DEF WatchdogInv

(* A watchdog that asks for no more calls is off or resets the core.       *)
LEMMA TimerResetKeeps ==
  ASSUME WatchdogInv, TimerReset
  PROVE  WatchdogInv'
<1>1. /\ Called("watchdog") /\ ~wdie /\ Expire(firing[1].when)
      /\ runner' = IF wde THEN "reset" ELSE runner
      /\ UNCHANGED <<wde, wdie, wdce, wdp, raised, wdrf, cycle_count, pending, acted, age>>
  BY DEF TimerReset, NoAnswer, registers
<1>2. firing[1].when \in Int /\ ~(firing[1].when > firing[1].when)
  BY <1>1, CalledFacts
<1>3. PoolInv'
  BY <1>1, <1>2, PoolAnswer DEF WatchdogInv
<1>4. Closing' /\ Ahead'
  BY <1>1, <1>2, WindowSurvivesAnswer
<1>5. Types'
  BY <1>1 DEF WatchdogInv, Types
<1>6. Armed'
  BY <1>1 DEF WatchdogInv, Types, Armed, Enabled
<1> QED
  BY <1>3, <1>4, <1>5, <1>6 DEF WatchdogInv

LEMMA WdceClearKeeps ==
  ASSUME WatchdogInv, WdceClear
  PROVE  WatchdogInv'
<1>1. /\ Called("wdce_clear") /\ wdce' = FALSE /\ Expire(firing[1].when)
      /\ UNCHANGED <<wde, wdie, wdp, raised, wdrf, cycle_count, pending, runner, acted, age>>
  BY DEF WdceClear, NoAnswer, Closed
<1>2. firing[1].when \in Int /\ ~(firing[1].when > firing[1].when)
  BY <1>1, CalledFacts
<1>3. PoolInv' /\ wanted' = wanted \ {"wdce_clear"}
  <2>1. PoolInv' /\ wanted' = wanted \ {firing[1].id}
    BY <1>1, <1>2, PoolAnswer DEF WatchdogInv
  <2> QED
    BY <1>1, <2>1, CalledFacts
<1>4. Closing' /\ Ahead'
  BY <1>1 DEF Expire, Closing, Ahead
<1>5. Types'
  BY <1>1 DEF WatchdogInv, Types
<1>6. Armed'
  BY <1>1, <1>3 DEF WatchdogInv, Armed, Enabled
<1> QED
  BY <1>3, <1>4, <1>5, <1>6 DEF WatchdogInv

LEMMA OtherCallbackKeeps ==
  ASSUME WatchdogInv, OtherCallback
  PROVE  WatchdogInv'
<1>1. /\ Called("other")
      /\ UNCHANGED <<registers, wdrf, cycle_count, pending, runner, acted, age>>
  BY DEF OtherCallback
<1>2. PICK d \in Delays \cup {0} :
        \/ Expire(firing[1].when + d) \/ CatchUp(firing[1].when + d)
        \/ Reschedule(firing[1].when + d)
  BY DEF OtherCallback, Return
<1>3. firing[1].when + d \in Int /\ firing[1].id = "other"
  <2>1. d \in Int
    BY ConstantFacts
  <2> QED
    BY <1>1, <2>1, CalledFacts
<1>4. PoolInv' /\ wanted \ {"other"} \subseteq wanted'
  BY <1>2, <1>3, PoolAnswer DEF WatchdogInv
<1>5. Closing' /\ Ahead'
  BY <1>1, <1>2, <1>3, WindowSurvivesAnswer DEF registers
<1>6. /\ wdrf' \in BOOLEAN /\ pending' \in BOOLEAN /\ age' \in 0 .. Window
      /\ acted' \in {"none", "wdr", "reset", "other"}
  BY <1>1 DEF WatchdogInv, Types
<1> QED
  BY <1>1, <1>4, <1>5, <1>6, RegistersKept

(* Serving the interrupt may switch the interrupt off, never the watchdog  *)
(* on.                                                                     *)
LEMMA ServeInterruptKeeps ==
  ASSUME WatchdogInv, ServeInterrupt
  PROVE  WatchdogInv'
<1>1. /\ UNCHANGED <<timers, wde, wdce, wdp, wdrf, cycle_count, runner, acted, age>>
      /\ pending' = FALSE /\ wdie' \in BOOLEAN /\ raised' \in BOOLEAN /\ (wdie' => wdie)
  BY DEF ServeInterrupt, WatchdogInv, Types
<1>2. PoolInv' /\ wanted' = wanted /\ SomeAbout("watchdog") /\ timer' = timer
  BY <1>1, PoolUnchanged, UntouchedContents DEF timers, WatchdogInv
<1>3. Closing' /\ Ahead'
  BY <1>1, <1>2, WindowUndisturbed DEF WatchdogInv
<1>4. Types'
  BY <1>1 DEF WatchdogInv, Types
<1>5. Armed'
  BY <1>1, <1>2 DEF WatchdogInv, Armed, Enabled
<1> QED
  BY <1>2, <1>3, <1>4, <1>5 DEF WatchdogInv

(* The watchdog's own reset leaves it scheduled and nothing else.          *)
LEMMA WatchdogResetKeeps ==
  ASSUME WatchdogInv, WatchdogReset
  PROVE  WatchdogInv'
<1> DEFINE slot == [id |-> "watchdog", when |-> Period(0)]
<1>1. /\ runner' = "raw" /\ phase = "idle" /\ phase' = "run" /\ acted' = "none"
      /\ wde' = TRUE /\ wdrf' = TRUE /\ wdie' = FALSE /\ wdce' = FALSE
      /\ raised' = FALSE /\ pending' = FALSE /\ wdp' = 0 /\ cycle_count' = Period(0)
      /\ timer' = <<slot>> /\ free' = MaxTimers - 1 /\ wanted' = {"watchdog"}
      /\ crowded' = (MaxTimers = 1) /\ UNCHANGED <<firing, age>>
  BY DEF WatchdogReset
<1>2. Period(0) \in Nat \ {0} /\ 0 \in Prescalers
  BY PeriodPositive, ConstantFacts
<1>3. slot \in Slots /\ slot.id = "watchdog" /\ slot.when = Period(0)
  BY <1>2, ConstantFacts DEF Slots
<1> HIDE DEF slot
<1>4. /\ timer' \in Seq(Slots) /\ Len(timer') = 1 /\ timer'[1] = slot
      /\ 1 .. Len(timer') = {1}
  BY <1>1, <1>3
<1>5. Sorted(timer') /\ Distinct(timer') /\ Ids(timer') = {"watchdog"}
  BY <1>3, <1>4 DEF Sorted, Distinct, Ids
<1>6. firing' = << >> /\ firing' \in Seq(Slots) /\ Len(firing') = 0
  BY <1>1, InvFacts, EmptySeq DEF WatchdogInv, PoolInv
<1>7. free' \in 0 .. MaxTimers /\ Len(timer') + Len(firing') + free' = MaxTimers
  BY <1>1, <1>4, <1>6, TimerAssumption
<1>8. PoolInv'
  <2>1. wanted' \in SUBSET Timers /\ crowded' \in BOOLEAN
    BY <1>1, ConstantFacts
  <2>2. /\ Ids(timer') \subseteq wanted'
        /\ wanted' \subseteq Ids(timer') \cup Ids(firing') \/ crowded'
    BY <1>1, <1>5
  <2>3. IInv'
    BY <1>1, <1>4, <1>5, <1>6, <1>7, <2>1, <2>2, InvFromParts
  <2> QED
    BY <1>1, <2>3 DEF PoolInv, OwnSlotOnly
<1>9. Closing' /\ Ahead'
  BY <1>1, <1>2, <1>3, <1>4 DEF Closing, Ahead, SlotsOf
<1>10. Types'
  BY <1>1, <1>2 DEF WatchdogInv, Types
<1>11. Armed'
  BY <1>1, <1>2 DEF Armed
<1> QED
  BY <1>8, <1>9, <1>10, <1>11 DEF WatchdogInv

-----------------------------------------------------------------------------
LEMMA WatchdogInitially == WatchdogInit => WatchdogInv
<1> SUFFICES ASSUME WatchdogInit PROVE WatchdogInv
  OBVIOUS
<1>1. PoolInv
  BY PoolInitially DEF WatchdogInit
<1>2. Types
  <2>1. {wde, wdie, wdce, raised, wdrf, pending} \subseteq BOOLEAN
    BY DEF WatchdogInit
  <2>2. /\ wdp = 0 /\ cycle_count = 0 /\ runner = "raw" /\ acted = "none"
        /\ age = Window
    BY DEF WatchdogInit
  <2> QED
    BY <2>1, <2>2, ConstantFacts DEF Types
<1>3. Armed /\ Closing
  BY DEF WatchdogInit, Armed, Closing, Enabled
<1>4. Ahead
  BY DEF WatchdogInit, Init, Ahead, SlotsOf
<1> QED
  BY <1>1, <1>2, <1>3, <1>4 DEF WatchdogInv

LEMMA WatchdogPreserved == WatchdogInv /\ [WatchdogNext]_watchdogVars => WatchdogInv'
<1> SUFFICES ASSUME WatchdogInv, [WatchdogNext]_watchdogVars PROVE WatchdogInv'
  OBVIOUS
<1>1. CASE Write
  BY <1>1, WriteKeeps, GrantChangeKeeps DEF Write
<1>2. CASE WriteFlag \/ WDR \/ OtherTimer \/ OrdinaryReset \/ WatchdogExecute
  BY <1>2, WriteFlagKeeps, WDRKeeps, OtherTimerKeeps, OrdinaryResetKeeps, ExecuteKeeps
<1>3. CASE Callback
  BY <1>3, TimerInterruptKeeps, TimerResetKeeps, WdceClearKeeps, OtherCallbackKeeps
     DEF Callback
<1>4. CASE GoOn \/ CoreSleeps \/ ServeInterrupt \/ WatchdogReset
  BY <1>4, GoOnKeeps, CoreSleepsKeeps, ServeInterruptKeeps, WatchdogResetKeeps
<1>5. CASE UNCHANGED watchdogVars
  BY <1>5, WriteFlagKeeps
<1> QED
  BY <1>1, <1>2, <1>3, <1>4, <1>5 DEF WatchdogNext, Instruction

(* The inductive invariant holds throughout.                               *)
THEOREM WatchdogInvAlways == WatchdogSpec => []WatchdogInv
BY WatchdogInitially, WatchdogPreserved, PTL DEF WatchdogSpec

(* The watchdog and the timers it uses stay within their types.            *)
THEOREM WatchdogTyped == WatchdogSpec => []WatchdogTypeOK
<1>1. WatchdogInv => WatchdogTypeOK
  BY DEF WatchdogInv, PoolInv, IInv, Types, WatchdogTypeOK
<1> QED
  BY <1>1, WatchdogInvAlways, PTL

(* However it was switched on, a watchdog that is on is scheduled, unless  *)
(* all slots of the pool were wanted at once.                              *)
THEOREM WatchNeverDropped == WatchdogSpec => []WatchArmed
<1>1. WatchdogInv => WatchArmed
  BY WantedRuns DEF WatchdogInv, Armed, WatchArmed
<1> QED
  BY <1>1, WatchdogInvAlways, PTL

(* No firmware switches the watchdog off outside the window that WDCE      *)
(* grants: an instruction that finds the register open runs before the     *)
(* timer that closes it is due.                                            *)
THEOREM WindowHeld == WatchdogSpec => WindowRespected
<1> DEFINE Allowed == wde /\ ~wde' => acted' = "reset" \/ (age < Window /\ ~wdrf) \/ crowded
<1>1. WatchdogInv /\ [WatchdogNext]_watchdogVars => [Allowed]_watchdogVars
  <2> SUFFICES ASSUME WatchdogInv, WatchdogNext, wde, ~wde'
               PROVE  acted' = "reset" \/ (age < Window /\ ~wdrf) \/ crowded
    OBVIOUS
  <2>1. CASE OrdinaryReset
    BY <2>1 DEF OrdinaryReset, Act
  <2>2. ASSUME NEW v \in Values, WriteOpen(v)
        PROVE  (age < Window /\ ~wdrf) \/ crowded
    <3>1. ~wdrf /\ wdce /\ phase = "run"
      BY <2>2 DEF WriteOpen, Act, WatchdogInv, Types
    <3>2. ASSUME ~crowded PROVE age < Window
      <4>1. PICK s \in SlotsOf(timer) : s.id = "wdce_clear" /\ s.when + age <= Window
        BY <3>1, <3>2 DEF WatchdogInv, Closing
      <4>2. s.when > 0
        BY <3>1, <4>1 DEF WatchdogInv, Ahead
      <4>3. s.when \in Int /\ age \in Int /\ Window \in Int
        BY InvFacts, SlotTypes, ConstantFacts DEF WatchdogInv, PoolInv, SlotsOf, Types
      <4> QED
        BY <4>1, <4>2, <4>3
    <3> QED
      BY <3>1, <3>2
  <2>3. ASSUME NEW v \in Values, GrantChange(v) \/ WriteLocked(v) PROVE FALSE
    BY <2>3 DEF GrantChange, WriteLocked, WatchdogInv, Types
  <2>4. CASE WriteFlag \/ WDR \/ OtherTimer \/ WatchdogExecute
    BY <2>4 DEF WriteFlag, WDR, OtherTimer, WatchdogExecute, registers
  <2>5. CASE Callback
    BY <2>5 DEF Callback, TimerInterrupt, TimerReset, WdceClear, OtherCallback, registers
  <2>6. CASE GoOn \/ CoreSleeps \/ ServeInterrupt \/ WatchdogReset
    BY <2>6 DEF GoOn, CoreSleeps, ServeInterrupt, WatchdogReset, registers
  <2> QED
    BY <2>1, <2>2, <2>3, <2>4, <2>5, <2>6 DEF WatchdogNext, Instruction, Write
<1>2. WatchdogSpec => [][Allowed]_watchdogVars
  BY <1>1, WatchdogInvAlways, PTL DEF WatchdogSpec
<1> QED
  BY <1>2 DEF WindowRespected
=============================================================================
