------------------------------- MODULE Alarms -------------------------------
(***************************************************************************)
(* What the cycle timers promise the peripherals, without lists, slots and *)
(* phases: a set of alarms, at most one for each timer, of which the       *)
(* earliest is called first; between two passages of time every alarm that *)
(* is due is called, so none is called later than one instruction, or one  *)
(* cycle of sleep, after its time or, when that had passed already, after  *)
(* it was set; and an alarm is dropped only if all slots are taken by      *)
(* others.                                                                 *)
(* CycleTimers implements this.                                            *)
(***************************************************************************)
EXTENDS Integers, FiniteSets

CONSTANTS
  Timers, Delays, \* as in CycleTimers
  MaxTimers,      \* how many alarms there is room for
  Haste,          \* by how many cycles an alarm may be set too late
  MaxCycles       \* the longest instruction, in cycles

VARIABLES
  alarms,  \* the alarms that are set: who is called, and in how many cycles
  ringing, \* the alarm that is being answered, if any
  working  \* alarms may be set and time may pass; otherwise they are called

alarmVars == <<alarms, ringing, working>>

Alarm(t, w) == [id |-> t, when |-> w]
Of(t) == {a \in alarms : a.id = t}
NoneDue == \A a \in alarms : a.when > 0

Init == alarms = {} /\ ringing = {} /\ working = TRUE

-----------------------------------------------------------------------------
(* Setting an alarm moves the one that is set.  The one who is called sets *)
(* none that comes before the call.                                        *)
Set(t, d) ==
  LET rest == alarms \ Of(t)
  IN  /\ working \/ ringing # {}
      /\ \A a \in ringing : d > a.when
      /\ \/ alarms' = rest \cup {Alarm(t, d)}
         \/ alarms' = rest /\ Cardinality(rest) + Cardinality(ringing) = MaxTimers
      /\ UNCHANGED <<ringing, working>>

Unset(t) == alarms' = alarms \ Of(t) /\ UNCHANGED <<ringing, working>>

UnsetAll == working /\ alarms' = {} /\ UNCHANGED <<ringing, working>>

(* Cycles pass, and the alarms that are due then are called.               *)
Pass(c) ==
  /\ working /\ working' = FALSE
  /\ alarms' = {Alarm(a.id, a.when - c) : a \in alarms}
  /\ UNCHANGED ringing

Work == \E c \in 1 .. MaxCycles : Pass(c)

(* The core sleeps up to the first alarm, and for one cycle more.          *)
Doze ==
  /\ NoneDue
  /\ \/ alarms = {} /\ Pass(1)
     \/ \E a \in alarms : /\ \A b \in alarms : a.when <= b.when
                          /\ Pass(a.when + 1)

Settle ==
  /\ ~working
  /\ ringing = {} /\ NoneDue
  /\ working' = TRUE
  /\ UNCHANGED <<alarms, ringing>>

Ring(a) ==
  /\ ~working /\ ringing = {} /\ a.when <= 0
  /\ \A b \in alarms : a.when <= b.when
  /\ alarms' = alarms \ {a} /\ ringing' = {a}
  /\ UNCHANGED working

(* The answer: no more calls, or only the one asked for meanwhile.         *)
Silence == ringing # {} /\ ringing' = {} /\ UNCHANGED <<alarms, working>>

(* The next call is due as well: it is made at once.                       *)
RingAgain(a, d) ==
  /\ a.when + d <= 0
  /\ ringing' = {Alarm(a.id, a.when + d)}
  /\ UNCHANGED <<alarms, working>>

SetAgain(a, d) ==
  /\ a.when + d > 0 /\ ringing' = {}
  /\ \/ alarms' = alarms \cup {Alarm(a.id, a.when + d)}
     \/ alarms' = alarms /\ Cardinality(alarms) + 1 = MaxTimers
  /\ UNCHANGED working

(* Or one more, later than the one that is answered.                       *)
Again ==
  \E a \in ringing, d \in Delays :
    d > 0 /\ Of(a.id) = {} /\ (RingAgain(a, d) \/ SetAgain(a, d))

Next ==
  \/ \E t \in Timers : Unset(t) \/ \E d \in Delays : Set(t, d)
  \/ UnsetAll \/ Work \/ Doze \/ Settle \/ (\E a \in alarms : Ring(a)) \/ Silence \/ Again

Spec == Init /\ [][Next]_alarmVars

-----------------------------------------------------------------------------
(* A timer has one alarm, or is being called and may have set another.     *)
OneEach ==
  /\ \A a, b \in alarms : a.id = b.id => a = b
  /\ \A a, b \in ringing : a = b

(* How late a call can be.                                                 *)
Lateness == MaxCycles + Haste

(* No alarm rings later than that.                                         *)
NeverLate == \A a \in alarms \cup ringing : a.when >= -Lateness

(* Who is to be called for a time up to w, a call being made included.     *)
Backlog(w) == {a.id : a \in {b \in alarms \cup ringing : b.when <= w}}
=============================================================================
