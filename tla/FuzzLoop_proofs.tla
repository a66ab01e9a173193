--------------------------- MODULE FuzzLoop_proofs ---------------------------
(***************************************************************************)
(* Theorems about FuzzLoop, for every value of its constants.              *)
(***************************************************************************)
EXTENDS FuzzLoop, FiniteSetTheorems, SequenceTheorems, TLAPS

(* What fuzz_reset leaves behind is well typed, whoever calls it.          *)
LEMMA FuzzResetType ==
  ASSUME TypeOK, NEW next \in {"check", "patch"}, FuzzReset(next)
  PROVE  /\ phase' \in {"check", "patch", "exited"}
         /\ state' \in {"Running", "Sleeping", "SleepingIrqOff", "Done"}
         /\ pc' \in Locs \cup {Wild} /\ InsideCode'
         /\ budget' \in 0 .. Timeout /\ age' \in 0 .. AgeCap
         /\ do_reset' \in BOOLEAN /\ interesting' \in BOOLEAN
         /\ current_input' \in Inputs /\ corpus' \in Seq(Inputs)
         /\ inputs_executed' \in 0 .. CounterMod - 1 /\ restarted' \in BOOLEAN
<1> USE DEF TypeOK
<1>1. inputs_executed' \in 0 .. CounterMod - 1
  BY NumberAssumption DEF FuzzReset
<1>2. CASE /\ run_once /\ phase' = "exited"
           /\ UNCHANGED <<cpuVars, current_input, interesting, corpus, age>>
  BY <1>1, <1>2 DEF cpuVars, InsideCode
<1>3. CASE /\ ~run_once /\ corpus' = EvaluateInput
           /\ GenerateInput(EvaluateInput) /\ AvrReset
           /\ phase' = next /\ age' = 0
  <2>1. EvaluateInput \in Seq(Inputs)
    BY DEF EvaluateInput
  <2>2. Entries(EvaluateInput) \subseteq Inputs
    BY <2>1 DEF Entries
  <2>3. current_input' \in Inputs
    BY <1>3, <2>2, InputAssumption DEF GenerateInput
  <2>4. /\ state' = "Running" /\ pc' = ResetLoc /\ budget' = Timeout /\ do_reset' = FALSE
        /\ restarted' \in BOOLEAN
    BY <1>3 DEF AvrReset
  <2>5. interesting' = FALSE
    BY <1>3 DEF GenerateInput
  <2>6. Timeout \in 0 .. Timeout /\ 0 \in 0 .. AgeCap
    BY NumberAssumption DEF AgeCap
  <2>7. corpus' \in Seq(Inputs)
    BY <1>3, <2>1
  <2>8. phase' \in {"check", "patch"} /\ age' \in 0 .. AgeCap
    BY <1>3, <2>6
  <2>9. QED
    BY <1>1, <2>3, <2>4, <2>5, <2>6, <2>7, <2>8, FirmwareAssumption DEF InsideCode
<1>4. QED
  BY <1>2, <1>3 DEF FuzzReset

(* crash_found keeps unique_crashes a function from keys to inputs.        *)
LEMMA CrashFoundType ==
  ASSUME TypeOK, NEW keys \in SUBSET CrashKeys, CrashFound(keys)
  PROVE  DOMAIN crashes' \subseteq CrashKeys /\ crashes' \in [DOMAIN crashes' -> Inputs]
BY DEF TypeOK, CrashFound

(* Whatever the padding bytes hold, crash_found keeps it well typed.       *)
LEMMA ReportType ==
  ASSUME TypeOK, NEW found \in SUBSET ((0 .. 4) \X (Locs \cup {Wild})), Report(found)
  PROVE  DOMAIN crashes' \subseteq CrashKeys /\ crashes' \in [DOMAIN crashes' -> Inputs]
<1>1. PICK padding \in [found -> Paddings] :
        CrashFound({<<f[1], f[2], padding[f]>> : f \in found})
  BY DEF Report
<1>2. {<<f[1], f[2], padding[f]>> : f \in found} \in SUBSET CrashKeys
  BY DEF CrashKeys
<1> QED
  BY <1>1, <1>2, CrashFoundType

(* edge_triggered keeps coverage a function from edges to inputs.          *)
LEMMA EdgeTriggeredType ==
  ASSUME TypeOK, NEW e \in Edges, EdgeTriggered(e)
  PROVE  /\ DOMAIN coverage' \subseteq Edges /\ coverage' \in [DOMAIN coverage' -> Inputs]
         /\ interesting' \in BOOLEAN
<1>1. DOMAIN coverage' \subseteq Edges /\ coverage' \in [DOMAIN coverage' -> Inputs]
  BY DEF TypeOK, EdgeTriggered
<1>2. interesting' \in BOOLEAN
  BY DEF EdgeTriggered
<1> QED
  BY <1>1, <1>2

(* However many cycles pass, the counters stay within their bounds.        *)
LEMMA CountersBounded ==
  ASSUME TypeOK, NEW n \in Nat
  PROVE  Minus(budget, n) \in 0 .. Timeout /\ Older(n) \in 0 .. AgeCap
<1>1. Timeout \in Nat /\ MaxCycles \in Nat /\ AgeCap \in Nat
  BY NumberAssumption DEF AgeCap
<1>2. budget \in Nat /\ budget <= Timeout /\ age \in Nat
  BY <1>1 DEF TypeOK
<1>3. Minus(budget, n) \in 0 .. Timeout
  BY <1>1, <1>2 DEF Minus
<1>4. Older(n) \in 0 .. AgeCap
  BY <1>1, <1>2 DEF Older
<1> QED
  BY <1>3, <1>4

(* Typing is inductive only together with the bad jump check: what an      *)
(* instruction may do is known for the locations inside the code section.  *)
THEOREM TypeCorrect == Spec => []WellFormed
<1>1. Init => TypeOK /\ InsideCode
  <2> SUFFICES ASSUME Init PROVE TypeOK /\ InsideCode
    OBVIOUS
  <2>1. Entries(Seeds) \subseteq Inputs
    BY InputAssumption DEF Entries
  <2>2. run_once \in BOOLEAN /\ current_input \in Inputs /\ corpus \in Seq(Inputs)
    <3>1. run_once \in BOOLEAN
      BY InputAssumption DEF Init
    <3>2. PICK parent \in Entries(Seeds) :
            IF run_once THEN corpus = <<parent>> /\ current_input = parent
                        ELSE corpus = Seeds /\ current_input \in Mutate[parent]
      BY DEF Init
    <3>3. parent \in Inputs /\ Mutate[parent] \subseteq Inputs
      BY <2>1, InputAssumption
    <3>4. CASE run_once
      <4>1. corpus = <<parent>> /\ current_input = parent
        BY <3>2, <3>4
      <4>2. <<parent>> \in Seq(Inputs)
        BY <3>3
      <4> QED
        BY <3>1, <3>3, <4>1, <4>2
    <3>5. CASE ~run_once
      BY <3>1, <3>2, <3>3, <3>5, InputAssumption
    <3> QED
      BY <3>4, <3>5
  <2>3. /\ DOMAIN coverage \subseteq Edges /\ coverage \in [DOMAIN coverage -> Inputs]
        /\ DOMAIN crashes \subseteq CrashKeys /\ crashes \in [DOMAIN crashes -> Inputs]
    BY DEF Init
  <2>4. sut_state \in [Locs \X Whens -> SUBSET Values]
    BY DEF Init
  <2>5. /\ budget \in 0 .. Timeout /\ age \in 0 .. AgeCap
        /\ inputs_executed \in 0 .. CounterMod - 1 /\ improved \in Nat
    BY NumberAssumption DEF Init, AgeCap
  <2>6. todo \in Seq(PatchKinds)
    BY EmptySeq DEF Init
  <2>7. /\ pc \in Locs \cup {Wild} /\ new_pc \in Locs \cup {Wild} /\ looked_up \in Locs
        /\ phase = "check" /\ state = "Running" /\ run_return = FALSE
        /\ do_reset = FALSE /\ interesting = FALSE /\ restarted = FALSE
    BY FirmwareAssumption DEF Init
  <2> QED
    BY <2>2, <2>3, <2>4, <2>5, <2>6, <2>7 DEF TypeOK, InsideCode
<1>2. TypeOK /\ InsideCode /\ [Next]_vars => TypeOK' /\ InsideCode'
  <2> SUFFICES ASSUME TypeOK, InsideCode, [Next]_vars
               PROVE  TypeOK' /\ InsideCode'
    OBVIOUS
  <2> USE DEF InsideCode
  <2> USE DEF vars, cpuVars, patchVars, inputVars, foundVars
  <2>1. CASE BadJumpFound
    <3>1. {<<BadJump, pc>>} \in SUBSET ((0 .. 4) \X (Locs \cup {Wild}))
      BY <2>1, FirmwareAssumption DEF BadJumpFound, BadJump
    <3> QED
      BY <2>1, <3>1, FuzzResetType, ReportType DEF BadJumpFound, TypeOK
  <2>2. CASE TimeoutReached
    <3>1. (IF ReportTimeouts THEN {<<TimedOut, pc>>} ELSE {})
            \in SUBSET ((0 .. 4) \X (Locs \cup {Wild}))
      BY DEF TypeOK, TimedOut
    <3> QED
      BY <2>2, <3>1, FuzzResetType, ReportType DEF TimeoutReached, TypeOK
  <2>3. CASE LookUpPatches
    BY <2>3, FirmwareAssumption DEF LookUpPatches, TypeOK
  <2>4. ASSUME NEW kind \in PatchKinds, NextPatchIs(kind)
        PROVE  todo' \in Seq(PatchKinds) /\ looked_up' \in Locs /\ new_pc' \in Locs \cup {Wild}
               /\ run_once' \in BOOLEAN
    BY <2>4 DEF NextPatchIs, TypeOK
  <2>5. CASE PatchFuzzReset
    BY <2>4, <2>5, FuzzResetType DEF PatchFuzzReset, TypeOK, PatchKinds
  <2>6. CASE PatchRunReturn
    BY <2>4, <2>6 DEF PatchRunReturn, TypeOK, PatchKinds
  <2>7. CASE PatchOther
    BY <2>4, <2>7 DEF PatchOther, TypeOK, PatchKinds
  <2>8. ASSUME NEW when \in Whens, NEW v \in Values, PatchAddState(when, v)
        PROVE  TypeOK' /\ InsideCode'
    <3>1. ASSUME NEW seen \in SUBSET Values
          PROVE  Recorded(when, v, seen) \in SUBSET Values
      BY DEF Recorded
    <3>2. sut_state' \in [Locs \X Whens -> SUBSET Values]
      BY <2>8, <3>1 DEF PatchAddState, TypeOK
    <3>3. improved' \in Nat /\ interesting' \in BOOLEAN
      BY <2>8 DEF PatchAddState, TypeOK
    <3> QED
      BY <2>4, <2>8, <3>2, <3>3 DEF PatchAddState, TypeOK, PatchKinds
  <2>9. ASSUME NEW to \in Returns, RunReturn(to)
        PROVE  TypeOK' /\ InsideCode'
    BY <2>9, FirmwareAssumption DEF RunReturn, TypeOK
  <2>10. ASSUME phase = "patch", NEW s \in Code[<<current_input, pc>>], Execute(s)
         PROVE  TypeOK' /\ InsideCode'
    <3>1. pc \in Locs /\ s \in Outcomes
      BY <2>10, FirmwareAssumption DEF TypeOK
    <3>2. s.to \in Locs \cup {Wild} /\ s.reports \in SUBSET {Smash, UUM, BadWrite}
          /\ s.cycles \in 1 .. MaxCycles /\ s.edge \in BOOLEAN
      BY <3>1 DEF Outcomes
    <3>3. {<<id, pc>> : id \in s.reports} \in SUBSET ((0 .. 4) \X (Locs \cup {Wild}))
      BY <3>1, <3>2 DEF Smash, UUM, BadWrite
    <3>4. DOMAIN crashes' \subseteq CrashKeys /\ crashes' \in [DOMAIN crashes' -> Inputs]
      BY <2>10, <3>3, ReportType DEF Execute
    <3>5. /\ DOMAIN coverage' \subseteq Edges /\ coverage' \in [DOMAIN coverage' -> Inputs]
          /\ interesting' \in BOOLEAN
      <4>1. CASE s.edge
        <5>1. <<pc, s.to>> \in Edges
          BY <3>1, <3>2 DEF Edges
        <5>2. EdgeTriggered(<<pc, s.to>>)
          BY <2>10, <4>1 DEF Execute
        <5> QED
          BY <5>1, <5>2, EdgeTriggeredType
      <4>2. CASE ~s.edge
        BY <2>10, <4>2 DEF Execute, TypeOK
      <4> QED
        BY <4>1, <4>2
    <3>6. budget' \in 0 .. Timeout /\ age' \in 0 .. AgeCap
      <4>1. s.cycles \in Nat
        BY <3>2, NumberAssumption
      <4> QED
        BY <2>10, <4>1, CountersBounded DEF Execute
    <3>7. /\ phase' \in {"reset", "timers"} /\ do_reset' \in BOOLEAN
          /\ state' \in {"Running", "Sleeping", "SleepingIrqOff", "Done"}
      <4>1. do_reset' = (do_reset \/ s.reports \cap NonRecoverable # {})
        BY <2>10 DEF Execute
      <4>2. do_reset' \in BOOLEAN
        BY <4>1
      <4>3. phase' \in {"reset", "timers"}
        BY <2>10 DEF Execute
      <4>4. state' \in {"Running", "Sleeping", "SleepingIrqOff", "Done"}
        BY <2>10 DEF Execute, TypeOK
      <4> QED
        BY <4>2, <4>3, <4>4
    <3> QED
      BY <2>10, <3>2, <3>4, <3>5, <3>6, <3>7 DEF Execute, TypeOK
  <2>11. CASE DoReset \/ WatchdogReset
    <3>1. /\ state' \in {state, "Running"} /\ pc' \in {pc, ResetLoc}
          /\ budget' \in {budget, Timeout} /\ do_reset' \in {do_reset, FALSE}
          /\ phase' \in {"exited", "check"} /\ restarted' \in BOOLEAN
      BY <2>11 DEF DoReset, WatchdogReset, Restart, AvrReset, TypeOK
    <3>2. Timeout \in 0 .. Timeout
      BY NumberAssumption
    <3>3. /\ state' \in {"Running", "Sleeping", "SleepingIrqOff", "Done"}
          /\ pc' \in Locs \cup {Wild} /\ budget' \in 0 .. Timeout /\ do_reset' \in BOOLEAN
      BY <3>1, <3>2, FirmwareAssumption DEF TypeOK
    <3> QED
      BY <2>11, <3>1, <3>3 DEF DoReset, WatchdogReset, Restart, TypeOK
  <2>12. CASE NextInstruction
    BY <2>12 DEF NextInstruction, NextCall, TypeOK
  <2>13. CASE Wake
    BY <2>13 DEF Wake, NextCall, TypeOK
  <2>14. CASE StayAsleep
    <3>1. budget' \in 0 .. Timeout /\ age' \in 0 .. AgeCap
      BY <2>14, NumberAssumption, CountersBounded DEF StayAsleep
    <3> QED
      BY <2>14, <3>1 DEF StayAsleep, NextCall, TypeOK
  <2>15. CASE QuitAsleep
    BY <2>15 DEF QuitAsleep, TypeOK
  <2>16. ASSUME NEW v \in Vectors, NEW reports \in PushReports, Interrupt(v, reports)
         PROVE  TypeOK' /\ InsideCode'
    <3>1. {<<id, new_pc>> : id \in reports} \in SUBSET ((0 .. 4) \X (Locs \cup {Wild}))
      BY FirmwareAssumption DEF NonRecoverable, Smash, BadWrite, TypeOK
    <3> QED
      BY <2>16, <3>1, ReportType, FirmwareAssumption DEF Interrupt, NextCall, TypeOK
  <2>17. CASE UNCHANGED vars
    BY <2>17 DEF TypeOK
  <2> QED
    BY <2>1, <2>2, <2>3, <2>5, <2>6, <2>7, <2>8, <2>9, <2>10, <2>11, <2>12,
       <2>13, <2>14, <2>15, <2>16, <2>17 DEF Next, RunOne, RunTail
<1>3. QED
  BY <1>1, <1>2, PTL DEF Spec, WellFormed

(* Nothing is fetched outside the code section, whatever the firmware and  *)
(* the patches do (the check of the program counter in avr_run_one).       *)
THEOREM FetchInside == Spec => []InsideCode
BY TypeCorrect, PTL DEF WellFormed

-----------------------------------------------------------------------------
(* Passing time keeps the cycles left and the cycles used in balance.      *)
LEMMA CountersBalanced ==
  ASSUME TypeOK, NoEarlyTimeout, NEW n \in Nat
  PROVE  Minus(budget, n) + Older(n) >= Timeout
<1>1. /\ Timeout \in Nat /\ MaxCycles \in Nat /\ AgeCap = Timeout + MaxCycles
      /\ budget \in Nat /\ age \in Nat /\ budget + age >= Timeout
  BY NumberAssumption DEF TypeOK, AgeCap, NoEarlyTimeout
<1>2. CASE age + n < AgeCap
  BY <1>1, <1>2 DEF Minus, Older
<1>3. CASE ~(age + n < AgeCap)
  BY <1>1, <1>3 DEF Minus, Older
<1> QED
  BY <1>2, <1>3

(* Every way of resetting the core re-arms next_reset, and only fuzz_reset *)
(* starts a new test: no test is timed out before its timeout has passed.  *)
THEOREM DeadlineFair == Spec => []NoEarlyTimeout
<1>1. Init => NoEarlyTimeout
  BY NumberAssumption DEF Init, NoEarlyTimeout
<1>2. TypeOK /\ InsideCode /\ NoEarlyTimeout /\ [Next]_vars => NoEarlyTimeout'
  <2> SUFFICES ASSUME TypeOK, InsideCode, NoEarlyTimeout, [Next]_vars
               PROVE  NoEarlyTimeout'
    OBVIOUS
  <2> USE DEF vars, cpuVars
  <2>1. ASSUME UNCHANGED <<budget, age>> PROVE NoEarlyTimeout'
    BY <2>1 DEF NoEarlyTimeout
  <2>2. ASSUME NEW next, FuzzReset(next) PROVE NoEarlyTimeout'
    BY <2>1, <2>2, NumberAssumption DEF FuzzReset, AvrReset, NoEarlyTimeout
  <2>3. CASE BadJumpFound \/ TimeoutReached \/ PatchFuzzReset
    BY <2>2, <2>3 DEF BadJumpFound, TimeoutReached, PatchFuzzReset
  <2>4. CASE LookUpPatches \/ PatchRunReturn \/ PatchOther \/ NextInstruction
             \/ Wake \/ QuitAsleep
    BY <2>1, <2>4 DEF LookUpPatches, PatchRunReturn, PatchOther, NextInstruction,
       Wake, QuitAsleep
  <2>5. ASSUME NEW when, NEW v, PatchAddState(when, v) PROVE NoEarlyTimeout'
    BY <2>1, <2>5 DEF PatchAddState
  <2>6. ASSUME NEW to, RunReturn(to) PROVE NoEarlyTimeout'
    BY <2>1, <2>6 DEF RunReturn
  <2>7. ASSUME phase = "patch", NEW s \in Code[<<current_input, pc>>], Execute(s)
        PROVE  NoEarlyTimeout'
    <3>1. s \in Outcomes
      BY <2>7, FirmwareAssumption DEF TypeOK, InsideCode
    <3>2. s.cycles \in Nat
      BY <3>1, NumberAssumption DEF Outcomes
    <3> QED
      BY <2>7, <3>2, CountersBalanced DEF Execute, NoEarlyTimeout
  <2>8. CASE DoReset \/ WatchdogReset
    <3>1. age \in Nat /\ Timeout \in Nat
      BY NumberAssumption DEF TypeOK, AgeCap
    <3> QED
      BY <2>1, <2>8, <3>1 DEF DoReset, WatchdogReset, Restart, AvrReset, NoEarlyTimeout
  <2>9. CASE StayAsleep
    BY <2>9, NumberAssumption, CountersBalanced DEF StayAsleep, NoEarlyTimeout
  <2>10. ASSUME NEW v, NEW reports, Interrupt(v, reports) PROVE NoEarlyTimeout'
    BY <2>1, <2>10 DEF Interrupt
  <2>11. CASE UNCHANGED vars
    BY <2>1, <2>11
  <2> QED
    BY <2>3, <2>4, <2>5, <2>6, <2>7, <2>8, <2>9, <2>10, <2>11
    DEF Next, RunOne, RunTail
<1>3. QED
  BY <1>1, <1>2, TypeCorrect, PTL DEF Spec, WellFormed

(* No step changes run_once: avr_reset clears it only where it is clear.   *)
LEMMA RunOnceFixed ==
  ASSUME [Next]_vars
  PROVE  UNCHANGED run_once
<1> USE DEF vars
<1>1. CASE BadJumpFound \/ TimeoutReached
  BY <1>1 DEF BadJumpFound, TimeoutReached
<1>2. CASE LookUpPatches \/ PatchFuzzReset \/ PatchRunReturn \/ PatchOther
  BY <1>2 DEF LookUpPatches, PatchFuzzReset, PatchRunReturn, PatchOther, NextPatchIs
<1>3. CASE DoReset \/ WatchdogReset \/ NextInstruction \/ Wake \/ QuitAsleep
           \/ StayAsleep
  BY <1>3 DEF DoReset, WatchdogReset, Restart, NextInstruction, Wake, QuitAsleep, StayAsleep
<1>4. ASSUME NEW when, NEW v, PatchAddState(when, v) PROVE UNCHANGED run_once
  BY <1>4 DEF PatchAddState, NextPatchIs
<1>5. ASSUME NEW to, RunReturn(to) PROVE UNCHANGED run_once
  BY <1>5 DEF RunReturn
<1>6. ASSUME NEW s, Execute(s) PROVE UNCHANGED run_once
  BY <1>6 DEF Execute
<1>7. ASSUME NEW v, NEW reports, Interrupt(v, reports) PROVE UNCHANGED run_once
  BY <1>7 DEF Interrupt
<1> QED
  BY <1>1, <1>2, <1>3, <1>4, <1>5, <1>6, <1>7 DEF Next, RunOne, RunTail

(* With --run_once_with the one seed is what runs and never changes, the   *)
(* program has ended once the test counts as executed, and no reset, be it *)
(* a timeout, a bad jump, a patch, do_reset or the watchdog, starts the    *)
(* core again.                                                             *)
THEOREM RunOnceIsOnce == Spec => []RunOnceFaithful
<1>1. Init => RunOnceFaithful
  BY DEF Init, RunOnceFaithful
<1>2. RunOnceFaithful /\ [Next]_vars => RunOnceFaithful'
  <2> SUFFICES ASSUME RunOnceFaithful, [Next]_vars, run_once PROVE RunOnceFaithful'
    BY RunOnceFixed DEF RunOnceFaithful
  <2> USE DEF RunOnceFaithful, vars, inputVars, cpuVars
  <2>1. ASSUME NEW next, FuzzReset(next) PROVE RunOnceFaithful'
    BY <2>1 DEF FuzzReset
  <2>2. CASE BadJumpFound \/ TimeoutReached \/ PatchFuzzReset
    BY <2>1, <2>2 DEF BadJumpFound, TimeoutReached, PatchFuzzReset
  <2>3. CASE LookUpPatches \/ PatchRunReturn \/ PatchOther \/ NextInstruction
             \/ Wake \/ QuitAsleep \/ StayAsleep \/ DoReset \/ WatchdogReset
    BY <2>3 DEF LookUpPatches, PatchRunReturn, PatchOther, NextPatchIs,
       NextInstruction, Wake, QuitAsleep, StayAsleep, DoReset, WatchdogReset, Restart
  <2>4. ASSUME NEW when, NEW v, PatchAddState(when, v) PROVE RunOnceFaithful'
    BY <2>4 DEF PatchAddState, NextPatchIs
  <2>5. ASSUME NEW to, RunReturn(to) PROVE RunOnceFaithful'
    BY <2>5 DEF RunReturn
  <2>6. ASSUME NEW s, Execute(s) PROVE RunOnceFaithful'
    BY <2>6 DEF Execute
  <2>7. ASSUME NEW v, NEW reports, Interrupt(v, reports) PROVE RunOnceFaithful'
    BY <2>7 DEF Interrupt
  <2>8. CASE UNCHANGED vars
    BY <2>8
  <2> QED
    BY <2>2, <2>3, <2>4, <2>5, <2>6, <2>7, <2>8 DEF Next, RunOne, RunTail
<1>3. QED
  BY <1>1, <1>2, PTL DEF Spec

-----------------------------------------------------------------------------
(* Only these steps change what the corpus theorems talk about.            *)
LEMMA CampaignSteps ==
  ASSUME [Next]_vars
  PROVE  \/ UNCHANGED <<coverage, corpus, interesting, current_input, improved>>
         \/ UNCHANGED <<coverage, improved>> /\ \E next : FuzzReset(next)
         \/ /\ phase = "patch"
            /\ \E s \in Code[<<current_input, pc>>] : Execute(s)
         \/ \E when \in Whens, v \in Values : PatchAddState(when, v)
<1> USE DEF vars, inputVars, foundVars
<1>1. CASE BadJumpFound \/ TimeoutReached \/ PatchFuzzReset
  BY <1>1 DEF BadJumpFound, TimeoutReached, PatchFuzzReset
<1>2. CASE LookUpPatches \/ PatchRunReturn \/ PatchOther \/ NextInstruction
           \/ Wake \/ QuitAsleep \/ StayAsleep \/ DoReset \/ WatchdogReset
  BY <1>2 DEF LookUpPatches, PatchRunReturn, PatchOther, NextInstruction, Wake,
     QuitAsleep, StayAsleep, DoReset, WatchdogReset, Restart
<1>3. ASSUME NEW to, RunReturn(to)
      PROVE  UNCHANGED <<coverage, corpus, interesting, current_input, improved>>
  BY <1>3 DEF RunReturn
<1>4. ASSUME NEW v, NEW reports, Interrupt(v, reports)
      PROVE  UNCHANGED <<coverage, corpus, interesting, current_input, improved>>
  BY <1>4 DEF Interrupt
<1>5. CASE UNCHANGED vars
  BY <1>5
<1> QED
  BY <1>1, <1>2, <1>3, <1>4, <1>5 DEF Next, RunOne, RunTail

(* Whatever ends a test, evaluate_input runs before the input is replaced: *)
(* no input that discovered an edge is ever lost.                          *)
THEOREM NoDiscoveryLost == Spec => []DiscoveriesKept
<1>1. Init => DiscoveriesKept
  BY DEF Init, DiscoveriesKept
<1>2. TypeOK /\ InsideCode /\ DiscoveriesKept /\ [Next]_vars => DiscoveriesKept'
  <2> SUFFICES ASSUME TypeOK, InsideCode, DiscoveriesKept, [Next]_vars
               PROVE  DiscoveriesKept'
    OBVIOUS
  <2>1. CASE UNCHANGED <<coverage, corpus, interesting, current_input, improved>>
    BY <2>1 DEF DiscoveriesKept, Entries
  <2>2. ASSUME UNCHANGED coverage, NEW next, FuzzReset(next) PROVE DiscoveriesKept'
    <3>1. Entries(corpus) \subseteq Entries(EvaluateInput)
      BY DEF Entries, EvaluateInput, TypeOK
    <3>2. interesting => current_input \in Entries(EvaluateInput)
      <4> SUFFICES ASSUME interesting
                   PROVE  current_input \in Entries(Append(corpus, current_input))
        BY DEF EvaluateInput
      <4>1. /\ Len(Append(corpus, current_input)) = Len(corpus) + 1
            /\ Append(corpus, current_input)[Len(corpus) + 1] = current_input
            /\ Len(corpus) \in Nat
        BY DEF TypeOK
      <4> QED
        BY <4>1 DEF Entries
    <3> QED
      BY <2>2, <3>1, <3>2 DEF FuzzReset, DiscoveriesKept
  <2>3. ASSUME NEW s \in Code[<<current_input, pc>>], Execute(s) PROVE DiscoveriesKept'
    <3>1. corpus' = corpus /\ current_input' = current_input
      BY <2>3 DEF Execute
    <3>2. CASE s.edge
      <4> DEFINE e == <<pc, s.to>>
      <4>1. /\ coverage' = [f \in DOMAIN coverage \cup {e} |->
                             IF f \in DOMAIN coverage THEN coverage[f] ELSE current_input]
            /\ interesting' = (interesting \/ e \notin DOMAIN coverage)
        BY <2>3, <3>2 DEF Execute, EdgeTriggered
      <4> HIDE DEF e
      <4>2. interesting => interesting'
        BY <4>1
      <4>3. e \notin DOMAIN coverage => interesting'
        BY <4>1
      <4> QED
        BY <3>1, <4>1, <4>2, <4>3 DEF DiscoveriesKept
    <3>3. CASE ~s.edge
      BY <2>3, <3>1, <3>3 DEF Execute, DiscoveriesKept
    <3> QED
      BY <3>2, <3>3
  <2>4. ASSUME NEW when, NEW v, PatchAddState(when, v) PROVE DiscoveriesKept'
    <3>1. UNCHANGED <<coverage, corpus, current_input>> /\ (interesting => interesting')
      BY <2>4 DEF PatchAddState
    <3> QED
      BY <3>1 DEF DiscoveriesKept
  <2> QED
    BY <2>1, <2>2, <2>3, <2>4, CampaignSteps
<1>3. QED
  BY <1>1, <1>2, TypeCorrect, PTL DEF Spec, WellFormed

(* A crash report is never lost, overwritten or filed under the wrong      *)
(* input, in any step of the loop.                                         *)
THEOREM LedgerKept == Spec => CrashLedger
<1> DEFINE Filed == \A k \in DOMAIN crashes \cup DOMAIN crashes' :
                      /\ k \in DOMAIN crashes'
                      /\ crashes'[k] = IF k \in DOMAIN crashes THEN crashes[k]
                                                             ELSE current_input
<1>1. ASSUME NEW found, Report(found) PROVE Filed
  BY <1>1 DEF Report, CrashFound
<1>2. ASSUME UNCHANGED crashes PROVE Filed
  BY <1>2
<1> HIDE DEF Filed
<1>3. ASSUME [Next]_vars PROVE [Filed]_vars
  <2> USE DEF foundVars
  <2>1. CASE BadJumpFound \/ TimeoutReached
    BY <1>1, <2>1 DEF BadJumpFound, TimeoutReached
  <2>2. CASE LookUpPatches \/ PatchRunReturn \/ PatchOther \/ NextInstruction
             \/ Wake \/ QuitAsleep \/ StayAsleep \/ DoReset \/ WatchdogReset
             \/ PatchFuzzReset
    BY <1>2, <2>2 DEF LookUpPatches, PatchRunReturn, PatchOther, NextInstruction,
       Wake, QuitAsleep, StayAsleep, DoReset, WatchdogReset, Restart, PatchFuzzReset
  <2>3. ASSUME NEW when, NEW v, PatchAddState(when, v) PROVE Filed
    BY <1>2, <2>3 DEF PatchAddState
  <2>4. ASSUME NEW to, RunReturn(to) PROVE Filed
    BY <1>2, <2>4 DEF RunReturn
  <2>5. ASSUME NEW s, Execute(s) PROVE Filed
    BY <1>1, <2>5 DEF Execute
  <2>6. ASSUME NEW v, NEW reports, Interrupt(v, reports) PROVE Filed
    BY <1>1, <2>6 DEF Interrupt
  <2> QED
    BY <1>3, <2>1, <2>2, <2>3, <2>4, <2>5, <2>6 DEF Next, RunOne, RunTail
<1>4. QED
  BY <1>3, PTL DEF Spec, CrashLedger, Filed

(* The corpus grows by at most one input per edge or state value found:    *)
(* replays, resets and timeouts never enter an input twice for one find.   *)
THEOREM CorpusBounded == Spec => []CorpusEarned
<1> DEFINE Flag == IF interesting THEN 1 ELSE 0
           Found == Cardinality(DOMAIN coverage)
<1>1. TypeOK => IsFiniteSet(DOMAIN coverage) /\ Found \in Nat
  <2>1. IsFiniteSet(Edges)
    <3>1. IsFiniteSet(Locs \cup {Wild})
      BY NumberAssumption, FS_AddElement
    <3> QED
      BY <3>1, NumberAssumption, FS_Product DEF Edges
  <2> QED
    BY <2>1, FS_Subset, FS_CardinalityType DEF TypeOK
<1>2. TypeOK => Len(corpus) \in Nat /\ improved \in Nat /\ Flag \in {0, 1}
  BY DEF TypeOK
<1>3. Len(Seeds) \in Nat
  BY InputAssumption
<1>4. Init => CorpusEarned
  <2> SUFFICES ASSUME Init PROVE CorpusEarned
    OBVIOUS
  <2>1. DOMAIN coverage = {} /\ interesting = FALSE /\ improved = 0
    BY DEF Init
  <2>2. Len(Seeds) >= 1
    BY InputAssumption, <1>3
  <2>3. \E parent \in Entries(Seeds) : corpus = IF run_once THEN <<parent>> ELSE Seeds
    BY DEF Init
  <2>4. Len(corpus) \in Nat /\ Len(corpus) <= Len(Seeds)
    BY <1>3, <2>2, <2>3
  <2> QED
    BY <1>3, <2>1, <2>4, FS_EmptySet DEF CorpusEarned
<1>5. TypeOK /\ InsideCode /\ CorpusEarned /\ [Next]_vars => CorpusEarned'
  <2> SUFFICES ASSUME TypeOK, InsideCode, CorpusEarned, [Next]_vars PROVE CorpusEarned'
    OBVIOUS
  <2> HIDE DEF Flag, Found
  <2>0. Len(corpus) + Flag <= Len(Seeds) + Found + improved
    BY DEF CorpusEarned, Flag, Found
  <2>1. CASE UNCHANGED <<coverage, corpus, interesting, current_input, improved>>
    BY <2>1 DEF CorpusEarned
  <2>2. ASSUME UNCHANGED <<coverage, improved>>, NEW next, FuzzReset(next)
        PROVE  CorpusEarned'
    <3>1. CASE run_once
      BY <2>1, <2>2, <3>1 DEF FuzzReset
    <3>2. CASE ~run_once
      <4>1. corpus' = EvaluateInput /\ interesting' = FALSE
        BY <2>2, <3>2 DEF FuzzReset, GenerateInput
      <4>2. Len(EvaluateInput) = Len(corpus) + Flag
        BY <1>2 DEF EvaluateInput, Flag, TypeOK
      <4>3. Len(corpus') + Flag' = Len(corpus) + Flag
        BY <1>2, <4>1, <4>2 DEF Flag
      <4>4. Found' = Found /\ improved' = improved
        BY <2>2 DEF Found
      <4> QED
        BY <2>0, <4>3, <4>4 DEF CorpusEarned, Flag, Found
    <3> QED
      BY <3>1, <3>2
  <2>3. ASSUME NEW s \in Code[<<current_input, pc>>], Execute(s) PROVE CorpusEarned'
    <3>1. corpus' = corpus /\ improved' = improved
      BY <2>3 DEF Execute
    <3>2. CASE s.edge
      <4> DEFINE e == <<pc, s.to>>
      <4>1. DOMAIN coverage' = DOMAIN coverage \cup {e}
            /\ interesting' = (interesting \/ e \notin DOMAIN coverage)
        BY <2>3, <3>2 DEF Execute, EdgeTriggered
      <4> HIDE DEF e
      <4>2. Found' = IF e \in DOMAIN coverage THEN Found ELSE Found + 1
        BY <1>1, <4>1, FS_AddElement DEF Found
      <4>3. CASE e \in DOMAIN coverage
        <5>1. Flag' = Flag /\ Found' = Found
          BY <4>1, <4>2, <4>3 DEF Flag
        <5> QED
          BY <2>0, <3>1, <5>1 DEF CorpusEarned, Flag, Found
      <4>4. CASE e \notin DOMAIN coverage
        <5>1. Flag' = 1 /\ Found' = Found + 1
          BY <4>1, <4>2, <4>4 DEF Flag
        <5>2. Len(corpus') + Flag' <= Len(Seeds) + Found' + improved'
          BY <1>1, <1>2, <1>3, <2>0, <3>1, <5>1
        <5> QED
          BY <5>2 DEF CorpusEarned, Flag, Found
      <4> QED
        BY <4>3, <4>4
    <3>3. CASE ~s.edge
      BY <2>3, <3>1, <3>3 DEF Execute, CorpusEarned
    <3> QED
      BY <3>2, <3>3
  <2>4. ASSUME NEW when, NEW v, PatchAddState(when, v) PROVE CorpusEarned'
    <3> DEFINE seen == sut_state[<<pc, when>>]
               better == seen # {} /\ Better(when, v, seen)
    <3>1. /\ corpus' = corpus /\ coverage' = coverage
          /\ interesting' = (interesting \/ better)
          /\ improved' = IF better THEN improved + 1 ELSE improved
      BY <2>4 DEF PatchAddState
    <3> HIDE DEF better
    <3>2. Found' = Found
      BY <3>1 DEF Found
    <3>3. CASE better
      <4>1. Flag' = 1 /\ improved' = improved + 1
        BY <3>1, <3>3 DEF Flag
      <4>2. Len(corpus') + Flag' <= Len(Seeds) + Found' + improved'
        BY <1>1, <1>2, <1>3, <2>0, <3>1, <3>2, <4>1
      <4> QED
        BY <4>2 DEF CorpusEarned, Flag, Found
    <3>4. CASE ~better
      <4>1. Flag' = Flag /\ improved' = improved
        BY <3>1, <3>4 DEF Flag
      <4> QED
        BY <2>0, <3>1, <3>2, <4>1 DEF CorpusEarned, Flag, Found
    <3> QED
      BY <3>3, <3>4
  <2> QED
    BY <2>1, <2>2, <2>3, <2>4, CampaignSteps
<1>6. QED
  BY <1>4, <1>5, TypeCorrect, PTL DEF Spec, WellFormed

-----------------------------------------------------------------------------
(* In steady firmware the deadline is the only thing that moves, and it is *)
(* exact: no reset in the middle of a test has re-armed it.                *)
SteadyInv ==
  /\ phase \notin {"reset", "watchdog"} /\ state # "Sleeping" /\ ~do_reset
  /\ phase = "patch" => budget > 0
  /\ budget > 0 => age + budget = Timeout
  /\ age < AgeCap

(* What an instruction may do: the constants say so where it is fetched.   *)
LEMMA OutcomeKnown ==
  ASSUME TypeOK, InsideCode, phase = "patch", NEW s \in Code[<<current_input, pc>>]
  PROVE  /\ <<current_input, pc>> \in Inputs \X Locs /\ s \in Outcomes
         /\ s.cycles \in Nat /\ s.cycles >= 1 /\ s.cycles <= MaxCycles
<1>1. <<current_input, pc>> \in Inputs \X Locs /\ s \in Outcomes
  BY FirmwareAssumption DEF TypeOK, InsideCode
<1>2. s.cycles \in 1 .. MaxCycles
  BY <1>1 DEF Outcomes
<1> QED
  BY <1>1, <1>2, NumberAssumption

(* The counters as numbers.                                                *)
LEMMA CountersTyped ==
  ASSUME TypeOK
  PROVE  /\ Timeout \in Nat /\ Timeout >= 1 /\ MaxCycles \in Nat /\ MaxCycles >= 1
         /\ AgeCap = Timeout + MaxCycles
         /\ budget \in Nat /\ budget <= Timeout /\ age \in Nat
BY NumberAssumption DEF TypeOK, AgeCap

(* SteadyInv is inductive: an instruction starts only while cycles are left*)
(* and takes at most MaxCycles, and only fuzz_reset re-arms the deadline.  *)
LEMMA SteadyStep ==
  ASSUME SteadyFirmware, TypeOK, InsideCode, SteadyInv, [Next]_vars
  PROVE  SteadyInv'
<1> USE DEF vars, cpuVars
<1>0. AgeCap > 0
  BY CountersTyped
<1>1. ASSUME NEW next \in {"check", "patch"}, FuzzReset(next) PROVE SteadyInv'
  <2>1. CASE phase' = "exited" /\ UNCHANGED <<cpuVars, age>>
    BY <2>1 DEF SteadyInv
  <2>2. CASE AvrReset /\ phase' = next /\ age' = 0
    BY <1>0, <2>2, CountersTyped DEF AvrReset, SteadyInv
  <2> QED
    BY <1>1, <2>1, <2>2 DEF FuzzReset
<1>2. CASE BadJumpFound \/ TimeoutReached \/ PatchFuzzReset
  BY <1>1, <1>2 DEF BadJumpFound, TimeoutReached, PatchFuzzReset
<1>3. CASE LookUpPatches
  BY <1>3 DEF LookUpPatches, SteadyInv
<1>4. ASSUME UNCHANGED <<phase, age, cpuVars>> PROVE SteadyInv'
  BY <1>4 DEF SteadyInv
<1>5. CASE PatchRunReturn \/ PatchOther
  BY <1>4, <1>5 DEF PatchRunReturn, PatchOther
<1>6. ASSUME NEW when, NEW v, PatchAddState(when, v) PROVE SteadyInv'
  BY <1>4, <1>6 DEF PatchAddState
<1>7. ASSUME NEW to, RunReturn(to) PROVE SteadyInv'
  BY <1>7 DEF RunReturn, SteadyInv
<1>8. ASSUME phase = "patch", NEW s \in Code[<<current_input, pc>>], Execute(s)
      PROVE  SteadyInv'
  <2>1. s.sleep # "irq_on" /\ s.reports \cap NonRecoverable = {}
    BY <1>8, OutcomeKnown DEF SteadyFirmware
  <2>2. do_reset' = FALSE
    BY <1>8, <2>1 DEF Execute, SteadyInv
  <2>3. phase' = "timers"
    BY <1>8, <2>2 DEF Execute
  <2>4. state' # "Sleeping"
    BY <1>8, <2>1 DEF Execute, SteadyInv
  <2>5. budget > 0 /\ age + budget = Timeout
    BY <1>8 DEF SteadyInv
  <2>6. /\ budget' = Minus(budget, s.cycles)
        /\ age' = Older(s.cycles)
    BY <1>8 DEF Execute
  <2>7. age' = age + s.cycles /\ age' < AgeCap
    BY <1>8, <2>5, <2>6, OutcomeKnown, CountersTyped DEF Older
  <2>8. budget' > 0 => age' + budget' = Timeout
    BY <1>8, <2>5, <2>6, <2>7, OutcomeKnown, CountersTyped DEF Minus
  <2> QED
    BY <2>2, <2>3, <2>4, <2>7, <2>8 DEF SteadyInv
<1>9. CASE DoReset \/ WatchdogReset \/ StayAsleep
  BY <1>9 DEF DoReset, WatchdogReset, StayAsleep, SteadyInv
<1>10. ASSUME NEW p, NextCall(p) PROVE phase' = p
  BY <1>10 DEF NextCall, SteadyFirmware
<1>11. CASE NextInstruction \/ Wake
  BY <1>10, <1>11 DEF NextInstruction, Wake, SteadyInv
<1>12. CASE QuitAsleep
  BY <1>12 DEF QuitAsleep, SteadyInv
<1>13. ASSUME NEW v, NEW reports \in PushReports, Interrupt(v, reports) PROVE SteadyInv'
  BY <1>10, <1>13 DEF Interrupt, SteadyFirmware, SteadyInv
<1>14. CASE UNCHANGED vars
  BY <1>4, <1>14
<1> QED
  BY <1>2, <1>3, <1>5, <1>6, <1>7, <1>8, <1>9, <1>11, <1>12, <1>13, <1>14
  DEF Next, RunOne, RunTail

(* With steady firmware it always holds.                                   *)
LEMMA SteadyAlways == SteadyFirmware => (Spec => []SteadyInv)
<1> SUFFICES ASSUME SteadyFirmware PROVE Spec => []SteadyInv
  OBVIOUS
<1>1. Init => SteadyInv
  BY NumberAssumption DEF Init, SteadyInv, AgeCap
<1>2. QED
  BY <1>1, SteadyStep, TypeCorrect, PTL DEF Spec, WellFormed

(* A test of steady firmware is over within one instruction of its timeout.*)
THEOREM TimeoutKept == SteadyFirmware => (Spec => []TimeoutHonoured)
<1>1. SteadyInv => TimeoutHonoured
  BY DEF SteadyInv, TimeoutHonoured
<1>2. QED
  BY <1>1, SteadyAlways, PTL

(* Without run_return patches no instruction is skipped.                   *)
NoneSkipped == ~run_return /\ "run_return" \notin Entries(todo)

LEMMA SkipStep ==
  ASSUME NothingSkipped, TypeOK, NoneSkipped, [Next]_vars
  PROVE  NoneSkipped'
<1> USE DEF vars, patchVars, NoneSkipped
<1>1. ASSUME UNCHANGED patchVars PROVE NoneSkipped'
  BY <1>1 DEF Entries
<1>2. ASSUME NEW kind, NextPatchIs(kind) PROVE kind # "run_return" /\ Entries(todo') \subseteq Entries(todo)
  <2>1. todo # << >> /\ kind = Head(todo) /\ todo' = Tail(todo) /\ todo \in Seq(PatchKinds)
    BY <1>2 DEF NextPatchIs, TypeOK
  <2>2. kind = todo[1] /\ 1 \in 1 .. Len(todo)
    BY <2>1
  <2>3. /\ Len(todo') = Len(todo) - 1 /\ Len(todo) \in Nat
        /\ \A k \in 1 .. Len(todo') : todo'[k] = todo[k + 1]
    BY <2>1
  <2> QED
    BY <2>2, <2>3 DEF Entries
<1>3. CASE LookUpPatches
  BY <1>3, FirmwareAssumption DEF LookUpPatches, NothingSkipped, TypeOK
<1>4. CASE PatchFuzzReset
  BY <1>2, <1>4 DEF PatchFuzzReset
<1>5. CASE PatchRunReturn
  BY <1>2, <1>5 DEF PatchRunReturn
<1>6. CASE PatchOther
  BY <1>2, <1>6 DEF PatchOther
<1>7. ASSUME NEW when, NEW v, PatchAddState(when, v) PROVE NoneSkipped'
  BY <1>2, <1>7 DEF PatchAddState
<1>8. ASSUME NEW to, RunReturn(to) PROVE NoneSkipped'
  BY <1>8 DEF RunReturn
<1>9. CASE BadJumpFound \/ TimeoutReached
  BY <1>1, <1>9 DEF BadJumpFound, TimeoutReached
<1>10. CASE NextInstruction \/ Wake \/ QuitAsleep \/ StayAsleep \/ DoReset \/ WatchdogReset
  BY <1>1, <1>10 DEF NextInstruction, Wake, QuitAsleep, StayAsleep, DoReset, WatchdogReset,
     Restart
<1>11. ASSUME NEW s, Execute(s) PROVE NoneSkipped'
  BY <1>1, <1>11 DEF Execute
<1>12. ASSUME NEW v, NEW reports, Interrupt(v, reports) PROVE NoneSkipped'
  BY <1>1, <1>12 DEF Interrupt
<1>13. CASE UNCHANGED vars
  BY <1>1, <1>13
<1> QED
  BY <1>3, <1>4, <1>5, <1>6, <1>7, <1>8, <1>9, <1>10, <1>11, <1>12, <1>13
  DEF Next, RunOne, RunTail

(* With steady firmware whose instructions are not skipped, every step ends*)
(* the test or decreases the cycles left, the phase or the patches to call,*)
(* in this order: the loop cannot turn for ever within one test.           *)
THEOREM HeadwayMade == SteadyFirmware /\ NothingSkipped => (Spec => Headway)
<1> SUFFICES ASSUME SteadyFirmware, NothingSkipped PROVE Spec => Headway
  OBVIOUS
<1> DEFINE Ends == inputs_executed' = (inputs_executed + 1) % CounterMod
           Nearer == \/ budget' < budget
                     \/ budget' = budget /\ Turn(phase') < Turn(phase)
                     \/ budget' = budget /\ phase' = phase /\ Len(todo') < Len(todo)
           Moves == Ends \/ phase' = "exited" \/ Nearer
<1>1. Init => NoneSkipped
  BY DEF Init, NoneSkipped, Entries
<1>2. TypeOK /\ InsideCode /\ SteadyInv /\ NoneSkipped /\ [Next]_vars => [Moves]_vars
  <2> SUFFICES ASSUME TypeOK, InsideCode, SteadyInv, NoneSkipped, Next PROVE Moves
    BY DEF vars
  <2> USE DEF vars, cpuVars, Turn
  <2>1. CASE BadJumpFound \/ TimeoutReached \/ PatchFuzzReset
    BY <2>1 DEF BadJumpFound, TimeoutReached, PatchFuzzReset, FuzzReset
  <2>2. CASE LookUpPatches
    BY <2>2 DEF LookUpPatches
  <2>3. ASSUME NEW kind, NextPatchIs(kind), UNCHANGED <<phase, budget>> PROVE Moves
    <3>1. todo # << >> /\ todo' = Tail(todo) /\ todo \in Seq(PatchKinds)
      BY <2>3 DEF NextPatchIs, TypeOK
    <3>2. Len(todo') < Len(todo)
      BY <3>1
    <3> QED
      BY <2>3, <3>2
  <2>4. CASE PatchRunReturn \/ PatchOther
    BY <2>3, <2>4 DEF PatchRunReturn, PatchOther
  <2>5. ASSUME NEW when, NEW v, PatchAddState(when, v) PROVE Moves
    BY <2>3, <2>5 DEF PatchAddState
  <2>6. ASSUME NEW to, RunReturn(to) PROVE Moves
    BY <2>6 DEF RunReturn, NoneSkipped
  <2>7. ASSUME phase = "patch", NEW s \in Code[<<current_input, pc>>], Execute(s)
        PROVE  Moves
    <3>1. budget > 0 /\ budget' = Minus(budget, s.cycles)
      BY <2>7 DEF SteadyInv, Execute
    <3>2. budget' < budget
      BY <2>7, <3>1, OutcomeKnown, CountersTyped DEF Minus
    <3> QED
      BY <3>2
  <2>8. CASE DoReset \/ WatchdogReset \/ StayAsleep
    BY <2>8 DEF DoReset, WatchdogReset, StayAsleep, SteadyInv
  <2>9. ASSUME phase = "timers", UNCHANGED budget, NextCall("check") PROVE Moves
    BY <2>9 DEF NextCall, SteadyFirmware
  <2>10. CASE NextInstruction \/ Wake
    BY <2>9, <2>10 DEF NextInstruction, Wake
  <2>11. CASE QuitAsleep
    BY <2>11 DEF QuitAsleep
  <2>12. ASSUME NEW v, NEW reports, Interrupt(v, reports) PROVE Moves
    BY <2>9, <2>12 DEF Interrupt
  <2> QED
    BY <2>1, <2>2, <2>4, <2>5, <2>6, <2>7, <2>8, <2>10, <2>11, <2>12
    DEF Next, RunOne, RunTail
<1>3. QED
  BY <1>1, <1>2, SkipStep, SteadyAlways, TypeCorrect, PTL
  DEF Spec, Headway, WellFormed, Ends, Nearer, Moves

-----------------------------------------------------------------------------
(* The refinement of Campaign.                                             *)
LEMMA CreditsUnchanged ==
  ASSUME TypeOK
  PROVE  Tests!Credits(crashes, crashes) /\ Tests!Credits(coverage, coverage)
BY DEF TypeOK, Tests!Credits

LEMMA ReportCredits ==
  ASSUME NEW found, Report(found)
  PROVE  Tests!Credits(crashes, crashes')
BY DEF Report, CrashFound, Tests!Credits

LEMMA EdgeCredits ==
  ASSUME TypeOK, NEW e, EdgeTriggered(e)
  PROVE  /\ Tests!Credits(coverage, coverage')
         /\ interesting' = (interesting \/ DOMAIN coverage' # DOMAIN coverage)
<1>1. /\ coverage' = [f \in DOMAIN coverage \cup {e} |->
                        IF f \in DOMAIN coverage THEN coverage[f] ELSE current_input]
      /\ interesting' = (interesting \/ e \notin DOMAIN coverage)
  BY DEF EdgeTriggered
<1>2. DOMAIN coverage' = DOMAIN coverage \cup {e}
  BY <1>1
<1>3. Tests!Credits(coverage, coverage')
  BY <1>1, <1>2 DEF Tests!Credits
<1>4. e \notin DOMAIN coverage <=> DOMAIN coverage' # DOMAIN coverage
  BY <1>2
<1>5. interesting' = (interesting \/ DOMAIN coverage' # DOMAIN coverage)
  BY Zenon, <1>1, <1>4
<1> QED
  BY <1>3, <1>5

(* Whoever calls it, fuzz_reset ends the test or the program.              *)
LEMMA FuzzResetEndsTest ==
  ASSUME TypeOK, phase # "exited", NEW next \in {"check", "patch"}, FuzzReset(next),
         Tests!Credits(crashes, crashes'), UNCHANGED <<run_once, coverage, improved>>
  PROVE  Tests!Next
<1>1. inputs_executed' = (inputs_executed + 1) % CounterMod
  BY DEF FuzzReset
<1>2. CASE run_once /\ phase' = "exited" /\ UNCHANGED <<current_input, interesting, corpus>>
  BY <1>1, <1>2 DEF Tests!Next, Tests!Stop
<1>3. CASE /\ ~run_once /\ corpus' = EvaluateInput /\ GenerateInput(EvaluateInput)
           /\ phase' = next
  <2>1. PICK parent \in Entries(EvaluateInput) : current_input' \in Mutate[parent]
    BY <1>3 DEF GenerateInput
  <2>2. parent \in Tests!Pool(corpus')
    BY <1>3, <2>1 DEF Entries, Tests!Pool
  <2>3. corpus' = IF interesting THEN Append(corpus, current_input) ELSE corpus
    BY <1>3 DEF EvaluateInput
  <2>4. interesting' = FALSE /\ (phase' = "exited") = (phase = "exited")
    BY <1>3 DEF GenerateInput
  <2>5. Tests!NextTest
    BY <1>1, <1>3, <2>1, <2>2, <2>3, <2>4 DEF Tests!NextTest
  <2> QED
    BY <2>5 DEF Tests!Next
<1> QED
  BY <1>2, <1>3 DEF FuzzReset

(* The core goes on, restarts or stops, and tells nothing of it.           *)
LEMMA UnseenSteps ==
  ASSUME TypeOK, phase # "exited",
         UNCHANGED <<run_once, current_input, interesting, corpus, inputs_executed,
                     coverage, crashes, improved>>
  PROVE  Tests!Next \/ UNCHANGED Tests!campaignVars
<1>1. CASE phase' = "exited"
  <2>1. Tests!Credits(crashes, crashes')
    BY CreditsUnchanged
  <2> QED
    BY <1>1, <2>1 DEF Tests!Next, Tests!Stop
<1>2. CASE phase' # "exited"
  BY <1>2 DEF Tests!campaignVars
<1> QED
  BY <1>1, <1>2

LEMMA InterruptObserved ==
  ASSUME TypeOK, NEW v, NEW reports, Interrupt(v, reports)
  PROVE  Tests!Next
<1>1. /\ phase = "timers" /\ phase' # "exited"
      /\ UNCHANGED <<run_once, current_input, interesting, corpus, inputs_executed,
                     coverage, improved>>
  BY DEF Interrupt, NextCall, inputVars
<1>2. Tests!Credits(crashes, crashes') /\ Tests!Credits(coverage, coverage')
  BY <1>1, ReportCredits, CreditsUnchanged DEF Interrupt
<1>3. /\ improved' \in {improved, improved + 1} /\ (phase' = "exited") = (phase = "exited")
      /\ interesting' = (interesting \/ DOMAIN coverage' # DOMAIN coverage
                                     \/ improved' # improved)
  BY <1>1 DEF TypeOK
<1>4. Tests!Observe
  BY <1>1, <1>2, <1>3 DEF Tests!Observe
<1> QED
  BY <1>1, <1>4 DEF Tests!Next

LEMMA InstructionObserved ==
  ASSUME TypeOK, NEW s, Execute(s)
  PROVE  Tests!Next
<1>1. /\ phase = "patch" /\ phase' # "exited"
      /\ UNCHANGED <<run_once, current_input, corpus, inputs_executed, improved>>
  BY DEF Execute
<1>2. Tests!Credits(crashes, crashes')
  BY ReportCredits DEF Execute
<1>3. /\ Tests!Credits(coverage, coverage')
      /\ interesting' = (interesting \/ DOMAIN coverage' # DOMAIN coverage)
  <2>1. CASE s.edge
    BY <2>1, EdgeCredits DEF Execute
  <2>2. CASE ~s.edge
    <3>1. UNCHANGED <<coverage, interesting>>
      BY <2>2 DEF Execute
    <3>2. interesting' = (interesting \/ DOMAIN coverage' # DOMAIN coverage)
      BY <3>1 DEF TypeOK
    <3> QED
      BY <3>1, <3>2, CreditsUnchanged
  <2> QED
    BY <2>1, <2>2
<1>4. (phase' = "exited") = (phase = "exited") /\ improved' = improved
  BY <1>1
<1>5. interesting' = (interesting \/ DOMAIN coverage' # DOMAIN coverage \/ improved' # improved)
  BY Zenon, <1>3, <1>4
<1>6. Tests!Observe
  BY <1>1, <1>2, <1>3, <1>4, <1>5 DEF Tests!Observe
<1> QED
  BY <1>1, <1>6 DEF Tests!Next

LEMMA StateObserved ==
  ASSUME TypeOK, NEW when, NEW v, PatchAddState(when, v)
  PROVE  Tests!Next
<1> DEFINE seen == sut_state[<<pc, when>>]
           better == seen # {} /\ Better(when, v, seen)
<1>1. /\ phase = "patch" /\ phase' = phase
      /\ UNCHANGED <<run_once, current_input, corpus, inputs_executed, coverage, crashes>>
      /\ interesting' = (interesting \/ better)
      /\ improved' = IF better THEN improved + 1 ELSE improved
  BY DEF PatchAddState, NextPatchIs
<1>2. improved \in Nat
  BY DEF TypeOK
<1> HIDE DEF seen, better
<1>3. better <=> improved' # improved
  BY <1>1, <1>2
<1>4. improved' \in {improved, improved + 1} /\ DOMAIN coverage' = DOMAIN coverage
  BY <1>1
<1>5. interesting' = (interesting \/ DOMAIN coverage' # DOMAIN coverage \/ improved' # improved)
  BY Zenon, <1>1, <1>3, <1>4
<1>6. Tests!Credits(crashes, crashes') /\ Tests!Credits(coverage, coverage')
  BY <1>1, CreditsUnchanged
<1>7. Tests!Observe
  BY <1>1, <1>4, <1>5, <1>6 DEF Tests!Observe
<1> QED
  BY <1>1, <1>7 DEF Tests!Next

LEMMA CampaignStep ==
  TypeOK /\ [Next]_vars => [Tests!Next]_(Tests!campaignVars)
<1> SUFFICES ASSUME TypeOK, [Next]_vars
             PROVE  Tests!Next \/ UNCHANGED Tests!campaignVars
  OBVIOUS
<1> USE DEF vars, inputVars, foundVars
<1>1. CASE BadJumpFound \/ TimeoutReached
  <2>1. phase # "exited" /\ FuzzReset("check") /\ UNCHANGED <<run_once, coverage, improved>>
    BY <1>1 DEF BadJumpFound, TimeoutReached
  <2>2. Tests!Credits(crashes, crashes')
    BY <1>1, ReportCredits DEF BadJumpFound, TimeoutReached
  <2> QED
    BY <2>1, <2>2, FuzzResetEndsTest
<1>2. CASE PatchFuzzReset
  <2>1. /\ phase # "exited" /\ FuzzReset("patch")
        /\ UNCHANGED <<run_once, coverage, crashes, improved>>
    BY <1>2 DEF PatchFuzzReset, NextPatchIs
  <2>2. Tests!Credits(crashes, crashes')
    BY <2>1, CreditsUnchanged
  <2> QED
    BY <2>1, <2>2, FuzzResetEndsTest
<1>3. CASE LookUpPatches \/ PatchRunReturn \/ PatchOther \/ NextInstruction
           \/ Wake \/ QuitAsleep \/ StayAsleep \/ DoReset \/ WatchdogReset
           \/ (\E to \in Returns : RunReturn(to))
  BY <1>3, UnseenSteps DEF LookUpPatches, PatchRunReturn, PatchOther, NextPatchIs,
     NextInstruction, Wake, QuitAsleep, StayAsleep, DoReset, WatchdogReset, Restart, RunReturn
<1>4. ASSUME NEW when, NEW v, PatchAddState(when, v) PROVE Tests!Next
  BY <1>4, StateObserved
<1>5. ASSUME NEW s, Execute(s) PROVE Tests!Next
  BY <1>5, InstructionObserved
<1>6. ASSUME NEW v, NEW reports, Interrupt(v, reports) PROVE Tests!Next
  BY <1>6, InterruptObserved
<1>7. CASE UNCHANGED vars
  BY <1>7 DEF Tests!campaignVars
<1> QED
  BY <1>1, <1>2, <1>3, <1>4, <1>5, <1>6, <1>7 DEF Next, RunOne, RunTail

(* Whatever the firmware, the patches and the resets do, the emulator runs *)
(* the campaign that was promised, step by step (the whole loop).          *)
THEOREM LoopKeepsCampaign == Spec => CampaignKept
<1>1. Init => Tests!Init
  <2> SUFFICES ASSUME Init PROVE Tests!Init
    OBVIOUS
  <2>1. run_once \in BOOLEAN
    BY InputAssumption DEF Init
  <2>2. /\ DOMAIN coverage = {} /\ DOMAIN crashes = {}
        /\ phase = "check" /\ interesting = FALSE /\ improved = 0 /\ inputs_executed = 0
    BY DEF Init
  <2>3. \E parent \in Tests!Pool(Seeds) :
          IF run_once THEN corpus = <<parent>> /\ current_input = parent
                      ELSE corpus = Seeds /\ current_input \in Mutate[parent]
    BY DEF Init, Entries, Tests!Pool
  <2> QED
    BY <2>1, <2>2, <2>3 DEF Tests!Init
<1>2. TypeOK /\ [Next]_vars => [Tests!Next]_(Tests!campaignVars)
  BY CampaignStep
<1> QED
  BY <1>1, <1>2, TypeCorrect, PTL DEF Spec, WellFormed, CampaignKept, Tests!Spec
=============================================================================
