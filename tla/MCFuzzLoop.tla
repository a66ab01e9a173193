----------------------------- MODULE MCFuzzLoop -----------------------------
(* Instances of FuzzLoop for TLC: two inputs, and a firmware that is a     *)
(* reset vector, a loop body and an interrupt handler.                     *)
EXTENDS FuzzLoop, TLC

CONSTANTS a, b, reset, body, isr, wild

Go(to) == [to |-> to, edge |-> FALSE, reports |-> {}, sleep |-> "no", cycles |-> 1]
Branch(to) == [Go(to) EXCEPT !.edge = TRUE, !.cycles = 2]
Reporting(to, ids) == [Go(to) EXCEPT !.reports = ids]
Asleep(irq) == [Go(body) EXCEPT !.sleep = irq]

MCInputs == {a, b}
MCSeeds == <<a>>
MCMutate == [i \in MCInputs |-> MCInputs]
MCLocs == {reset, body, isr}
MCVectors == {isr}
NoVectors == {}
MCValues == {0, 1}

Firmware(f) == [x \in MCInputs \X MCLocs |-> f[x[2]]]

\* The campaign: branches, a smashed stack, a wild jump, an interrupt.
CampaignCode == Firmware(
  reset :> {Go(body)} @@
  body :> {Branch(body), Branch(reset), Reporting(body, {Smash}), Go(wild)} @@
  isr :> {Go(body)})

\* The body checks a state variable, and the handler is skipped by
\* run_return_instruction or ends the test.
CampaignPatches == [l \in MCLocs |->
  CASE l = body -> <<"MAX", "other">>
    [] l = isr  -> <<"run_return">>
    [] OTHER    -> << >>]

\* Crashes: every kind of report, both kinds of sleep, reports on interrupt
\* entry, and a fuzz_reset in the middle of a patch list.
CrashCode == Firmware(
  reset :> {Go(body)} @@
  body :> {Reporting(body, {UUM}), Reporting(reset, {UUM, BadWrite}), Go(wild),
           Asleep("irq_on"), Asleep("irq_off")} @@
  isr :> {Go(body)})
CrashPatches == [l \in MCLocs |-> IF l = isr THEN <<"fuzz_reset", "other">> ELSE << >>]

\* Firmware that spins, branches and takes interrupts: only the timeout ends
\* its tests.
SpinCode == Firmware(
  reset :> {Go(body)} @@
  body :> {Go(body), Branch(body), Reporting(body, {UUM})} @@
  isr :> {Branch(body)})
SpinPatches == [l \in MCLocs |-> IF l = body THEN <<"MAX", "other">> ELSE << >>]

\* Input a branches and ends, input b always writes to an invalid address.
ReplayCode == [x \in MCInputs \X MCLocs |->
  IF x[2] = reset THEN {Go(body)}
  ELSE IF x[1] = a THEN {Branch(body)} ELSE {Reporting(body, {BadWrite})}]

Silent == {{}}
MaySmash == {{}, {Smash}}
NoPatches == [l \in MCLocs |-> << >>]
MCReturns == {body}
=============================================================================
