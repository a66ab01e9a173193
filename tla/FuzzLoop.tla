------------------------------ MODULE FuzzLoop ------------------------------
(***************************************************************************)
(* The fuzzing loop of the emulator: one firmware execution per test       *)
(* input, driven by avr_run in sim_avr.c and avr_run_one in sim_core.c,    *)
(* with the campaign state of the fuzz_*.c files (current input, corpus,   *)
(* edge coverage, state feedback, unique crashes).                         *)
(*                                                                         *)
(* The firmware under test is the environment.  Code[i, l] holds what the  *)
(* instruction at location l may do while input i is being tested; the     *)
(* registers, the RAM and the sanitizers that decide between these         *)
(* outcomes are abstracted to the choice itself.  avr->cycle and           *)
(* avr->next_reset occur in the loop only in their comparison, so one      *)
(* variable, budget, keeps the difference next_reset - cycle (0 once the   *)
(* deadline has passed).  A crash is known by its id and address; the      *)
(* origin_addr of an uninitialized value is part of the abstracted data.   *)
(* The statistics total_crashes and max_depth and the send_* calls change  *)
(* nothing that this loop reads and are left out.                          *)
(***************************************************************************)
EXTENDS Naturals, Sequences, FiniteSets

CONSTANTS
  Inputs,      \* the test inputs
  Seeds,       \* the corpus the fuzzer starts with, in order
  Mutate,      \* Mutate[i]: what mutator_mutate can make of input i
  RunOnceModes, \* values of run_once: {FALSE}, {TRUE} or both
  Locs,        \* program counters inside the code section
  ResetLoc,    \* avr->reset_pc
  Wild,        \* stands for every pc at or past codeend, or SP past ramend
  Vectors,     \* entry points of the interrupts that may be raised
  PushReports, \* crash ids that entering an interrupt may report, by set
  Code,        \* Code[i, l]: outcomes of the instruction at l under input i
  Patches,     \* Patches[l]: the patch functions registered for l, in order
  Watchdog,    \* the firmware may let the watchdog reset the core
  Returns,     \* where run_return_instruction may find itself returning to
  Values,      \* values of the variables watched by add_state
  Timeout,     \* avr->timeout, in cycles
  MaxCycles,   \* the longest instruction, in cycles
  SleepCycles, \* cycles that one pass of the run loop spends asleep
  ReportTimeouts, \* FALSE iff started with --dont_report_timeouts
  Paddings,    \* what the uninitialized padding bytes of a CrashKey may hold
  CounterMod   \* inputs_executed is kept modulo this (2^32 in the code)

\* The crash ids that the loop can report.
Smash == 0
UUM == 1
TimedOut == 2
BadWrite == 3
BadJump == 4
NonRecoverable == {Smash, BadWrite}

Whens == {"UNIQUE", "MIN", "MAX"}
PatchKinds == {"fuzz_reset", "run_return", "other"} \cup Whens

\* What one instruction does to the loop.
Outcomes ==
  [ to      : Locs \cup {Wild},            \* the next pc
    edge    : BOOLEAN,                     \* calls edge_triggered(pc, to)
    reports : SUBSET {Smash, UUM, BadWrite}, \* crash_found, by crash id
    sleep   : {"no", "irq_on", "irq_off"}, \* SLEEP, with sreg[S_I]
    cycles  : 1 .. MaxCycles ]

Edges == Locs \X (Locs \cup {Wild})
CrashKeys == (0 .. 4) \X (Locs \cup {Wild}) \X Paddings

ASSUME InputAssumption ==
  /\ Seeds \in Seq(Inputs) /\ Seeds # << >>
  /\ Mutate \in [Inputs -> (SUBSET Inputs) \ {{}}]
  /\ RunOnceModes \subseteq BOOLEAN /\ ReportTimeouts \in BOOLEAN
  /\ Watchdog \in BOOLEAN

ASSUME FirmwareAssumption ==
  /\ ResetLoc \in Locs /\ Wild \notin Locs
  /\ Vectors \subseteq Locs /\ PushReports \subseteq SUBSET NonRecoverable
  /\ Code \in [Inputs \X Locs -> SUBSET Outcomes]
  /\ Patches \in [Locs -> Seq(PatchKinds)]
  /\ Returns \subseteq Locs \cup {Wild}
  /\ Values \subseteq Nat

ASSUME NumberAssumption ==
  /\ Timeout \in Nat \ {0}
  /\ MaxCycles \in Nat \ {0}
  /\ SleepCycles \in Nat \ {0}
  /\ CounterMod \in Nat \ {0}
  /\ IsFiniteSet(Locs) /\ Paddings # {}

VARIABLES
  run_once,      \* avr->run_once: started with --run_once_with; never changes
  phase,         \* where avr_run is: "check", "patch", "reset", "timers" of
                 \* avr_callback_run_raw, "watchdog" when avr->run is its reset
  state,         \* avr->state; "SleepingIrqOff" is cpu_Sleeping with S_I clear
  pc,            \* avr->pc
  new_pc,        \* new_pc of avr_callback_run_raw
  todo,          \* the patches of check_run_patch still to call
  looked_up,     \* the pc check_run_patch looked its patches up for
  run_return,    \* patch_side_effects->run_return_instruction
  budget,        \* next_reset - cycle, 0 when the deadline has passed
  do_reset,      \* avr->do_reset
  current_input, \* fuzzer->current_input
  interesting,   \* avr->input_has_reached_new_coverage
  corpus,        \* fuzzer->previous_interesting_inputs
  coverage,      \* avr->coverage; each edge mapped to the input that found it
  sut_state,     \* avr->SUT_state: values recorded per <<pc, when>>
  crashes,       \* avr->unique_crashes: CrashKey, as hashed, to crashing_input
  inputs_executed, \* fuzzer_stats.inputs_executed
  restarted,     \* history: avr_reset has started the core, under run_once
  age,           \* history: cycles since fuzz_reset last ran, up to AgeCap
  improved       \* history: how often add_state found a better value

cpuVars == <<state, pc, budget, do_reset, restarted>>
patchVars == <<todo, looked_up, run_return>>
inputVars == <<current_input, interesting, corpus, inputs_executed>>
foundVars == <<coverage, sut_state, crashes, improved>>
vars == <<run_once, phase, new_pc, age, cpuVars, patchVars, inputVars, foundVars>>

Entries(q) == {q[k] : k \in 1 .. Len(q)}
Minus(a, b) == IF a > b THEN a - b ELSE 0

\* Bound on age: past it the test has outlived its timeout anyhow.
AgeCap == Timeout + MaxCycles
Older(n) == IF age + n < AgeCap THEN age + n ELSE AgeCap

TypeOK ==
  /\ run_once \in BOOLEAN
  /\ phase \in {"check", "patch", "reset", "timers", "watchdog", "exited"}
  /\ state \in {"Running", "Sleeping", "SleepingIrqOff", "Done"}
  /\ pc \in Locs \cup {Wild} /\ new_pc \in Locs \cup {Wild}
  /\ todo \in Seq(PatchKinds) /\ looked_up \in Locs /\ run_return \in BOOLEAN
  /\ budget \in 0 .. Timeout /\ age \in 0 .. AgeCap
  /\ do_reset \in BOOLEAN /\ interesting \in BOOLEAN /\ restarted \in BOOLEAN
  /\ current_input \in Inputs /\ corpus \in Seq(Inputs)
  /\ DOMAIN coverage \subseteq Edges /\ coverage \in [DOMAIN coverage -> Inputs]
  /\ sut_state \in [Locs \X Whens -> SUBSET Values]
  /\ DOMAIN crashes \subseteq CrashKeys /\ crashes \in [DOMAIN crashes -> Inputs]
  /\ inputs_executed \in 0 .. CounterMod - 1
  /\ improved \in Nat

-----------------------------------------------------------------------------
\* Fault: the latest input of a crash replaces the first.
CrashFoundReplaces(keys) ==
  crashes' = [k \in DOMAIN crashes \cup keys |->
                IF k \in keys THEN current_input ELSE crashes[k]]

(* crash_found: a key that is already known keeps its first input.         *)
CrashFound(keys) ==
  crashes' = [k \in DOMAIN crashes \cup keys |->
                IF k \in DOMAIN crashes THEN crashes[k] ELSE current_input]

(* The key is malloc'ed and its members are set, but the hash table hashes *)
(* all sizeof(CrashKey) bytes: it also tells the padding bytes apart.      *)
Report(found) ==
  \E padding \in [found -> Paddings] :
    CrashFound({<<f[1], f[2], padding[f]>> : f \in found})

(* edge_triggered: only an edge never seen before marks the input.         *)
EdgeTriggered(e) ==
  /\ coverage' = [f \in DOMAIN coverage \cup {e} |->
                    IF f \in DOMAIN coverage THEN coverage[f] ELSE current_input]
  /\ interesting' = (interesting \/ e \notin DOMAIN coverage)

\* Fault: generate_input is called first, and it clears the mark.
EvaluateInputTooLate == corpus

(* evaluate_input: an interesting input joins the corpus.                  *)
EvaluateInput ==
  IF interesting THEN Append(corpus, current_input) ELSE corpus

\* Fault: the mark is not cleared for the new input.
GenerateInputMarked(pool) ==
  /\ \E parent \in Entries(pool) : current_input' \in Mutate[parent]
  /\ UNCHANGED interesting

(* generate_input: mutate an entry of the corpus pool.                     *)
GenerateInput(pool) ==
  /\ \E parent \in Entries(pool) : current_input' \in Mutate[parent]
  /\ interesting' = FALSE

\* Fault: next_reset is not re-armed.
AvrResetSameDeadline ==
  /\ state' = "Running" /\ pc' = ResetLoc
  /\ do_reset' = FALSE
  /\ restarted' = (restarted \/ run_once)
  /\ UNCHANGED budget

(* avr_reset, as far as the loop can see; with run_once it exits instead.  *)
AvrReset ==
  /\ state' = "Running" /\ pc' = ResetLoc
  /\ budget' = Timeout
  /\ do_reset' = FALSE
  /\ restarted' = (restarted \/ run_once)

(* fuzz_reset, after which the caller goes on at phase next.               *)
FuzzReset(next) ==
  /\ inputs_executed' = (inputs_executed + 1) % CounterMod
  /\ \/ /\ run_once
        /\ phase' = "exited"
        /\ UNCHANGED <<cpuVars, current_input, interesting, corpus, age>>
     \/ /\ ~run_once
        /\ corpus' = EvaluateInput
        /\ GenerateInput(EvaluateInput)
        /\ AvrReset
        /\ phase' = next
        /\ age' = 0

-----------------------------------------------------------------------------
(* avr_run_one, before the instruction.  After a fuzz_reset the checks     *)
(* that remain cannot fail, so the loop simply starts over at "check".     *)

BadJumpFound ==
  /\ phase = "check" /\ pc = Wild
  /\ Report({<<BadJump, pc>>})
  /\ FuzzReset("check")
  /\ UNCHANGED <<run_once, new_pc, patchVars, coverage, sut_state, improved>>

\* Fault: a timeout restarts the core as do_reset does, with the same input.
TimeoutReplays ==
  /\ phase = "check" /\ pc # Wild /\ budget = 0
  /\ AvrReset
  /\ UNCHANGED <<run_once, phase, new_pc, age, patchVars, inputVars, foundVars>>

TimeoutReached ==
  /\ phase = "check" /\ pc # Wild /\ budget = 0
  /\ Report(IF ReportTimeouts THEN {<<TimedOut, pc>>} ELSE {})
  /\ FuzzReset("check")
  /\ UNCHANGED <<run_once, new_pc, patchVars, coverage, sut_state, improved>>

\* Fault: the patches are looked up before the bad jump check.
LookUpPatchesUnchecked ==
  /\ phase = "check" /\ budget > 0
  /\ phase' = "patch"
  /\ todo' = (IF pc \in Locs THEN Patches[pc] ELSE << >>) /\ looked_up' = ResetLoc
  /\ UNCHANGED <<run_once, new_pc, age, cpuVars, run_return, inputVars, foundVars>>

\* Fault: instructions are run although next_reset has passed.
LookUpPatchesUntimed ==
  /\ phase = "check" /\ pc # Wild
  /\ phase' = "patch"
  /\ todo' = Patches[pc] /\ looked_up' = pc
  /\ UNCHANGED <<run_once, new_pc, age, cpuVars, run_return, inputVars, foundVars>>

(* HASH_FIND_INT of check_run_patch.                                       *)
LookUpPatches ==
  /\ phase = "check" /\ pc # Wild /\ budget > 0
  /\ phase' = "patch"
  /\ todo' = Patches[pc] /\ looked_up' = pc
  /\ UNCHANGED <<run_once, new_pc, age, cpuVars, run_return, inputVars, foundVars>>

\* Fault: the loop over the patches does not go on to the next one.
NextPatchAgain(kind) ==
  /\ phase = "patch" /\ todo # << >> /\ Head(todo) = kind
  /\ UNCHANGED <<run_once, new_pc, todo, looked_up>>

NextPatchIs(kind) ==
  /\ phase = "patch" /\ todo # << >> /\ Head(todo) = kind
  /\ todo' = Tail(todo)
  /\ UNCHANGED <<run_once, new_pc, looked_up>>

(* The list keeps being called after a fuzz_reset among its patches.       *)
PatchFuzzReset ==
  /\ NextPatchIs("fuzz_reset")
  /\ FuzzReset("patch")
  /\ UNCHANGED <<run_return, foundVars>>

PatchRunReturn ==
  /\ NextPatchIs("run_return")
  /\ run_return' = TRUE
  /\ UNCHANGED <<phase, age, cpuVars, inputVars, foundVars>>

(* Any other patch, such as write_fuzz_input_global or print_current_input.*)
PatchOther ==
  /\ NextPatchIs("other")
  /\ UNCHANGED <<phase, age, run_return, cpuVars, inputVars, foundVars>>

Better(when, v, seen) ==
  \/ when = "UNIQUE" /\ v \notin seen
  \/ when = "MIN" /\ \A u \in seen : v < u
  \/ when = "MAX" /\ \A u \in seen : v > u

(* The values kept once v was read: a set for UNIQUE, one value otherwise. *)
Recorded(when, v, seen) ==
  CASE seen = {}              -> {v}
    [] ~Better(when, v, seen) -> seen
    [] when = "UNIQUE"        -> seen \cup {v}
    [] OTHER                  -> {v}

(* add_state; v is what read_from_ram returns.  The first value read for a *)
(* key is stored without marking the input.                                *)
PatchAddState(when, v) ==
  LET seen == sut_state[<<pc, when>>]
      better == seen # {} /\ Better(when, v, seen)
  IN  /\ NextPatchIs(when)
      /\ sut_state' = [sut_state EXCEPT ![<<pc, when>>] = Recorded(when, v, seen)]
      /\ interesting' = (interesting \/ better)
      /\ improved' = IF better THEN improved + 1 ELSE improved
      /\ UNCHANGED <<phase, age, run_return, cpuVars, current_input, corpus,
                     inputs_executed, coverage, crashes>>

-----------------------------------------------------------------------------
(* avr_run_one, the instruction itself.                                    *)

(* run_return_instruction: a RET in place of the instruction.  It returns  *)
(* at once: no cycles are counted and do_reset is not looked at.           *)
RunReturn(to) ==
  /\ phase = "patch" /\ todo = << >> /\ run_return
  /\ run_return' = FALSE
  /\ new_pc' = to
  /\ phase' = "timers"
  /\ UNCHANGED <<run_once, age, todo, looked_up, cpuVars, inputVars, foundVars>>

Execute(s) ==
  /\ phase = "patch" /\ todo = << >> /\ ~run_return
  /\ Report({<<id, pc>> : id \in s.reports})
  /\ do_reset' = (do_reset \/ s.reports \cap NonRecoverable # {})
  /\ IF s.edge THEN EdgeTriggered(<<pc, s.to>>)
               ELSE UNCHANGED <<coverage, interesting>>
  /\ state' = CASE s.sleep = "no"     -> state
                [] s.sleep = "irq_on" -> "Sleeping"
                [] OTHER              -> "SleepingIrqOff"
  /\ budget' = Minus(budget, s.cycles)
  /\ age' = Older(s.cycles)
  /\ new_pc' = s.to
  /\ phase' = IF do_reset' THEN "reset" ELSE "timers"
  /\ UNCHANGED <<run_once, restarted, pc, patchVars, current_input, corpus,
                 inputs_executed, sut_state, improved>>

\* Fault: --run_once_with is looked at in fuzz_reset only.
RestartAgain ==
  /\ phase' = "check" /\ AvrReset
  /\ UNCHANGED <<run_once, new_pc, age, patchVars, inputVars, foundVars>>

(* avr_reset in the middle of a test: the input stays.                     *)
Restart ==
  /\ \/ run_once /\ phase' = "exited" /\ UNCHANGED cpuVars
     \/ ~run_once /\ phase' = "check" /\ AvrReset
  /\ UNCHANGED <<run_once, new_pc, age, patchVars, inputVars, foundVars>>

(* The do_reset branch after the instruction: avr_reset and once more from *)
(* the top, with the same input.                                           *)
DoReset ==
  /\ phase = "reset"
  /\ Restart

-----------------------------------------------------------------------------
(* avr_callback_run_raw, after avr_run_one: cycle timers, sleep, interrupts.*)

(* avr_watchdog_timer, when it fires without its interrupt, makes the next *)
(* call of avr_run a reset.                                                *)
NextCall(p) == phase' \in {p} \cup (IF Watchdog THEN {"watchdog"} ELSE {})

WatchdogReset ==
  /\ phase = "watchdog"
  /\ Restart

NextInstruction ==
  /\ phase = "timers" /\ state = "Running"
  /\ pc' = new_pc /\ NextCall("check")
  /\ UNCHANGED <<run_once, restarted, state, budget, do_reset, new_pc, age,
                 patchVars, inputVars, foundVars>>

(* A timer raised an interrupt that the core does not take at once.        *)
Wake ==
  /\ phase = "timers" /\ state \in {"Sleeping", "SleepingIrqOff"}
  /\ Vectors # {}
  /\ state' = "Running"
  /\ pc' = new_pc /\ NextCall("check")
  /\ UNCHANGED <<run_once, restarted, budget, do_reset, new_pc, age, patchVars,
                 inputVars, foundVars>>

(* avr_service_interrupts enters handler v; pushing the return address     *)
(* goes through avr_core_watch_write, which may report.                    *)
Interrupt(v, reports) ==
  /\ phase = "timers" /\ state \in {"Running", "Sleeping"}
  /\ Report({<<id, new_pc>> : id \in reports})
  /\ do_reset' = (do_reset \/ reports # {})
  /\ state' = "Running"
  /\ pc' = v /\ NextCall("check")
  /\ UNCHANGED <<run_once, restarted, budget, new_pc, age, patchVars,
                 inputVars, coverage, sut_state, improved>>

(* cycle += 1 + sleep: no instruction runs, so nothing looks at next_reset.*)
StayAsleep ==
  /\ phase = "timers" /\ state = "Sleeping"
  /\ budget' = Minus(budget, SleepCycles)
  /\ age' = Older(SleepCycles)
  /\ pc' = new_pc /\ NextCall("timers")
  /\ UNCHANGED <<run_once, restarted, state, do_reset, new_pc, patchVars,
                 inputVars, foundVars>>

(* Sleeping with interrupts off: cpu_Done, and main leaves its loop.       *)
QuitAsleep ==
  /\ phase = "timers" /\ state = "SleepingIrqOff"
  /\ state' = "Done"
  /\ pc' = new_pc /\ phase' = "exited"
  /\ UNCHANGED <<run_once, restarted, budget, do_reset, new_pc, age, patchVars,
                 inputVars, foundVars>>

-----------------------------------------------------------------------------
(* initialize_fuzzer, after avr_init has reset the core.                   *)
Init ==
  /\ phase = "check" /\ state = "Running"
  /\ pc = ResetLoc /\ new_pc = ResetLoc
  /\ todo = << >> /\ looked_up = ResetLoc /\ run_return = FALSE
  /\ budget = Timeout /\ age = 0 /\ do_reset = FALSE /\ restarted = FALSE
  /\ run_once \in RunOnceModes /\ interesting = FALSE
  /\ \E parent \in Entries(Seeds) :
       IF run_once THEN corpus = <<parent>> /\ current_input = parent
                   ELSE corpus = Seeds /\ current_input \in Mutate[parent]
  /\ coverage = [e \in {} |-> Seeds[1]]
  /\ crashes = [k \in {} |-> Seeds[1]]
  /\ sut_state = [k \in Locs \X Whens |-> {}]
  /\ inputs_executed = 0 /\ improved = 0

RunOne ==
  \/ BadJumpFound \/ TimeoutReached \/ LookUpPatches
  \/ PatchFuzzReset \/ PatchRunReturn \/ PatchOther
  \/ \E when \in Whens, v \in Values : PatchAddState(when, v)
  \/ \E to \in Returns : RunReturn(to)
  \/ phase = "patch" /\ \E s \in Code[<<current_input, pc>>] : Execute(s)
  \/ DoReset

RunTail ==
  \/ NextInstruction \/ Wake \/ StayAsleep \/ QuitAsleep \/ WatchdogReset
  \/ \E v \in Vectors, reports \in PushReports : Interrupt(v, reports)

Next == RunOne \/ RunTail

(* The emulator is one thread that main keeps calling until it is done.    *)
Spec == Init /\ [][Next]_vars
FairSpec == Spec /\ WF_vars(Next)

-----------------------------------------------------------------------------
(* The input that first reached an edge is never thrown away: it is in the *)
(* corpus, or it is still being tested and is marked for it (edge_triggered*)
(* and evaluate_input, across every kind of reset).                        *)
DiscoveriesKept ==
  \A e \in DOMAIN coverage :
    \/ coverage[e] \in Entries(corpus)
    \/ interesting /\ coverage[e] = current_input

(* Every corpus entry beyond the seeds paid for itself with an edge or a   *)
(* state value that no input had reached before it (evaluate_input adds an *)
(* input once, however often its test is restarted by do_reset).           *)
CorpusEarned ==
  Len(corpus) + (IF interesting THEN 1 ELSE 0)
    <= Len(Seeds) + Cardinality(DOMAIN coverage) + improved

(* No test is cut short: until the deadline passes, the cycles left and    *)
(* the cycles used since fuzz_reset generated the input make up at least   *)
(* the whole timeout (avr_reset re-arms next_reset on every path).         *)
NoEarlyTimeout == budget + age >= Timeout

(* No instruction is fetched and no patch looked up outside the code       *)
(* section (the bad jump check at the top of avr_run_one).                 *)
InsideCode == phase = "patch" => pc \in Locs

(* The type invariant of the loop: where it may be, and what its counters, *)
(* lists and tables hold there, after whatever mixture of resets.          *)
WellFormed == TypeOK /\ InsideCode

(* unique_crashes only grows, keeps the first input of a key, and a new key*)
(* gets the input whose test is running when the crash is found, also when *)
(* the same step goes on to replace that input (crash_found).              *)
CrashLedger ==
  [][ \A k \in DOMAIN crashes \cup DOMAIN crashes' :
        /\ k \in DOMAIN crashes'
        /\ crashes'[k] = IF k \in DOMAIN crashes THEN crashes[k]
                                               ELSE current_input ]_vars

(* Each crash is in unique_crashes, is sent and is counted once ("unique   *)
(* crashes", process_messages.py), however often it is found.              *)
CrashFiledOnce ==
  \A j, k \in DOMAIN crashes : j[1] = k[1] /\ j[2] = k[2] => j = k

(* --run_once_with tests its file unmutated and runs the firmware on it    *)
(* once: "if set to 1: quit instead of reset the emulator" (sim_avr.h).    *)
(* Timeouts, bad jumps, patches, do_reset and the watchdog all end the     *)
(* program where they would start the core again, and a test that counts   *)
(* as executed has ended it (fuzz_reset and avr_reset).                    *)
RunOnceFaithful ==
  run_once => /\ corpus = <<current_input>> /\ current_input \in Entries(Seeds)
              /\ inputs_executed # 0 => phase = "exited"
              /\ ~restarted

(* The loop of patches, instructions, resets and sleeps is, seen from      *)
(* outside, the campaign that Campaign promises: what is found is credited *)
(* to the input under test and kept, once, before the next input is made,  *)
(* whichever path ends the test (sim_core.c and the fuzz_*.c together).    *)
Tests == INSTANCE Campaign WITH
  once <- run_once, over <- phase = "exited", input <- current_input,
  marked <- interesting, found <- coverage, ledger <- crashes, gains <- improved,
  tests <- inputs_executed
CampaignKept == Tests!Spec

(* Firmware whose tests only fuzz_reset ends and which never waits for an  *)
(* interrupt: what TimeoutHonoured and Headway are about.                  *)
SteadyFirmware ==
  /\ \A x \in Inputs \X Locs : \A s \in Code[x] :
       s.sleep # "irq_on" /\ s.reports \cap NonRecoverable = {}
  /\ PushReports \subseteq {{}} /\ ~Watchdog

NothingSkipped == \A l \in Locs : "run_return" \notin Entries(Patches[l])

(* "Timeout after 'timeout' cycles" (sim_avr.h): a test is over at most one*)
(* instruction after its timeout, if the firmware is steady.               *)
TimeoutHonoured == age < AgeCap

Turn(p) ==
  CASE p = "timers" -> 3 [] p = "check" -> 2 [] p = "patch" -> 1 [] OTHER -> 0

(* Every step of the loop ends the test or comes closer to its timeout: the*)
(* cycles left, the way to the next instruction and the patches still to be*)
(* called decrease in this order.  No test of steady firmware outlives its *)
(* timeout by running the loop without counting cycles.                    *)
Headway ==
  [][ \/ inputs_executed' = (inputs_executed + 1) % CounterMod
      \/ phase' = "exited"
      \/ budget' < budget
      \/ budget' = budget /\ Turn(phase') < Turn(phase)
      \/ budget' = budget /\ phase' = phase /\ Len(todo') < Len(todo) ]_vars

(* The fuzzer never stops starting new tests.                              *)
TestsAdvance == run_once \/ \A n \in 0 .. CounterMod - 1 : []<>(inputs_executed = n)
=============================================================================
