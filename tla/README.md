# A verification development for EmulatedFirmwareFuzzing

EmulatedFirmwareFuzzing runs AVR firmware in a patched simavr and fuzzes it: the
emulator executes the firmware with one test input after another, watches it
with sanitizers (smashed stacks, uninitialized values, invalid writes, bad
jumps, timeouts), keeps the inputs that reach something new, and reports edges,
crashes and statistics over TCP to a Python server. This directory holds TLA+
models of the emulator's control logic and of its connection to the server, the
TLC runs that check them on small instances, and TLAPS proofs for all instances.
Paths below are relative to `src/simavr/simavr/sim/` unless they start with
`src/`.

## 1. Inventory

| Part | State it keeps | Operations | Model |
|---|---|---|---|
| Run loop: `sim_avr.c`, `run_avr.c`, frame of `avr_run_one` in `sim_core.c` | `state`, `pc`, `cycle`, `next_reset`, `do_reset`, `run_once` | `avr_run`, `avr_callback_run_raw`, `avr_run_one`, `avr_reset` | `FuzzLoop` |
| Fuzzer: `fuzz_fuzzer.c` | `current_input`, `previous_interesting_inputs` | `generate_input`, `evaluate_input` | `FuzzLoop` |
| Coverage: `fuzz_coverage.c` | `coverage`, `input_has_reached_new_coverage` | `edge_triggered` | `FuzzLoop` |
| Crash handler: `fuzz_crash_handler.c` | `unique_crashes` | `*_found`, `crash_found` | `FuzzLoop` |
| Patches: `fuzz_patch_instructions.c` | `patched_instructions`, `SUT_state`, `run_return_instruction` | `check_run_patch`, `fuzz_reset`, `add_state`, API for patches | `FuzzLoop`, `Shadow` |
| Interrupt controller: `sim_interrupts.c`, `fifo_declare.h` | `interrupt_state`, `sreg[S_I]`, fifo, nesting stack, enable/raised/pending bits | raise, clear, service, RETI, reset | `Interrupts` |
| Cycle timers: `sim_cycle_timers.c` | slot pool: active and free list | register, cancel, process, reset | `CycleTimers` |
| Stack sanitizer: macros and `avr_core_watch_write` in `sim_core.c` | `stack_frame[]`, its index, the off switch | call, return, interrupt, PUSH, POP, write check | `StackSanitizer` |
| Uninitialized-value sanitizer: `sim_core.c` | `shadow`, `stackframe_min_sp` | data flow of each opcode, clearing on return and reset, reports | `Shadow` |
| Watchdog: `avr_watchdog.c` | WDE, WDIE, WDP, WDCE, WDRF, period, saved `avr->run` | write, WDR, timer, interrupt, reset | `Watchdog` |
| Serial port: `avr_uart.c` | enable bits, flags, input fifo, `tx_cnt`, XOFF irq | register reads and writes, two timers, input irq, XON/XOFF | `Uart` |
| Sender: `fuzz_server_notify.c` | `connection_established`, position in the message | `send_target_info`, `send_coverage`, `send_crash`, `send_fuzzer_stats`, `send_raw` | `ServerLink` |
| Server: `src/server/sl/*` | socket, queue, `recv_buffer`, statistics, `new_coverage`, plot data | receive, parse, handlers, UI thread, shutdown | `ServerLink`, `Reports` |
| Other peripherals, ELF, gdb, VCD, libFuzzer | hardware registers, files | | environment or out of scope |

How they interact. `main` calls `avr_run` until the core is done. Each call runs
at most one instruction (`avr_run_one`: bad jump check, timeout check, patches,
instruction, `do_reset` branch), then the cycle timers, then sleep, then
interrupts. Instructions call `edge_triggered` and the `*_found` functions;
patches call `fuzz_reset`, `add_state` or raise an interrupt; timers raise
interrupts; every reset goes through `avr_reset`. The watchdog and the serial
port live in register hooks and timer callbacks; the serial port also calls the
program at its other end, which may call back at once. All of this is one
thread. The hard part is the order in which these calls change shared state in
the middle of an instruction: four paths reset the core, only some of which end
the test; a reset may happen in the middle of a list of patches; reports may be
made from an interrupt entry; callbacks register the timers that are being
processed.

The server is concurrent: a receiver process and a parser process, joined by a
queue, and a UI thread in the parser process, which shares a flag and the plot
data with the handlers without a lock. The emulator sends from within an
instruction and blocks while the socket buffers are full. Messages are framed
by a size that both sides compute for themselves; `send` and `recv` cut them
anywhere; either side may end at any time.

What makes each part correct: nothing a test discovers is lost and nothing is
kept without reason; a crash is filed once and under the input that caused it;
every test gets its whole timeout and not more; `--run_once_with` runs once; no
interrupt is forgotten, reordered against its priority, or taken too early; no
timer is lost, late or unsorted; a watchdog that is on bites; input and output
of the serial port are always announced, and flow control is honest; sanitizers
report all and only what they are for; the server gets every message once and in
order and shows it, and never holds the emulator up.

The hazards these properties answer are listed one by one in `PROJECT.json`.

## 2. Modules

| Module | Contents |
|---|---|
| `Campaign` | abstract: one test after the other, what is found and kept |
| `FuzzLoop` | run loop, resets, patches, campaign state; implements `Campaign` |
| `Requests` | abstract: a set of interrupt requests, served by priority |
| `Interrupts` | interrupt controller and the core actions on it; implements `Requests` |
| `Alarms` | abstract: a set of alarms, called in order and on time |
| `CycleTimers` | cycle timers and their processing; implements `Alarms` |
| `Watchdog`, `Uart` | two peripherals, each composed with `CycleTimers` (EXTENDS) |
| `StackSanitizer` | shadow frames and the overwrite check |
| `Shadow` | the shadow map of defined bytes |
| `MessageLog` | abstract: what emulator and server promise each other |
| `Reports` | the parser's handlers and the UI thread |
| `ServerLink` | sender, socket, receiver, queue and parser, composed with `Reports`; implements `MessageLog` |
| `MCFuzzLoop`, `MCInterrupts`, `MCCycleTimers`, `MCShadow` | instances for TLC |
| `*_proofs` | theorems about the module of that name |

Definitions commented "Fault:" are faulty variants of the
operator that follows them. Nothing uses them; substituting one for its
original shows that a property notices the fault.

The abstract modules say what a component promises without saying how: none of
them has a phase, a list, a fifo or cached state. Each refinement is an
`INSTANCE ... WITH` in the detailed module (`Tests`, `Promise`, `Log`) and a
property that is the instance's `Spec`; a run checks it and a theorem proves it.

**FuzzLoop.** `phase` is the program counter of the emulator: `check` (top of
`avr_run_one`), `patch` (inside `check_run_patch` and before the instruction),
`reset` (the `do_reset` branch), `timers` (rest of `avr_callback_run_raw`),
`watchdog` (`avr->run` replaced by the watchdog). The firmware is the
environment: `Code[i, l]` is the set of outcomes the instruction at location `l`
may have while input `i` is tested (next pc, whether it is an edge, what it
reports, whether it sleeps, its cycles). So one model covers every firmware.
`cycle` and `next_reset` occur in the loop in one comparison only and are kept
as their difference, `budget`. Inputs are opaque and the mutator is any relation
`Mutate`. `coverage` maps an edge to the input that found it, which the code
does not record but which the property needs; `age`, `improved` and `restarted`
(`avr_reset` has started the core although `run_once` was set) are history
variables. A `CrashKey` is hashed with its padding bytes, which nothing sets:
`Paddings` is the set of what they may hold.

`Campaign` is what all this looks like to the one who starts it: an input and a
mark, a corpus, what was found with its first input, and three actions, `Observe`
(the test goes on and may show something), `NextTest` and `Stop`. `Tests` maps the
variables of the loop to these; the phase, the patches, the cycles and the core
are hidden. So an instruction, a `do_reset`, a watchdog reset and an interrupt
entry are each an `Observe` or nothing, and a wild jump, a timeout or a patch
that calls `fuzz_reset` is one `NextTest`, in which the crash is still credited
to the old input and the old input still joins the corpus.

`SteadyFirmware` (no sleep with interrupts on, no non-recoverable crash, no
watchdog) is the class of firmware whose tests only `fuzz_reset` ends. For it
`TimeoutHonoured` holds, and, if no patch skips its instruction
(`NothingSkipped`), `Headway`: the cycles left, the way to the next instruction
and the list of patches are a measure that every step within a test decreases.
Firmware outside the class can go on for ever in one test, see `FuzzReplay`.

**Interrupts.** `phase` is the position in `avr_callback_run_raw`. The fifo is a
sequence of at most `FifoSize - 1` vectors. The dequeue statement of
`avr_service_interrupts` modifies the cursor on its right-hand side and uses it
on its left-hand side; `EvalOrders` says which of the two orders a compiler may
pick. `overflowed` (a write was ignored) and `waited` (instructions since
interrupts were enabled) are history. Peripherals may raise any vector at any
time an instruction, a patch or a timer runs.

In `Requests` there is a set of requests, and `on` and `fresh` stand for SREG and
the wait after SEI; `fresh` is mapped from the history variable `waited`, not
from `interrupt_state`, so that the refinement says that the cached state is
right. Once the fifo has overflowed (`lossy`) a request may be passed over.

**CycleTimers.** Times are relative to `avr->cycle`, so that the state space is
finite. The list is a sequence of slots; the free list is its length, as free
slots are interchangeable. `firing` is the slot that `avr_cycle_timer_process`
has detached while the callback runs; callbacks may register and cancel any
timer and answer with any later time, or 0. `wanted` and `crowded` are history.
A timer may be asked for 0 cycles ahead, and up to `Haste` cycles too late:
`avr_timer_tov` (`avr_timer.c:310`) is called late and registers compare matches
relative to the overflow it is called for, so that one may be due at once, and
rounding the external clock, or `avr_timer_configure` without a reset
(`avr_timer.c:523`), may make the difference negative. Such a registration is
inserted at the head of the list that is being processed and prolongs the loop.
Two assumptions about peripherals are built in. What a callback registers lies
after the time the callback is for (`Timely`): in `avr_timer_tov` that is the
overflow plus `comp_cycles`, which is positive. (The exception is a compare match
one cycle after an overflow that the external clock has rounded down by one.)
And none both registers its own timer and returns a time.

`Alarms` has the alarms that are set and the one that is ringing, and says
whether the core is `working` or the alarms are being called. Time passes (`Work`,
`Doze`) while it works; it goes on (`Settle`) only when none is due, and `Ring`
takes the earliest; whether a slot is free is a question of cardinality. The
mapping takes the list to the set of its slots (`SlotsOf`). `NeverLate` bounds how
late a callback can be (`Lateness`), and `Backlog(w)` is who is to be called for
a time up to `w`. `BacklogShrinks` says why the loop ends although callbacks
prolong it: none adds to the calls due by its own time or before, and each takes
one of those off, so that from the earliest time on the calls are done for good,
time after time, until the present is reached.

**Watchdog.** The bits of WDTCSR are variables, `runner` is `avr->run`, and the
three timers (`watchdog`, `wdce_clear`, one of another peripheral) are those of
`CycleTimers`, whose actions are conjuncts here: a register write registers or
cancels, a callback answers with a time through `Expire`, `CatchUp` or
`Reschedule`. The firmware acts at most once per instruction (`acted`). `age` is
history: the cycles since the change window was opened. Two details of the code
show in `SetTimer`: `old_wdp` is read after the register was written, so that a
change of the prescaler alone never restarts the timer, and only a change of
`Enabled` registers or cancels it.

**Uart.** The number of bytes is kept, not the bytes. The program at the other
end obeys the pseudo code in `avr_uart.h`: it sends whenever it is not stopped,
also from within the XON call, which the emulator makes in the middle of a read
of UDR. So `Emptied` is one action: the pump is cancelled, XOFF and XON are
raised, and a burst of any length re-registers the pump, and may fill the fifo
and raise XOFF again, before the read returns. The XOFF irq is filtered: it
calls listeners only when its value changes. Whether the firmware reads "too
fast" is open.

**StackSanitizer.** `phase` is the part of `avr_run_one` that matters here: an
instruction, the `do_reset` check after it, and the interrupt service between
two calls. `frames` is `stack_frame[]`, `sp` the stack pointer, `disabled` the
switch that POP turns. What memory contains is left out: `live` is a history
variable with the return addresses the firmware is still going to use, and says
which bytes of each it has popped and whether a RETI was executed above it, which
takes a frame that is not its own (`exposed`). Three more histories are on what
was overwritten: `hit` (while the check was on), `smashed` (whether or not it
was on, but only addresses of calls that are not exposed, and only while no
function has popped of its own) and `took`, which records the latter from the
POP to the next RET or RETI. So `SmashCaught` sees an overwrite that the check
misses because it is off when it should be on. The firmware is the environment
and follows the discipline of compiled code: it returns only to the address
pushed last, with nothing else left in its frame; it takes only its own return
address off the stack, and while it has done so it calls nothing. Its stores
and pushes are arbitrary. (A function that popped its return address *and*
called another before putting it back would be reported wrongly: the RET of the
other one switches the check on.)

**Shadow.** `shadow` is the set of RAM bytes marked as defined, `regs` the set
of registers that are, with SREG as one of them; both are parts of one array in
the code, and SP, which is marked at every instruction, is left out. An opcode is reduced to its flow: `AllFlows` has
a pair of results and deciding operands for each, and the opcodes that do
something else have actions of their own: AND and OR (one operand is enough),
SBC of equal values, MOV, MOVW, BLD, loads, stores, SBI/CBI, PUSH, POP, calls,
RET/RETI, branches and CPSE, interrupt entry, and what patches do.
`stackframe_min_sp` is updated at the start of an instruction (`Lowest`), that
is, after the timeout check and the patches, both of which may call
`fuzz_reset`. The history variables say what the marks ought to be: `value` is
the set of bytes the firmware has put something into (in a function that is
still open and in this test), `regValue` the same of registers, `careless`
whether the firmware ever read another byte, and `leaked` the bytes that the
code knowingly or not leaves marked (below). `Data` stands for the I/O
registers and `.data`; `.bss` and stack start undefined.

Some things the model shows of this sanitizer, as the code has it:
`fuzz_reset` clears from `stackframe_min_sp` upwards, but bytes pushed by the
very last instruction, by an interrupt entered after it, or written by a patch
may lie below and stay defined in the next test (although
`fuzz_patch_instructions.h:119` says that the stack of the shadow map is reset);
`run_return_instruction`, the `do_reset` branch and the watchdog clear nothing;
LD with X and with pre- or post-modified Z ignores the mark of the byte loaded;
BLD looks up the mark at the address its *value* happens to be; marks of
registers survive every reset, so that `careless` counts from the start of the
emulator; `set_shadow_map` ignores its `value`.

**MessageLog, Reports, ServerLink.** `MessageLog` has three variables: the
messages sent, the messages taken in (`filed`), and the first message torn by a
refused send. `ServerLink` frames them: the stream is a sequence of fields
`<<k, j>>`, field `j` of the message `k`, and runs through `wire` (socket
buffers), `client_packages` (the queue) and `recv_buffer`. `DeclaredSize` is
what the sender announces and the parser waits for, `BodySize` what it sends:
two computations in the code, two here. Out of step a header may announce any
size and a body may look like any message or fail an assertion. The
refinement is `Log == INSTANCE MessageLog WITH ...`, with `sent`, `filed` and
`torn` as its variables, and `LogRefined == Log!Spec`. `Reports` gives each
statement that touches shared state of the UI thread and of `on_new_edge` an
action of its own (`FlagEdge`, `TimeEdge`, `AppendEdge` against `TestFlag`,
`ClearFlag`, `GcovrReads`, `GcovrEnds`, `GcovrFails`, `PlotCoverage`); an
exception kills the main thread of the parser but not the UI thread. The status
of gcovr is ignored after the flag was cleared, so a gcovr that fails leaves what
it has read (`unshown`) for the next one, which waits for another edge. A second
greeting, which only a parser out of step can read, moves the gcov files and the
pages away before it raises (`GreetAgain`, `moved`). `EdgesRendered` exempts these
two. Faults of the environment:
a send refused in mid-message, an emulator that exits in mid-message, a server
stopped from the terminal, a handler that fails, a connection that is closed
with messages unread.

## 3. Runs

| Run | Checks | Result |
|---|---|---|
| `FuzzCampaign` | `WellFormed`, `DiscoveriesKept`, `CorpusEarned`, `CampaignKept` | hold, 2.8 million states |
| `FuzzCrashes` | `NoEarlyTimeout`, `RunOnceFaithful`, `CrashLedger` | hold, 1.5 million states |
| `FuzzTimeout` | `TimeoutHonoured`, `Headway`, `TestsAdvance` | hold for steady firmware, 202 thousand states |
| `FuzzReplay` | `TestsAdvance` | violated |
| `FuzzPadding` | `CrashFiledOnce` | violated |
| `Irq` | `TableSound`, `LossOnlyByOverflow`, `NoLostWakeup`, `RequestsKept`, `TopServed` | hold, 80 thousand states |
| `Timers` | `PoolIntact`, `Scheduled`, `AlarmsKept`, `BacklogShrinks`, `ProcessEnds` | hold, 42 thousand states |
| `Watchdog` | `WatchdogTypeOK`, `WatchArmed`, `WindowRespected`, `WatchdogBites` | hold, 132 thousand states |
| `Uart` | `UartTypeOK`, `PumpsRun`, `ReceiverHonest` | hold, 867 thousand states |
| `Stack` | `TypeOK`, `FramesGuardCalls`, `AlarmsReal`, `SmashCaught` | hold, 372 thousand states |
| `Shadow` | `TypeOK`, `ReportsEarned`, `TrustEarned` | hold, 476 thousand states up to symmetry |
| `Server` | `TypeOK`, `DeathExplained`, `PlotSafe`, `LogRefined`, `EdgesRendered`, `SenderFreed` | hold, 530 thousand states |

What the violated ones say of the code:

- `FuzzReplay`: the `do_reset` branch (`sim_core.c:1820`) restarts the *same*
  input with a fresh deadline. A deterministic invalid write stops the campaign.
- `FuzzPadding`: the key hash covers uninitialized padding, so the same crash
  may be filed, sent and counted again.

Other things the models contain because the code does them, and which the
properties above have to make room for:

- The timeout is compared only in `avr_run_one` (`sim_core.c:630`), which a
  sleeping core does not enter: `TimeoutHonoured` is checked for firmware that
  does not sleep.
- `check_run_patch` looks patches up once (`fuzz_patch_instructions.c:102`);
  after a `fuzz_reset` among them the instruction at the reset vector runs
  unpatched.
- `avr_clear_interrupt` leaves the fifo entry behind and a full fifo ignores
  writes (`sim_interrupts.c:122`), so that a vector may be pending without being
  queued and is then not served: hence `overflowed` in `LossOnlyByOverflow`,
  `NoLostWakeup` and `TopServed`, and `lossy` in `Requests`.
- Interrupt entry pushes no shadow frame but RETI pops one (`sim_core.c:1194`),
  so that after the first interrupt inside a function its return address is no
  longer guarded: hence `exposed` in `FramesGuardCalls` and `SmashCaught`. (A
  handler that calls a function pushes and pops that function's frame as usual.)
- POP of a byte of a return address switches the check off for *every* frame
  until the next RET, RETI or reset (`sim_core.c:1432`): a function that has
  done so may overwrite the address of its caller unnoticed. Hence `took` in
  `SmashCaught`, which says that nothing else opens this gap.
- A gcovr that fails is not noticed, and its edges are not shown before another
  one is found (`src/server/sl/update_ui.py:39`): hence `unshown` in
  `EdgesRendered`.
- The receiver's `exit` joins the feeder of its queue
  (`src/server/sl/socket_buffer_queue.py:19`): with more unread data than the
  pipe holds, `ReceiverExits` is never enabled and the server process stays.

Bounds. `FuzzLoop`: two inputs (one that finds something and one that replaces
it), three locations (reset vector, loop body, handler), all crash ids, two
state values, a timeout of 3 with instructions of 1 or 2 cycles, so that the
deadline is hit exactly and overshot, patches of every kind and more than one at
a location (`FuzzTimeout` leaves out those that skip an instruction), `inputs_executed` modulo 2, two values of
padding. Tests follow each other without bound, since nothing in the state
counts them. The corpus needs no bound: it grows only with coverage and state
values, which is what `CorpusEarned` says. `Interrupts`: two vectors give all
priority pairs, fifo and nesting stack are small enough to overflow.
`CycleTimers`: four timers for three slots; delays -1, 0, 1, 3 against
instructions of 1 to 3 cycles and a default sleep of 3 give registrations that
are overdue, due at once and ahead, and timers that are served on time and late.
`Watchdog`: two prescalers, a period (5) longer than the change window (4, as in
the code), and a slot for each timer. `Uart`: a fifo of three bytes, so that it
may be empty, partly filled and full, `tx_cnt` modulo 4, so that it wraps, two
baud rates. `StackSanitizer`: ten bytes of RAM and addresses of two bytes hold
four nested return addresses and locals between fewer; `StackFrameSize` never
cuts a call off before the RAM does. `Shadow`: two registers and SREG tell
apart the operands of every flow; five bytes of stack hold two return addresses,
or one and pushed registers; one variable. `Server`: three messages (the
greeting and two others of any kind) of one field of input and no extra frame, a
socket buffer of one field and packages of two, so that every message is cut at
every place, a counter modulo 2, so that it wraps, and sizes out of step that
are shorter and longer than what follows (1 and 9).

Deadlock is checked except where the program ends by itself:
`--run_once_with` exits (`FuzzCrashes`), sleeping with interrupts off quits
(`FuzzCrashes`, `Irq`), and the emulator exits and the server is stopped
(`Server`).

Fairness. The emulator is one thread which `main` calls in an endless loop, so
some step of the loop is always taken: `WF_vars(Next)` in `FuzzLoop` and
`Interrupts`, `WF_watchdogVars(WatchdogNext)` in `Watchdog`. `CycleTimers`
assumes `WF_vars(Process)` only: the processing loop goes on and its callbacks
return. `ServerLink` assumes that the kernel delivers (`Transmit` or
`ConnectionLost`, `Receive`) and that the threads of the parser process are
scheduled (`OnNewEdge`, `Run`); not that the parser is given anything, nor that
anybody ends. (Each of the four is stated with a subscript of a few variables that
the action always changes, which comes to the same and is cheaper to check.) `StackSanitizer`, `Shadow` and `Uart` have safety properties only.
Nothing is assumed about which instruction runs or which interrupt is raised.
(`TopServed` therefore holds without help from the environment: between two
services at most one instruction runs, and an SEI while interrupts are on does
not restart the latency.)

## 4. Proofs

TLAPS proves the following for every value of the constants that satisfies the
assumptions in the modules (sets of inputs and firmware of any kind, any
timeout, any fifo size, any number of timers and slots, any message and buffer
size, any size of the stack). The assumptions are named in the modules that
declare the constants, and TLC evaluates them in the runs. One of them,
`PowerAssumption` in `Watchdog`, is a fact of arithmetic (powers of two are
positive), stated because the provers have no theory of `^`.

- `FuzzLoop_proofs`: `TypeCorrect` (`WellFormed`: types and the bad jump check,
  which need each other, as the patch phase indexes `Code` by `pc`),
  `FetchInside`, `DeadlineFair`, `RunOnceIsOnce`, `NoDiscoveryLost`,
  `LedgerKept`, `CorpusBounded`. The properties are inductive relative to
  `WellFormed`; `CorpusBounded` adds a lemma on the cardinality of the coverage
  set.
- `TimeoutKept` and `HeadwayMade`, in the same module, assume of the firmware
  what `FuzzTimeout` does (`SteadyFirmware`, `NothingSkipped`), and nothing else.
  `TimeoutHonoured` is not inductive: `SteadyInv` adds that the cycles left and
  the cycles used make up the timeout exactly until it has passed, that an
  instruction is begun only before, and that nothing but `fuzz_reset`
  re-arms the deadline (`do_reset` stays off, the core does not sleep).
  `LoopKeepsCampaign` is the refinement, for any firmware. Each path of the loop
  is a lemma: `FuzzReset` is a `NextTest` or, with `run_once`, a `Stop`; the rest
  is an `Observe`. It is inductive relative to `TypeOK`.
- `Interrupts_proofs`: `TableKept` (`TypeCorrect` and `NeverForgotten`),
  `LossNeedsOverflow`, `WakeupNeverLost`, `PriorityKept`, `LatencyKept`,
  `FifoKeepsRequests`. `LossNeedsOverflow` and what rests on it
  (`WakeupNeverLost`, `PriorityKept`, `FifoKeepsRequests`) assume
  `EvalOrders = {"index_first"}`, the order gcc emits; with the other order a
  pending vector may vanish. `LatencyKept` needs the strengthening `LatencyInv`,
  which ties `interrupt_state` to `waited`. The refinement `FifoKeepsRequests`
  puts these together: that the vector found by the scan is the first of all
  requests takes `PendingQueued`, that it is not `fresh` takes `LatencyInv`, and
  that the core is awake when it is served takes `SleepInv` (with interrupts on
  it sleeps only on an empty fifo).
- `CycleTimers_proofs`: `PoolSound`, `NothingForgotten`, `TimersOnTime`,
  `ListKeepsAlarms`, `NeverCalledLate`, `ProcessingShrinks`. The
  inductive invariant is `IInv`: types, slot conservation, soundness of the
  list, `Scheduled`, and the fact that a firing timer is held by one slot
  during its callback. Lost timers are excluded by counting: a timer that is
  wanted and in no slot means that all slots hold other wanted timers. `PoolInv`
  repackages it as lemmas per operation, for the peripherals to use.
  `ListKeepsAlarms`, the refinement, adds that a timer fires only when it is due
  and that nothing is due when the core goes on (`DueInv`), and rests on lemmas
  that say what inserting, removing and ageing do to the *set* of slots
  (`SlotsOf`), and that the list is as long as that set is large.
  `NeverCalledLate` is proved of `Alarms` and carried over. `ProcessingShrinks`
  is the safety core of `ProcessEnds`, for every way callbacks answer, register
  and cancel, at once and too late included. That the loop ends follows by
  induction over time, which is not proved: no call due by the earliest time of a
  backlog is ever added, and each call takes one off, so these are done after
  at most one call for each timer, and then those due a cycle later. (A callback
  that is called again for the same time would be a step that changes nothing;
  `ProcessEnds` would notice.)
- `Watchdog_proofs`: `WatchdogTyped`, `WatchNeverDropped`, `WindowHeld`, from
  `WatchdogInv`: the pool invariant, `Armed` (as long as the watchdog is
  enabled its timer is wanted, and its period is not 0), `Closing` (while WDCE is
  set its timer is scheduled, no later than the window ends) and `Ahead`.
- `Uart_proofs`: `PortTyped`, `PumpsKeepRunning`, `ReceiverKeepsPromise`, from
  `UartInv`: the pool invariant, the pumps that have to be wanted, and `Told`: a
  full fifo means that the other end was stopped, and so does a raised XOFF irq,
  which would filter another XOFF.
- `StackSanitizer_proofs`: `StackTyped`, `FramesRecordCalls`, `NoFalseAlarm`,
  `SmashReported`, from `StackInv`: the return addresses in use are stacked
  without overlap and lie above SP (`Stacked`, `Below`), frames belong to calls,
  and calls that are not exposed, which are the outermost, have theirs
  (`Matched`), the check is off only after a function has popped of its own
  address, and reports, hits and smashes imply each other as far as the properties
  need (`Alarms`).
- `Shadow_proofs`: `ShadowTyped`, `NoFalseReport`, `NoFalseTrust`, from
  `ShadowInv`. What RET and `fuzz_reset` clear is decided by
  `stackframe_min_sp`, so the invariant has to say where the bytes are that hold
  something (`Placed`): not below it, unless the last instruction, an interrupt
  or a patch has put them there since. `Clean` says that without a careless read
  everything that holds something is marked.
- `ServerLink_proofs`: `InStepAlways` (the inductive invariant `LinkInv`: the
  fields in wire, queue and buffer together are a consecutive piece of the
  stream that begins where the parser is, unless a message was torn),
  `DeliversTheLog` (the refinement), `NothingLostOrSwapped` (the safety property
  of the log, carried over), `LinkTyped`, `PlotNeverBaseless` (`PlotInv`: the
  time base is set before the plot grows) and `DeathHasACause` (`DeathInv`: the
  greeting comes first and once, and counters do not decrease in the stream
  unless they have wrapped).

Only model-checked: the liveness properties (`TestsAdvance`, `TopServed`,
`ProcessEnds`, `WatchdogBites`, `EdgesRendered`, `SenderFreed`). Fairness and
ENABLED are beyond the prover. What can be proved of two of them without
fairness is: `Headway` is the measure behind `TestsAdvance`, `BacklogShrinks` the
one behind `ProcessEnds`. Every invariant and every action property that a
passing run checks is also a theorem.

## 5. Not modelled

- The values instructions compute: firmware is an environment. So is the
  mutator, which wraps third-party code.
- The origins (`shadow_propagation`) that label reports of uninitialized values.
- Peripherals other than the watchdog and the serial port; of the latter LIN
  mode, framing errors and the line buffer of its STDIO flag.
- Statistics, HTML pages and file contents of the server; duplicates it
  recognises by file name; reconnecting, which neither side does.
- Calls nested deeper than `STACK_FRAME_SIZE` (the code writes past the array),
  allocation failure, the gdb build of the run loop, ELF and hex loading, VCD
  traces, set-up code.
- The headers under `cores/avr`, which are register tables of the vendors and
  make up most of the repository's lines: there is no behaviour in them.

## 6. Plan

Done: all modules of section 2, with their runs and proofs. What remains worth doing:

1. The same for `Watchdog` and `TopServed`: a measure that every period, and
   every call of the service routine, decreases, proved of the detailed module.
2. An abstract watchdog and an abstract serial port, which `Watchdog` and `Uart`
   implement by way of `Alarms`.
3. `Watchdog` and `Uart` composed with `Interrupts` instead of a single pending
   bit each.
4. `avr_timer.c` over `CycleTimers`: compare and overflow timers with a change
   of prescaler between them.
5. One composition of `FuzzLoop` with `StackSanitizer` and `Shadow`, in which
   resets come from the loop instead of at any time.
