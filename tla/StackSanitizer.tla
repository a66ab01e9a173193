--------------------------- MODULE StackSanitizer ---------------------------
(***************************************************************************)
(* The stack sanitizer: the shadow frames of STACK_FRAME_PUSH and          *)
(* STACK_FRAME_POP in sim_core.c, the check of avr_core_watch_write, and   *)
(* the switch that POP turns off.                                          *)
(*                                                                         *)
(* The firmware is the environment.  It keeps the discipline of compiled   *)
(* code: it returns to the address that was pushed last, it takes only its *)
(* own return address off the stack, and it calls nothing until it has put *)
(* it back.  Its stores may hit any cell: that is the fault the sanitizer  *)
(* is there to find.  What the cells contain is left out; live says which  *)
(* of them hold return addresses.                                          *)
(***************************************************************************)
EXTENDS Integers, Sequences

CONSTANTS
  RamEnd,          \* avr->ramend; the stack grows down from there
  AddressSize,     \* avr->address_size, 2 or 3 in the code
  MaxLocals,       \* bytes by which one instruction moves SP for locals
  StackFrameSize,  \* STACK_FRAME_SIZE, 128; bound on the depth of calls
  Interrupts,      \* interrupts may be taken
  Pops             \* functions may take their return address off the stack

ASSUME StackAssumption ==
  /\ RamEnd \in Nat /\ AddressSize \in Nat \ {0}
  /\ MaxLocals \in Nat /\ StackFrameSize \in Nat
  /\ Interrupts \in BOOLEAN /\ Pops \in BOOLEAN

VARIABLES
  phase,     \* "run", "check" of do_reset, "between" two instructions
  sp,        \* the stack pointer: the highest free cell
  frames,    \* stack_frame[0 .. stack_frame_index - 1].sp, innermost last
  disabled,  \* avr->disable_buffer_overflow_sanitizer
  do_reset,  \* avr->do_reset, set by stack_buffer_overflow_found
  live,      \* history: return addresses the firmware will use, innermost last
  took,      \* history: some of one was popped since the last RET or RETI
  hit,       \* history: one was overwritten while the check was on
  smashed    \* history: that of an unexposed call was, while none was taken

history == <<took, hit, smashed>>
vars == <<phase, sp, frames, disabled, do_reset, live, history>>

Kinds == {"call", "irq"}

\* A return address at sp + 1 .., of which taken bytes were popped.  It is
\* exposed when a RETI was executed above it: RETI takes a frame.
Addresses ==
  [sp : Int, kind : Kinds, taken : 0 .. AddressSize, exposed : BOOLEAN]

Address(a, kind) == [sp |-> a, kind |-> kind, taken |-> 0, exposed |-> FALSE]

Entries(q) == {q[k] : k \in 1 .. Len(q)}
Last(q) == q[Len(q)]
Front(q) == SubSeq(q, 1, Len(q) - 1)
Exposed(q) == [k \in 1 .. Len(q) |-> [q[k] EXCEPT !.exposed = TRUE]]

TypeOK ==
  /\ phase \in {"run", "check", "between"}
  /\ sp \in 0 .. RamEnd
  /\ frames \in Seq(0 .. RamEnd) /\ live \in Seq(Addresses)
  /\ disabled \in BOOLEAN /\ do_reset \in BOOLEAN
  /\ took \in BOOLEAN /\ hit \in BOOLEAN /\ smashed \in BOOLEAN

-----------------------------------------------------------------------------
Cells(e) == e.sp + 1 + e.taken .. e.sp + AddressSize

(* Where the calls return to above which no handler has returned.          *)
Guarded == {e \in Entries(live) : e.kind = "call" /\ ~e.exposed}

(* .sp points to one below where the return address is stored.             *)
FrameCells(f) == f + 1 .. f + AddressSize

(* avr_core_watch_write for each of the addresses in set.                  *)
Written(set) ==
  /\ do_reset' = \/ do_reset
                  \/ /\ ~disabled
                     /\ \E f \in Entries(frames) : FrameCells(f) \cap set # {}
  /\ hit' = \/ hit
             \/ /\ ~disabled
                /\ \E e \in Entries(live) : Cells(e) \cap set # {}
  /\ smashed' = \/ smashed
                 \/ /\ ~took
                    /\ \E e \in Guarded : Cells(e) \cap set # {}
  /\ UNCHANGED took

\* Fault: the frame is left there.
StackFramePopNone == frames

(* STACK_FRAME_POP.                                                        *)
StackFramePop == IF frames = << >> THEN frames ELSE Front(frames)

(* _avr_push_addr, for a return address or for room on the stack.          *)
PushAddr ==
  /\ sp >= AddressSize
  /\ sp' = sp - AddressSize
  /\ Written(sp - AddressSize + 1 .. sp)

InFunction == live # << >> /\ Last(live).kind = "call"
Untaken == live # << >> => Last(live).taken = 0

\* Nothing but the return address is left on the stack of the function.
AtReturn == live # << >> /\ Last(live).taken = 0 /\ sp = Last(live).sp

Instruction == phase = "run" /\ phase' = "check"

-----------------------------------------------------------------------------
(* CALL, ICALL, EICALL, and RCALL with an offset.                          *)
Call ==
  /\ Instruction /\ Untaken /\ Len(frames) < StackFrameSize
  /\ PushAddr
  /\ frames' = Append(frames, sp')
  /\ live' = Append(live, Address(sp', "call"))
  /\ UNCHANGED disabled

(* "rcall .0 is used as a cheap push of room on the stack": no frame.      *)
MakeRoom ==
  /\ Instruction /\ Untaken
  /\ PushAddr
  /\ UNCHANGED <<frames, disabled, live>>

(* What RET and RETI have in common.                                       *)
Return ==
  /\ Instruction /\ AtReturn
  /\ sp' = sp + AddressSize
  /\ disabled' = FALSE
  /\ frames' = StackFramePop
  /\ took' = FALSE
  /\ UNCHANGED <<do_reset, hit, smashed>>

Ret ==
  /\ Return /\ InFunction
  /\ live' = Front(live)

(* It pops a frame although the interrupt has pushed none.                 *)
Reti ==
  /\ Return /\ ~InFunction
  /\ live' = Exposed(Front(live))

(* PUSH: of a register, or of the return address that was taken off.       *)
Push ==
  /\ Instruction /\ sp > 0
  /\ Written({sp})
  /\ sp' = sp - 1
  /\ live' = IF Untaken THEN live ELSE [live EXCEPT ![Len(live)].taken = @ - 1]
  /\ UNCHANGED <<frames, disabled>>

\* Fault: popping the return address leaves the check on.
SwitchOffNever(cell) == FALSE

\* Fault: the cell of .sp itself is taken for the lowest of the address.
SwitchOffEarly(cell) ==
  frames # << >> /\ cell \in Last(frames) .. Last(frames) + AddressSize

(* The cell popped belongs to the address of the innermost frame, or is    *)
(* the one above it.                                                       *)
SwitchOff(cell) ==
  frames # << >> /\ cell \in Last(frames) + 1 .. Last(frames) + 1 + AddressSize

\* All data of the innermost function or handler are off the stack.
Taking == live # << >> /\ sp >= Last(live).sp

(* The function may pop the data on its stack, and then, if Pops, the      *)
(* bytes of its return address.                                            *)
Pop ==
  /\ Instruction /\ sp < RamEnd
  /\ Taking => Pops /\ InFunction /\ Last(live).taken < AddressSize
  /\ sp' = sp + 1
  /\ disabled' = (disabled \/ SwitchOff(sp'))
  /\ live' = IF Taking THEN [live EXCEPT ![Len(live)].taken = @ + 1] ELSE live
  /\ took' = (took \/ Taking)
  /\ UNCHANGED <<frames, do_reset, hit, smashed>>

(* The firmware sets SP: room for local variables, or its release.         *)
MoveSP(n) ==
  /\ Instruction /\ Untaken
  /\ sp + n \in 0 .. RamEnd
  /\ (n > 0 /\ live # << >>) => sp + n <= Last(live).sp
  /\ sp' = sp + n
  /\ UNCHANGED <<frames, disabled, do_reset, live, history>>

(* _avr_set_ram past the I/O registers.                                    *)
Store(addr) ==
  /\ Instruction
  /\ Written({addr})
  /\ UNCHANGED <<sp, frames, disabled, live>>

(* A patch at the start of a function has set run_return_instruction.      *)
(* avr_run_one returns at once, without a look at do_reset.                *)
RunReturn ==
  /\ phase = "run" /\ phase' = "between"
  /\ AtReturn /\ InFunction
  /\ sp' = sp + AddressSize
  /\ frames' = StackFramePop
  /\ live' = Front(live)
  /\ UNCHANGED <<disabled, do_reset, history>>

-----------------------------------------------------------------------------
\* Fault: SP is set to the size of the RAM.
AvrResetAbove ==
  /\ phase' = "run" /\ sp' = RamEnd + 1
  /\ frames' = << >> /\ disabled' = FALSE /\ do_reset' = FALSE
  /\ live' = << >> /\ took' = FALSE /\ hit' = FALSE /\ smashed' = FALSE

AvrReset ==
  /\ phase' = "run" /\ sp' = RamEnd
  /\ frames' = << >> /\ disabled' = FALSE /\ do_reset' = FALSE
  /\ live' = << >> /\ took' = FALSE /\ hit' = FALSE /\ smashed' = FALSE

(* fuzz_reset: a timeout, a bad jump or a patch.                           *)
FuzzReset == phase = "run" /\ AvrReset

DoReset == phase = "check" /\ do_reset /\ AvrReset

EndInstruction ==
  /\ phase = "check" /\ ~do_reset
  /\ phase' = "between"
  /\ UNCHANGED <<sp, frames, disabled, do_reset, live, history>>

NoInterrupt ==
  /\ phase = "between"
  /\ phase' = "run"
  /\ UNCHANGED <<sp, frames, disabled, do_reset, live, history>>

(* avr_service_interrupts pushes the address but no frame.                 *)
Interrupt ==
  /\ phase = "between" /\ Interrupts
  /\ phase' = "run"
  /\ PushAddr
  /\ live' = Append(live, Address(sp', "irq"))
  /\ UNCHANGED <<frames, disabled>>

Init ==
  /\ phase = "run" /\ sp = RamEnd
  /\ frames = << >> /\ disabled = FALSE /\ do_reset = FALSE
  /\ live = << >> /\ took = FALSE /\ hit = FALSE /\ smashed = FALSE

Next ==
  \/ Call \/ MakeRoom \/ Ret \/ Reti \/ Push \/ Pop
  \/ \E n \in -MaxLocals .. MaxLocals : MoveSP(n)
  \/ \E addr \in 1 .. RamEnd : Store(addr)
  \/ RunReturn
  \/ FuzzReset \/ DoReset \/ EndInstruction \/ NoInterrupt \/ Interrupt

Spec == Init /\ [][Next]_vars

-----------------------------------------------------------------------------
Calls == {e \in Entries(live) : e.kind = "call"}

(* The frames "record the call/ret pairs" (sim_avr.h): every call that has *)
(* not returned has its own, unless a handler has returned above it and    *)
(* taken one.  The innermost is the last, which is lowest                  *)
(* (STACK_FRAME_PUSH and STACK_FRAME_POP in every call and return).        *)
CallsFramed ==
  /\ \A e \in Guarded : e.sp \in Entries(frames)
  /\ \A j, k \in 1 .. Len(frames) : j < k => frames[k] < frames[j]

(* No frame outlives its call, whatever interrupts pop and however calls   *)
(* end: a dead frame would report the writes of later functions.           *)
FramesLive ==
  \A f \in Entries(frames) : \E e \in Entries(live) : e.kind = "call" /\ e.sp = f

(* The two together: the frames are what is to be guarded, on every way in *)
(* and out of a call (STACK_FRAME_PUSH, STACK_FRAME_POP and avr_reset).    *)
FramesGuardCalls == CallsFramed /\ FramesLive

(* A smashed stack is reported only if a return address that the firmware  *)
(* will use was overwritten (avr_core_watch_write, the switch of POP, and  *)
(* PUSH putting a return address back).                                    *)
AlarmsReal == do_reset => hit

(* A return address of a call above which no handler has returned is       *)
(* overwritten unreported only after some function has popped of its own   *)
(* address, and before the next RET or RETI: popping data never switches   *)
(* the check off, and these switch it on.  The report stands until the     *)
(* core is reset, also when it was made by the entry of an interrupt       *)
(* (avr_core_watch_write, POP).                                            *)
SmashCaught == smashed => do_reset
=============================================================================
