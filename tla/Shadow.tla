------------------------------- MODULE Shadow -------------------------------
(***************************************************************************)
(* The sanitizer of uninitialized values: the shadow map that avr_run_one  *)
(* keeps (sim_core.c), its set-up (fuzz_crash_handler.c) and what patches  *)
(* and resets do to it (fuzz_patch_instructions.c).  A byte is defined, or *)
(* it is not; a branch, a comparing skip or a return that depends on a     *)
(* byte that is not is reported.                                           *)
(*                                                                         *)
(* Of an opcode its flow is kept: which registers its results go to and    *)
(* which operands decide whether they are defined.  Which registers it     *)
(* names is open, as are the values.  The origins that reports are         *)
(* labelled with (shadow_propagation) are left out.                        *)
(*                                                                         *)
(* The firmware is the environment.  It writes to its stack above SP only, *)
(* SP itself stays above its variables (a reset clears the byte SP points  *)
(* to as well), and interrupts are off while it writes the two halves of   *)
(* SP.  When the overwrite check asks for a reset is the matter of         *)
(* StackSanitizer: here it may at any time.                                *)
(***************************************************************************)
EXTENDS Integers

CONSTANTS
  Regs,        \* the general registers
  Bottom, Top, \* the lowest and the highest byte of the stack
  Data,        \* the I/O registers and the .data section, below the stack
  AddressSize  \* bytes of a return address, 2 or 3 in the code

Static == 1 .. Bottom - 1
Stack == Bottom .. Top
Ram == Static \cup Stack

ASSUME ShadowAssumption ==
  /\ "SREG" \notin Regs
  /\ Bottom \in Nat \ {0} /\ Top \in Nat /\ Bottom <= Top
  /\ Data \subseteq Static /\ AddressSize \in Nat \ {0}

VARIABLES
  sp,                \* the stack pointer: the highest free byte
  stackframe_min_sp, \* the lowest SP seen since the last return
  shadow,            \* the bytes of RAM that are defined
  regs,              \* the registers that are, SREG with them
  value,    \* history: bytes that hold what the firmware has put there
  regValue, \* history: registers that hold no copy of another byte
  leaked,   \* history: defined bytes that were given up without a RET
  latest,   \* history: bytes pushed or patched since an instruction began
  careless, \* history: the firmware has read a byte that is not in value
  reported  \* history: the use of an uninitialized value was reported

vars == <<sp, stackframe_min_sp, shadow, regs, value, regValue, leaked,
          latest, careless, reported>>

Names == Regs \cup {"SREG"}

TypeOK ==
  /\ sp \in Stack /\ stackframe_min_sp \in Bottom .. Top + 1
  /\ shadow \subseteq Ram /\ value \subseteq Ram
  /\ regs \subseteq Names /\ regValue \subseteq Names
  /\ leaked \subseteq shadow /\ latest \subseteq Stack
  /\ careless \in BOOLEAN /\ reported \in BOOLEAN

-----------------------------------------------------------------------------
Lower(a, b) == IF a < b THEN a ELSE b

\* Fault: it is brought up to date by returns only.
LowestAtReturns == stackframe_min_sp

(* Every instruction begins with this update of stackframe_min_sp.         *)
Lowest == Lower(stackframe_min_sp, sp)

(* Those that push nothing.                                                *)
Instruction == stackframe_min_sp' = Lowest /\ latest' = {}

With(set, x, ok) == IF ok THEN set \cup {x} ELSE set \ {x}

Reads(bytes) == careless' = (careless \/ ~(bytes \subseteq value))

(* c is written; ok says whether what is written is defined, and of value  *)
(* whether it is anything but a copy of an uninitialized byte.             *)
Writes(c, ok, made) ==
  /\ shadow' = With(shadow, c, ok)
  /\ value' = With(value, c, made)
  /\ leaked' = leaked \ {c}

ramVars == <<shadow, value, leaked>>

-----------------------------------------------------------------------------
(* The results are defined if all operands are.                            *)
Results(to, from) == IF from \subseteq regs THEN regs \cup to ELSE regs \ to

Compute(to, from) == regs' = Results(to, from) /\ regValue' = regValue \cup to

(* Products and pointers take two registers.                               *)
Pairs == {{p, q} : p, q \in Regs} \ {{p} : p \in Regs}

(* Flows between registers; d and r may be the same.                       *)
Flows(d, r, pair) == {
  <<{d, "SREG"}, {d, r}>>,         \* ADD, SUB, EOR, SUBI
  <<{d, "SREG"}, {d, r, "SREG"}>>, \* ADC, SBC, SBCI
  <<{"SREG"}, {d, r}>>,            \* CP, CPI, ADIW, SBIW, INC, ROR, BST, ...
  <<{"SREG"}, {d, r, "SREG"}>>,    \* CPC
  <<pair \cup {"SREG"}, {d, r}>>,   \* the multiplications
  <<{d}, pair>>,                   \* ELPM
  <<{d} \cup pair, pair>>,         \* ELPM with Z+
  <<{d, "SREG"}, {}>>,             \* ANDI, ORI
  <<{d}, {}>>,                     \* LDI, IN, LPM
  <<{"SREG"}, {}>> }               \* SEx, CLx

AllFlows == UNION {Flows(d, r, pair) : d, r \in Regs, pair \in Pairs}

Arithmetic ==
  /\ Instruction
  /\ \E f \in AllFlows : Compute(f[1], f[2])
  /\ UNCHANGED <<sp, ramVars, careless, reported>>

(* AND, OR: one operand is enough, "at least 1 bit of the result is        *)
(* defined".                                                               *)
Mask ==
  /\ Instruction
  /\ \E d, r \in Regs : Compute({d, "SREG"}, IF d \in regs THEN {d} ELSE {r})
  /\ UNCHANGED <<sp, ramVars, careless, reported>>

(* SBC of equal values.                                                    *)
SubtractEqual ==
  /\ Instruction
  /\ \E d, r \in Regs :
       /\ regs' = Results({"SREG"}, {d, r, "SREG"}) \cup {d}
       /\ regValue' = regValue \cup {d, "SREG"}
  /\ UNCHANGED <<sp, ramVars, careless, reported>>

(* BLD looks at the register or I/O register whose number is the value.    *)
Bld ==
  /\ Instruction
  /\ \E d \in Regs,
        ok \in {(r \in regs) : r \in Names} \cup {(c \in shadow) : c \in Data} :
       regs' = With(regs, d, ok /\ "SREG" \in regs) /\ regValue' = regValue \cup {d}
  /\ UNCHANGED <<sp, ramVars, careless, reported>>

Mov ==
  /\ Instruction
  /\ \E d, r \in Regs :
       /\ regs' = With(regs, d, r \in regs)
       /\ regValue' = With(regValue, d, r \in regValue)
  /\ UNCHANGED <<sp, ramVars, careless, reported>>

(* MOVW: both or none.                                                     *)
Movw ==
  /\ Instruction
  /\ \E d, e, r, q \in Regs :
       /\ d # e
       /\ regs' = Results({d, e}, {r, q})
       /\ regValue' = With(With(regValue, d, r \in regValue), e, q \in regValue)
  /\ UNCHANGED <<sp, ramVars, careless, reported>>

-----------------------------------------------------------------------------
(* Is what an instruction loads from c defined?                            *)
Loaded(c, pointer) == pointer \subseteq regs /\ c \in shadow

(* LDS and LD with Y look at the byte only, LDD at the pointer as well.    *)
Load ==
  /\ Instruction
  /\ \E d \in Regs, c \in Ram, pointer \in {{}} \cup Pairs :
       /\ regs' = With(regs, d, Loaded(c, pointer))
       /\ regValue' = With(regValue, d, c \in value \cup leaked)
       /\ Reads({c})
  /\ UNCHANGED <<sp, ramVars, reported>>

(* LD with X, and with Z+ and -Z, look at the pointer only: whatever they  *)
(* load is taken for a value.                                              *)
LoadBlindly ==
  /\ Instruction
  /\ \E d \in Regs, c \in Ram, pointer \in Pairs :
       /\ Compute({d}, pointer) \/ Compute({d} \cup pointer, pointer)
       /\ Reads({c})
  /\ UNCHANGED <<sp, ramVars, reported>>

Writable == Static \cup {c \in Stack : c > sp}

(* STS, ST with Y; STD and ST with X and Z look at the pointer as well.    *)
Store ==
  /\ Instruction
  /\ \E d \in Regs, c \in Writable, pointer \in {{}} \cup Pairs :
       Writes(c, {d} \cup pointer \subseteq regs, d \in regValue)
  /\ UNCHANGED <<sp, regs, regValue, careless, reported>>

(* CBI and SBI.                                                            *)
SetBit ==
  /\ Instruction
  /\ \E c \in Data : Writes(c, TRUE, TRUE)
  /\ UNCHANGED <<sp, regs, regValue, careless, reported>>

(* A patch uses write_to_ram or set_shadow_map, whose value is not used.   *)
WriteToRam ==
  /\ \E c \in Writable :
       Writes(c, TRUE, TRUE) /\ latest' = latest \cup ({c} \cap Stack)
  /\ UNCHANGED <<sp, stackframe_min_sp, regs, regValue, careless, reported>>

-----------------------------------------------------------------------------
Push ==
  /\ sp > Bottom
  /\ sp' = sp - 1 /\ stackframe_min_sp' = Lowest /\ latest' = {sp}
  /\ \E d \in Regs : Writes(sp, d \in regs, d \in regValue)
  /\ UNCHANGED <<regs, regValue, careless, reported>>

Pop ==
  /\ Instruction /\ sp < Top
  /\ sp' = sp + 1
  /\ \E d \in Regs :
       /\ regs' = With(regs, d, sp' \in shadow)
       /\ regValue' = With(regValue, d, sp' \in value \cup leaked)
  /\ Reads({sp'})
  /\ shadow' = shadow \ {sp'} /\ value' = value \ {sp'} /\ leaked' = leaked \ {sp'}
  /\ UNCHANGED reported

(* _avr_push_addr.                                                         *)
PushAddr ==
  /\ sp - AddressSize >= Bottom
  /\ sp' = sp - AddressSize
  /\ shadow' = shadow \cup (sp' + 1 .. sp)
  /\ value' = value \cup (sp' + 1 .. sp)
  /\ leaked' = leaked \ (sp' + 1 .. sp)
  /\ UNCHANGED <<regs, regValue, careless, reported>>

(* The calls, and RCALL .0, which makes room and defines it.               *)
Call ==
  /\ PushAddr
  /\ stackframe_min_sp' = Lowest /\ latest' = sp' + 1 .. sp

(* avr_service_interrupts, between two instructions.  (Once, in the code;  *)
(* more would make no difference.)                                         *)
Interrupt ==
  /\ PushAddr
  /\ latest' = latest \cup (sp' + 1 .. sp)
  /\ UNCHANGED stackframe_min_sp

\* Fault: one byte too many.
ClearedPast(top) == Lowest .. top + 1

(* What a return clears: the address and all that was below it.            *)
Cleared(top) == Lowest .. top

ReturnAddress == sp + 1 .. sp + AddressSize

(* The functions that have returned hold nothing any more.                 *)
StillHeld(set) == {c \in set : c \in Static \/ c > sp'}

Return ==
  /\ sp + AddressSize <= Top
  /\ sp' = sp + AddressSize
  /\ Reads(ReturnAddress)
  /\ value' = StillHeld(value)

(* RET, and RETI, which sets a flag.  stackframe_min_sp is SP before the   *)
(* address is popped.                                                      *)
Ret ==
  /\ Return
  /\ stackframe_min_sp' = sp /\ latest' = {}
  /\ shadow' = shadow \ Cleared(sp') /\ leaked' = leaked \ Cleared(sp')
  /\ reported' = (reported \/ ~(ReturnAddress \subseteq shadow))
  /\ \/ UNCHANGED <<regs, regValue>>
     \/ Compute({"SREG"}, {})

(* A patch has set run_return_instruction: nothing is checked or cleared.  *)
RunReturn ==
  /\ Return
  /\ leaked' = leaked \cup {c \in shadow \cap value : c \notin StillHeld(value)}
  /\ UNCHANGED <<stackframe_min_sp, latest, shadow, regs, regValue, reported>>

(* SP is set, one half after the other; SP seen in between counts.         *)
MoveSP ==
  /\ sp' \in Stack
  /\ \E between \in Stack :
       stackframe_min_sp' = Lower(Lowest, between) /\ latest' = {}
  /\ UNCHANGED <<ramVars, regs, regValue, careless, reported>>

-----------------------------------------------------------------------------
(* A conditional branch on an undefined flag, a CPSE of an undefined       *)
(* register.                                                               *)
Decide ==
  /\ Instruction
  /\ \E used \in {{"SREG"}} \cup {{d, r} : d, r \in Regs} :
       reported' = (reported \/ ~(used \subseteq regs))
  /\ UNCHANGED <<sp, ramVars, regs, regValue, careless>>

(* fuzz_reset: "reset stack area of shadow map".                           *)
Forgotten == {c \in Ram : c >= stackframe_min_sp}

\* Fault: SP is set to the size of the RAM.
ResetSpAbove == Top + 1

ResetSp == Top

AvrReset ==
  /\ sp' = ResetSp
  /\ stackframe_min_sp' = Top + 1 /\ latest' = {}
  /\ value' = value \cap Static
  /\ UNCHANGED <<regs, regValue, careless, reported>>

(* It comes before the update of stackframe_min_sp: what was pushed since  *)
(* the last instruction began may lie below.                               *)
FuzzReset ==
  /\ AvrReset
  /\ shadow' = shadow \ Forgotten
  /\ leaked' = (leaked \cup (shadow \cap value \cap latest)) \ Forgotten

(* The do_reset branch and the watchdog do not touch the shadow map.       *)
DoReset ==
  /\ AvrReset
  /\ leaked' = leaked \cup (shadow \cap value \cap Stack)
  /\ UNCHANGED shadow

-----------------------------------------------------------------------------
Init ==
  /\ sp = Top /\ stackframe_min_sp = Top + 1
  /\ shadow = Data /\ regs = Names
  /\ value = Data /\ regValue = Names
  /\ leaked = {} /\ latest = {} /\ careless = FALSE /\ reported = FALSE

Next ==
  \/ Arithmetic \/ Mask \/ SubtractEqual \/ Bld \/ Mov \/ Movw
  \/ Load \/ LoadBlindly \/ Store \/ SetBit \/ WriteToRam
  \/ Push \/ Pop \/ Call \/ Interrupt \/ Ret \/ RunReturn \/ MoveSP
  \/ Decide \/ FuzzReset \/ DoReset

Spec == Init /\ [][Next]_vars

-----------------------------------------------------------------------------
(* A report is never false: firmware that reads only bytes it has put      *)
(* something into is not reported, however it calls, takes interrupts and  *)
(* moves SP, and however tests are cut short and restarted (every clearing *)
(* of the shadow map in sim_core.c and fuzz_reset).                        *)
ReportsEarned == reported => careless

(* What counts as defined is: no byte of a function that has returned or   *)
(* of an earlier test, and no copy of such a byte, except the bytes that   *)
(* run_return_instruction and resets leave behind, and what LoadBlindly    *)
(* loads (the loads, stores and stack instructions, the range RET clears). *)
TrustEarned == regs \subseteq regValue /\ shadow \subseteq value \cup leaked
=============================================================================
