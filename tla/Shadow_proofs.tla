--------------------------- MODULE Shadow_proofs ---------------------------
(***************************************************************************)
(* Proofs about Shadow.  What a return or a reset leaves uncleared is      *)
(* decided by stackframe_min_sp, so the invariant says where the bytes are *)
(* that hold something: not below it, unless the instruction that put them *)
(* there is still the last one.                                            *)
(***************************************************************************)
EXTENDS Shadow, TLAPS

Placed ==
  \A c \in value \cap Stack : c >= stackframe_min_sp \/ (c \in latest /\ c > sp)

(* Without a careless read nothing is undefined that holds something.      *)
Clean ==
  ~careless => /\ regs = Names /\ regValue = Names
               /\ Data \subseteq value /\ value \subseteq shadow
               /\ ~reported

ShadowInv == TypeOK /\ Placed /\ TrustEarned /\ Clean

-----------------------------------------------------------------------------
LEMMA Sizes ==
  /\ Bottom \in Nat /\ Bottom >= 1 /\ Top \in Nat /\ Bottom <= Top
  /\ AddressSize \in Nat /\ AddressSize >= 1
  /\ Data \subseteq Static /\ "SREG" \notin Regs
BY ShadowAssumption

LEMMA AboveStart ==
  ASSUME NEW a \in Int, NEW b \in Int, NEW c \in a + 1 .. b
  PROVE  c > a
OBVIOUS

LEMMA LowestLow ==
  ASSUME TypeOK
  PROVE  /\ Lowest \in Bottom .. Top
         /\ Lowest <= sp /\ Lowest <= stackframe_min_sp
BY Sizes DEF TypeOK, Lowest, Lower, Stack

(* An instruction that leaves the stack as it is, or gives up some of it.  *)
LEMMA PlacedLater ==
  ASSUME TypeOK, Placed, stackframe_min_sp' \in Int, stackframe_min_sp' <= Lowest,
         \A c \in value' \cap Stack : c \in value \/ c > sp
  PROVE  Placed'
<1> SUFFICES ASSUME NEW c \in value' \cap Stack
             PROVE  c >= stackframe_min_sp'
  BY DEF Placed
<1>1. c \in Int /\ Lowest \in Int /\ sp \in Int /\ stackframe_min_sp \in Int
  BY Sizes, LowestLow DEF Stack, TypeOK
<1>2. c >= stackframe_min_sp \/ c > sp
  BY DEF Placed
<1> QED
  BY <1>1, <1>2, LowestLow

LEMMA QuietStep ==
  ASSUME ShadowInv, Instruction, UNCHANGED <<sp, ramVars>>,
         regs' \subseteq regValue', regValue' \subseteq Names,
         careless' \in BOOLEAN, reported' \in BOOLEAN, Clean'
  PROVE  ShadowInv'
<1>1. /\ sp' = sp /\ shadow' = shadow /\ value' = value /\ leaked' = leaked
      /\ stackframe_min_sp' = Lowest /\ latest' = {}
  BY DEF ramVars, Instruction
<1>2. Lowest \in Bottom .. Top + 1 /\ Lowest \in Int /\ Lowest <= Lowest
  BY Sizes, LowestLow DEF ShadowInv
<1>3. TypeOK'
  BY <1>1, <1>2 DEF ShadowInv, TypeOK
<1>4. Placed'
  BY <1>1, <1>2, PlacedLater DEF ShadowInv
<1>5. TrustEarned'
  BY <1>1 DEF ShadowInv, TrustEarned
<1> QED
  BY <1>3, <1>4, <1>5 DEF ShadowInv

-----------------------------------------------------------------------------
LEMMA PairsOfRegs ==
  ASSUME NEW pair \in Pairs
  PROVE  pair \subseteq Regs
BY DEF Pairs

LEMMA FlowsBetweenNames ==
  ASSUME NEW f \in AllFlows
  PROVE  f[1] \subseteq Names /\ f[2] \subseteq Names
<1>1. PICK d \in Regs, r \in Regs, pair \in Pairs : f \in Flows(d, r, pair)
  BY DEF AllFlows
<1>2. pair \subseteq Regs
  BY PairsOfRegs
<1> QED
  BY <1>1, <1>2 DEF Flows, Names

(* The defined registers after a computation: still values, and all of     *)
(* them if all were.                                                       *)
LEMMA ComputeKeeps ==
  ASSUME ShadowInv, NEW to \in SUBSET Names, NEW from \in SUBSET Names,
         Compute(to, from)
  PROVE  /\ regs' \subseteq regValue' /\ regValue' \subseteq Names
         /\ regs = Names /\ regValue = Names => regs' = Names /\ regValue' = Names
<1>1. regs \subseteq regValue /\ regs \subseteq Names /\ regValue \subseteq Names
  BY DEF ShadowInv, TrustEarned, TypeOK
<1> QED
  BY <1>1 DEF Compute, Results

(* The same of every step that touches registers only.                     *)
LEMMA RegisterStep ==
  ASSUME ShadowInv, Instruction, UNCHANGED <<sp, ramVars, careless, reported>>,
         regs' \subseteq regValue', regValue' \subseteq Names,
         regs = Names /\ regValue = Names => regs' = Names /\ regValue' = Names
  PROVE  ShadowInv'
<1>1. /\ careless' = careless /\ reported' = reported
      /\ value' = value /\ shadow' = shadow
      /\ careless \in BOOLEAN /\ reported \in BOOLEAN
  BY DEF ramVars, ShadowInv, TypeOK
<1>2. Clean'
  BY <1>1 DEF ShadowInv, Clean
<1> QED
  BY <1>1, <1>2, QuietStep

LEMMA ArithmeticKeeps == ShadowInv /\ Arithmetic => ShadowInv'
<1> SUFFICES ASSUME ShadowInv, Arithmetic PROVE ShadowInv'
  OBVIOUS
<1>1. PICK f \in AllFlows : Compute(f[1], f[2])
  BY DEF Arithmetic
<1>2. f[1] \in SUBSET Names /\ f[2] \in SUBSET Names
  BY FlowsBetweenNames
<1> QED
  BY <1>1, <1>2, ComputeKeeps, RegisterStep DEF Arithmetic

LEMMA MaskKeeps == ShadowInv /\ Mask => ShadowInv'
<1> SUFFICES ASSUME ShadowInv, Mask PROVE ShadowInv'
  OBVIOUS
<1>1. PICK d \in Regs, r \in Regs :
        Compute({d, "SREG"}, IF d \in regs THEN {d} ELSE {r})
  BY DEF Mask
<1>2. /\ {d, "SREG"} \in SUBSET Names
      /\ (IF d \in regs THEN {d} ELSE {r}) \in SUBSET Names
  BY DEF Names
<1> QED
  BY <1>1, <1>2, ComputeKeeps, RegisterStep DEF Mask

LEMMA SubtractEqualKeeps == ShadowInv /\ SubtractEqual => ShadowInv'
<1> SUFFICES ASSUME ShadowInv, SubtractEqual PROVE ShadowInv'
  OBVIOUS
<1>1. PICK d \in Regs, r \in Regs :
        /\ regs' = Results({"SREG"}, {d, r, "SREG"}) \cup {d}
        /\ regValue' = regValue \cup {d, "SREG"}
  BY DEF SubtractEqual
<1>2. regs \subseteq regValue /\ regs \subseteq Names /\ regValue \subseteq Names
  BY DEF ShadowInv, TrustEarned, TypeOK
<1>3. regs' \subseteq regValue' /\ regValue' \subseteq Names
  BY <1>1, <1>2 DEF Results, Names
<1>4. regs = Names /\ regValue = Names => regs' = Names /\ regValue' = Names
  BY <1>1 DEF Results, Names
<1> QED
  BY <1>3, <1>4, RegisterStep DEF SubtractEqual

LEMMA BldKeeps == ShadowInv /\ Bld => ShadowInv'
<1> SUFFICES ASSUME ShadowInv, Bld PROVE ShadowInv'
  OBVIOUS
<1>1. PICK d \in Regs,
           ok \in {(r \in regs) : r \in Names} \cup {(c \in shadow) : c \in Data} :
        regs' = With(regs, d, ok /\ "SREG" \in regs) /\ regValue' = regValue \cup {d}
  BY DEF Bld
<1>2. regs \subseteq regValue /\ regs \subseteq Names /\ regValue \subseteq Names
  BY DEF ShadowInv, TrustEarned, TypeOK
<1>3. regs' \subseteq regValue' /\ regValue' \subseteq Names
  BY <1>1, <1>2 DEF With, Names
<1>4. ASSUME ~careless
      PROVE  regs' = Names /\ regValue' = Names
  <2>1. regs = Names /\ regValue = Names /\ Data \subseteq shadow
    BY <1>4 DEF ShadowInv, Clean
  <2>2. ok = TRUE
    BY <2>1
  <2> QED
    BY <1>1, <2>1, <2>2 DEF With, Names
<1>5. /\ careless' = careless /\ reported' = reported
      /\ value' = value /\ shadow' = shadow
      /\ careless \in BOOLEAN /\ reported \in BOOLEAN
  BY DEF Bld, ramVars, ShadowInv, TypeOK
<1>6. Clean'
  BY <1>4, <1>5 DEF ShadowInv, Clean
<1> QED
  BY <1>3, <1>5, <1>6, QuietStep DEF Bld

LEMMA MovKeeps == ShadowInv /\ Mov => ShadowInv'
<1> SUFFICES ASSUME ShadowInv, Mov PROVE ShadowInv'
  OBVIOUS
<1>1. PICK d \in Regs, r \in Regs :
        /\ regs' = With(regs, d, r \in regs)
        /\ regValue' = With(regValue, d, r \in regValue)
  BY DEF Mov
<1>2. regs \subseteq regValue /\ regs \subseteq Names /\ regValue \subseteq Names
  BY DEF ShadowInv, TrustEarned, TypeOK
<1>3. regs' \subseteq regValue' /\ regValue' \subseteq Names
  BY <1>1, <1>2 DEF With, Names
<1>4. regs = Names /\ regValue = Names => regs' = Names /\ regValue' = Names
  BY <1>1 DEF With, Names
<1> QED
  BY <1>3, <1>4, RegisterStep DEF Mov

LEMMA MovwKeeps == ShadowInv /\ Movw => ShadowInv'
<1> SUFFICES ASSUME ShadowInv, Movw PROVE ShadowInv'
  OBVIOUS
<1>1. PICK d \in Regs, e \in Regs, r \in Regs, q \in Regs :
        /\ d # e
        /\ regs' = Results({d, e}, {r, q})
        /\ regValue' = With(With(regValue, d, r \in regValue), e, q \in regValue)
  BY DEF Movw
<1>2. regs \subseteq regValue /\ regs \subseteq Names /\ regValue \subseteq Names
  BY DEF ShadowInv, TrustEarned, TypeOK
<1>3. regs' \subseteq regValue' /\ regValue' \subseteq Names
  BY <1>1, <1>2 DEF Results, With, Names
<1>4. regs = Names /\ regValue = Names => regs' = Names /\ regValue' = Names
  BY <1>1 DEF Results, With, Names
<1> QED
  BY <1>3, <1>4, RegisterStep DEF Movw

LEMMA DecideKeeps == ShadowInv /\ Decide => ShadowInv'
<1> SUFFICES ASSUME ShadowInv, Decide PROVE ShadowInv'
  OBVIOUS
<1>1. PICK used \in {{"SREG"}} \cup {{d, r} : d, r \in Regs} :
        reported' = (reported \/ ~(used \subseteq regs))
  BY DEF Decide
<1>2. used \subseteq Names
  BY DEF Names
<1>3. /\ careless' = careless /\ regs' = regs /\ regValue' = regValue
      /\ value' = value /\ shadow' = shadow
      /\ careless \in BOOLEAN /\ reported \in BOOLEAN /\ reported' \in BOOLEAN
  BY <1>1 DEF Decide, ramVars, ShadowInv, TypeOK
<1>4. Clean'
  BY <1>1, <1>2, <1>3 DEF ShadowInv, Clean
<1>5. regs' \subseteq regValue' /\ regValue' \subseteq Names
  BY <1>3 DEF ShadowInv, TrustEarned, TypeOK
<1> QED
  BY <1>3, <1>4, <1>5, QuietStep DEF Decide

-----------------------------------------------------------------------------
LEMMA LoadKeeps == ShadowInv /\ Load => ShadowInv'
<1> SUFFICES ASSUME ShadowInv, Load PROVE ShadowInv'
  OBVIOUS
<1>1. PICK d \in Regs, c \in Ram, pointer \in {{}} \cup Pairs :
        /\ regs' = With(regs, d, Loaded(c, pointer))
        /\ regValue' = With(regValue, d, c \in value \cup leaked)
        /\ Reads({c})
  BY DEF Load
<1>2. pointer \subseteq Names
  BY PairsOfRegs DEF Names
<1>3. /\ regs \subseteq regValue /\ regs \subseteq Names /\ regValue \subseteq Names
      /\ shadow \subseteq value \cup leaked
  BY DEF ShadowInv, TrustEarned, TypeOK
<1>4. regs' \subseteq regValue' /\ regValue' \subseteq Names
  BY <1>1, <1>3 DEF With, Names, Loaded
<1>5. /\ value' = value /\ shadow' = shadow /\ reported' = reported
      /\ careless \in BOOLEAN /\ reported \in BOOLEAN /\ careless' \in BOOLEAN
  BY <1>1 DEF Load, ramVars, ShadowInv, TypeOK, Reads
<1>6. ASSUME ~careless'
      PROVE  ~careless /\ regs' = Names /\ regValue' = Names
  <2>1. ~careless /\ c \in value
    BY <1>1, <1>6 DEF Reads
  <2>2. regs = Names /\ regValue = Names /\ c \in shadow
    BY <2>1 DEF ShadowInv, Clean
  <2> QED
    BY <1>1, <1>2, <2>1, <2>2 DEF With, Names, Loaded
<1>7. Clean'
  BY <1>5, <1>6 DEF ShadowInv, Clean
<1> QED
  BY <1>4, <1>5, <1>7, QuietStep DEF Load

LEMMA LoadBlindlyKeeps == ShadowInv /\ LoadBlindly => ShadowInv'
<1> SUFFICES ASSUME ShadowInv, LoadBlindly PROVE ShadowInv'
  OBVIOUS
<1>1. PICK d \in Regs, c \in Ram, pointer \in Pairs :
        /\ Compute({d}, pointer) \/ Compute({d} \cup pointer, pointer)
        /\ Reads({c})
  BY DEF LoadBlindly
<1>2. {d} \in SUBSET Names /\ pointer \in SUBSET Names
      /\ {d} \cup pointer \in SUBSET Names
  BY PairsOfRegs DEF Names
<1>3. /\ regs' \subseteq regValue' /\ regValue' \subseteq Names
      /\ regs = Names /\ regValue = Names => regs' = Names /\ regValue' = Names
  BY <1>1, <1>2, ComputeKeeps
<1>4. /\ value' = value /\ shadow' = shadow /\ reported' = reported
      /\ careless \in BOOLEAN /\ reported \in BOOLEAN /\ careless' \in BOOLEAN
      /\ careless => careless'
  BY <1>1 DEF LoadBlindly, ramVars, ShadowInv, TypeOK, Reads
<1>5. Clean'
  BY <1>3, <1>4 DEF ShadowInv, Clean
<1> QED
  BY <1>3, <1>4, <1>5, QuietStep DEF LoadBlindly

-----------------------------------------------------------------------------
(* What a write keeps, whatever it does to the stack pointer: one that is  *)
(* taken for defined is of a value, and a clean one is defined.            *)
LEMMA WritesKeep ==
  ASSUME ShadowInv, NEW c \in Ram, NEW ok \in BOOLEAN, NEW made \in BOOLEAN,
         Writes(c, ok, made), ok => made, ~careless => ok,
         UNCHANGED <<regs, regValue, careless, reported>>
  PROVE  /\ TrustEarned' /\ Clean'
         /\ shadow' \subseteq Ram /\ value' \subseteq Ram
         /\ leaked' \subseteq shadow'
         /\ regs' \subseteq Names /\ regValue' \subseteq Names
         /\ careless' \in BOOLEAN /\ reported' \in BOOLEAN
         /\ value' \subseteq value \cup {c}
<1>1. /\ regs \subseteq regValue /\ regs \subseteq Names /\ regValue \subseteq Names
      /\ shadow \subseteq value \cup leaked /\ leaked \subseteq shadow
      /\ shadow \subseteq Ram /\ value \subseteq Ram
      /\ careless \in BOOLEAN /\ reported \in BOOLEAN
  BY DEF ShadowInv, TrustEarned, TypeOK
<1>2. TrustEarned'
  BY <1>1 DEF Writes, With, TrustEarned
<1>3. Clean'
  <2> SUFFICES ASSUME ~careless
               PROVE  /\ regs = Names /\ regValue = Names
                      /\ Data \subseteq value' /\ value' \subseteq shadow'
                      /\ ~reported
    BY DEF Clean
  <2>1. /\ regs = Names /\ regValue = Names /\ ~reported
        /\ Data \subseteq value /\ value \subseteq shadow
    BY DEF ShadowInv, Clean
  <2>2. ok /\ made
    OBVIOUS
  <2>3. value' = value \cup {c} /\ shadow' = shadow \cup {c}
    BY <2>2 DEF Writes, With
  <2> QED
    BY <2>1, <2>3
<1> QED
  BY <1>1, <1>2, <1>3 DEF Writes, With

(* A byte above SP, or of a variable, is written by an instruction.        *)
LEMMA StoreStep ==
  ASSUME ShadowInv, Instruction, NEW c \in Writable,
         NEW ok \in BOOLEAN, NEW made \in BOOLEAN,
         Writes(c, ok, made), ok => made, ~careless => ok,
         UNCHANGED <<sp, regs, regValue, careless, reported>>
  PROVE  ShadowInv'
<1>1. c \in Ram /\ (c \in Stack => c > sp)
  BY Sizes DEF Writable, Ram, Static, Stack
<1>2. /\ TrustEarned' /\ Clean'
      /\ shadow' \subseteq Ram /\ value' \subseteq Ram
      /\ leaked' \subseteq shadow'
      /\ regs' \subseteq Names /\ regValue' \subseteq Names
      /\ careless' \in BOOLEAN /\ reported' \in BOOLEAN
      /\ value' \subseteq value \cup {c}
  BY <1>1, WritesKeep
<1>3. stackframe_min_sp' = Lowest /\ latest' = {} /\ sp' = sp
  BY DEF Instruction
<1>4. Lowest \in Bottom .. Top + 1 /\ Lowest \in Int /\ Lowest <= Lowest
  BY Sizes, LowestLow DEF ShadowInv
<1>5. TypeOK'
  BY <1>2, <1>3, <1>4 DEF ShadowInv, TypeOK
<1>6. \A b \in value' \cap Stack : b \in value \/ b > sp
  BY <1>1, <1>2
<1>7. Placed'
  BY <1>3, <1>4, <1>6, PlacedLater DEF ShadowInv
<1> QED
  BY <1>2, <1>5, <1>7 DEF ShadowInv

LEMMA StoreKeeps == ShadowInv /\ Store => ShadowInv'
<1> SUFFICES ASSUME ShadowInv, Store PROVE ShadowInv'
  OBVIOUS
<1>1. PICK d \in Regs, c \in Writable, pointer \in {{}} \cup Pairs :
        Writes(c, {d} \cup pointer \subseteq regs, d \in regValue)
  BY DEF Store
<1>2. {d} \cup pointer \subseteq Names
  BY PairsOfRegs DEF Names
<1>3. {d} \cup pointer \subseteq regs => d \in regValue
  BY DEF ShadowInv, TrustEarned
<1>4. ~careless => {d} \cup pointer \subseteq regs
  BY <1>2 DEF ShadowInv, Clean
<1>5. ({d} \cup pointer \subseteq regs) \in BOOLEAN /\ (d \in regValue) \in BOOLEAN
  OBVIOUS
<1> QED
  BY <1>1, <1>3, <1>4, <1>5, StoreStep DEF Store

LEMMA SetBitKeeps == ShadowInv /\ SetBit => ShadowInv'
<1> SUFFICES ASSUME ShadowInv, SetBit PROVE ShadowInv'
  OBVIOUS
<1>1. PICK c \in Data : Writes(c, TRUE, TRUE)
  BY DEF SetBit
<1>2. c \in Writable
  BY Sizes DEF Writable
<1> QED
  BY <1>1, <1>2, StoreStep DEF SetBit

(* A patch runs between two instructions: what it writes is among the      *)
(* latest bytes.                                                           *)
LEMMA WriteToRamKeeps == ShadowInv /\ WriteToRam => ShadowInv'
<1> SUFFICES ASSUME ShadowInv, WriteToRam PROVE ShadowInv'
  OBVIOUS
<1>1. PICK c \in Writable :
        Writes(c, TRUE, TRUE) /\ latest' = latest \cup ({c} \cap Stack)
  BY DEF WriteToRam
<1>2. c \in Ram /\ (c \in Stack => c > sp)
  BY Sizes DEF Writable, Ram, Static, Stack
<1>3. /\ sp' = sp /\ stackframe_min_sp' = stackframe_min_sp
  BY DEF WriteToRam
<1>4. /\ TrustEarned' /\ Clean'
      /\ shadow' \subseteq Ram /\ value' \subseteq Ram
      /\ leaked' \subseteq shadow'
      /\ regs' \subseteq Names /\ regValue' \subseteq Names
      /\ careless' \in BOOLEAN /\ reported' \in BOOLEAN
      /\ value' \subseteq value \cup {c}
  BY <1>1, <1>2, WritesKeep DEF WriteToRam
<1>5. latest' \subseteq Stack
  BY <1>1 DEF ShadowInv, TypeOK
<1>6. TypeOK'
  BY <1>3, <1>4, <1>5 DEF ShadowInv, TypeOK
<1>7. \A b \in value' \cap Stack :
        b >= stackframe_min_sp \/ (b \in latest' /\ b > sp)
  BY <1>1, <1>2, <1>4 DEF ShadowInv, Placed
<1>8. Placed'
  BY <1>3, <1>7 DEF Placed
<1> QED
  BY <1>4, <1>6, <1>8 DEF ShadowInv

-----------------------------------------------------------------------------
LEMMA PushKeeps == ShadowInv /\ Push => ShadowInv'
<1> SUFFICES ASSUME ShadowInv, Push PROVE ShadowInv'
  OBVIOUS
<1>1. PICK d \in Regs : Writes(sp, d \in regs, d \in regValue)
  BY DEF Push
<1>2. /\ sp' = sp - 1 /\ stackframe_min_sp' = Lowest /\ latest' = {sp}
      /\ sp > Bottom /\ sp \in Stack /\ sp \in Int
  BY Sizes DEF Push, ShadowInv, TypeOK, Stack
<1>3. sp \in Ram
  BY <1>2 DEF Ram
<1>4. d \in regs => d \in regValue
  BY DEF ShadowInv, TrustEarned
<1>5. ~careless => d \in regs
  BY DEF ShadowInv, Clean, Names
<1>6. /\ TrustEarned' /\ Clean'
      /\ shadow' \subseteq Ram /\ value' \subseteq Ram
      /\ leaked' \subseteq shadow'
      /\ regs' \subseteq Names /\ regValue' \subseteq Names
      /\ careless' \in BOOLEAN /\ reported' \in BOOLEAN
      /\ value' \subseteq value \cup {sp}
  <2>1. (d \in regs) \in BOOLEAN /\ (d \in regValue) \in BOOLEAN
    OBVIOUS
  <2> QED
    BY <1>1, <1>3, <1>4, <1>5, <2>1, WritesKeep DEF Push
<1>7. Lowest \in Bottom .. Top + 1 /\ Lowest \in Int /\ Lowest <= sp
      /\ Lowest <= stackframe_min_sp /\ stackframe_min_sp \in Int
  BY Sizes, LowestLow DEF ShadowInv, TypeOK
<1>8. sp' \in Stack
  BY <1>2, Sizes DEF Stack
<1>9. TypeOK'
  BY <1>2, <1>6, <1>7, <1>8 DEF ShadowInv, TypeOK
<1>10. Placed'
  <2> SUFFICES ASSUME NEW c \in value' \cap Stack
               PROVE  c >= stackframe_min_sp'
    BY DEF Placed
  <2>1. c \in Int
    BY Sizes DEF Stack
  <2>2. CASE c = sp
    BY <2>2, <1>2, <1>7
  <2>3. CASE c # sp
    <3>1. c >= stackframe_min_sp \/ c > sp
      BY <2>3, <1>6 DEF ShadowInv, Placed
    <3> QED
      BY <3>1, <2>1, <1>2, <1>7
  <2> QED
    BY <2>2, <2>3
<1> QED
  BY <1>6, <1>9, <1>10 DEF ShadowInv

LEMMA PopKeeps == ShadowInv /\ Pop => ShadowInv'
<1> SUFFICES ASSUME ShadowInv, Pop PROVE ShadowInv'
  OBVIOUS
<1>1. PICK d \in Regs :
        /\ regs' = With(regs, d, sp' \in shadow)
        /\ regValue' = With(regValue, d, sp' \in value \cup leaked)
  BY DEF Pop
<1>2. /\ sp' = sp + 1 /\ stackframe_min_sp' = Lowest /\ latest' = {}
      /\ sp < Top /\ sp \in Stack /\ sp \in Int /\ reported' = reported
      /\ careless' = (careless \/ sp' \notin value)
      /\ shadow' = shadow \ {sp'} /\ value' = value \ {sp'}
      /\ leaked' = leaked \ {sp'}
  BY Sizes DEF Pop, Instruction, Reads, ShadowInv, TypeOK, Stack
<1>3. /\ regs \subseteq regValue /\ regs \subseteq Names /\ regValue \subseteq Names
      /\ shadow \subseteq value \cup leaked /\ leaked \subseteq shadow
      /\ shadow \subseteq Ram /\ value \subseteq Ram
      /\ careless \in BOOLEAN /\ reported \in BOOLEAN
  BY DEF ShadowInv, TrustEarned, TypeOK
<1>4. sp' \in Stack
  BY <1>2, Sizes DEF Stack
<1>5. sp' \notin Data
  BY <1>4, Sizes DEF Stack, Static
<1>6. Lowest \in Bottom .. Top + 1 /\ Lowest \in Int /\ Lowest <= Lowest
  BY Sizes, LowestLow DEF ShadowInv
<1>7. regs' \subseteq regValue' /\ regValue' \subseteq Names /\ regs' \subseteq Names
  BY <1>1, <1>3 DEF With, Names
<1>8. TypeOK'
  <2>1. shadow' \subseteq Ram /\ value' \subseteq Ram /\ leaked' \subseteq shadow'
    BY <1>2, <1>3
  <2>2. careless' \in BOOLEAN /\ reported' \in BOOLEAN
    BY <1>2, <1>3
  <2> QED
    BY <1>2, <1>4, <1>6, <1>7, <2>1, <2>2 DEF TypeOK
<1>9. Placed'
  <2>1. \A c \in value' \cap Stack : c \in value
    BY <1>2
  <2> QED
    BY <1>2, <1>6, <2>1, PlacedLater DEF ShadowInv
<1>10. TrustEarned'
  BY <1>2, <1>3, <1>7 DEF TrustEarned
<1>11. Clean'
  <2> SUFFICES ASSUME ~careless'
               PROVE  /\ regs' = Names /\ regValue' = Names
                      /\ Data \subseteq value' /\ value' \subseteq shadow'
                      /\ ~reported'
    BY DEF Clean
  <2>1. ~careless /\ sp' \in value
    BY <1>2
  <2>2. /\ regs = Names /\ regValue = Names /\ ~reported
        /\ Data \subseteq value /\ value \subseteq shadow
    BY <2>1 DEF ShadowInv, Clean
  <2>3. regs' = Names /\ regValue' = Names
    BY <1>1, <2>1, <2>2 DEF With, Names
  <2> QED
    BY <1>2, <1>5, <2>2, <2>3
<1> QED
  BY <1>8, <1>9, <1>10, <1>11 DEF ShadowInv

-----------------------------------------------------------------------------
LEMMA ReturnAddressOnStack ==
  ASSUME TypeOK, PushAddr
  PROVE  /\ sp' \in Stack /\ sp' \in Int /\ sp \in Int /\ sp' < sp
         /\ sp' + 1 .. sp \subseteq Stack
BY Sizes DEF TypeOK, PushAddr, Stack

(* Calls and interrupts: the bytes of the address are defined values.      *)
LEMMA PushAddrKeeps ==
  ASSUME ShadowInv, PushAddr
  PROVE  /\ TrustEarned' /\ Clean'
         /\ shadow' \subseteq Ram /\ value' \subseteq Ram
         /\ leaked' \subseteq shadow'
         /\ regs' \subseteq Names /\ regValue' \subseteq Names
         /\ careless' \in BOOLEAN /\ reported' \in BOOLEAN
         /\ value' = value \cup (sp' + 1 .. sp)
<1>1. /\ regs \subseteq regValue /\ regs \subseteq Names /\ regValue \subseteq Names
      /\ shadow \subseteq value \cup leaked /\ leaked \subseteq shadow
      /\ shadow \subseteq Ram /\ value \subseteq Ram
      /\ careless \in BOOLEAN /\ reported \in BOOLEAN
  BY DEF ShadowInv, TrustEarned, TypeOK
<1> DEFINE N == sp' + 1 .. sp
<1>2. N \subseteq Ram
  BY ReturnAddressOnStack DEF ShadowInv, Ram
<1>3. /\ shadow' = shadow \cup N /\ value' = value \cup N /\ leaked' = leaked \ N
      /\ regs' = regs /\ regValue' = regValue
      /\ careless' = careless /\ reported' = reported
  BY DEF PushAddr
<1> HIDE DEF N
<1>4. TrustEarned'
  BY <1>1, <1>3 DEF TrustEarned
<1>5. Clean'
  BY <1>3 DEF ShadowInv, Clean
<1> QED
  BY <1>1, <1>2, <1>3, <1>4, <1>5 DEF N

LEMMA CallKeeps == ShadowInv /\ Call => ShadowInv'
<1> SUFFICES ASSUME ShadowInv, Call PROVE ShadowInv'
  OBVIOUS
<1>1. /\ sp' \in Stack /\ sp' \in Int /\ sp \in Int /\ sp' < sp
      /\ sp' + 1 .. sp \subseteq Stack
  BY ReturnAddressOnStack DEF Call, ShadowInv
<1>2. stackframe_min_sp' = Lowest /\ latest' = sp' + 1 .. sp
  BY DEF Call
<1>3. Lowest \in Bottom .. Top + 1 /\ Lowest \in Int /\ Lowest <= sp
      /\ Lowest <= stackframe_min_sp /\ stackframe_min_sp \in Int
  BY Sizes, LowestLow DEF ShadowInv, TypeOK
<1>4. TypeOK'
  BY <1>1, <1>2, <1>3, PushAddrKeeps DEF Call, TypeOK
<1>5. Placed'
  <2> SUFFICES ASSUME NEW c \in value' \cap Stack
               PROVE  c >= stackframe_min_sp' \/ (c \in latest' /\ c > sp')
    BY DEF Placed
  <2>1. c \in Int
    BY Sizes DEF Stack
  <2>2. CASE c \in sp' + 1 .. sp
    <3>1. c \in latest'
      BY <2>2, <1>2
    <3>2. sp \in Int /\ sp' \in Int
      BY <1>1
    <3>3. c > sp'
      BY <2>2, <3>2, AboveStart
    <3> QED
      BY <3>1, <3>3
  <2>3. CASE c \notin sp' + 1 .. sp
    <3>1. c \in value
      BY <2>3, PushAddrKeeps DEF Call
    <3>2. c >= stackframe_min_sp \/ c > sp
      BY <3>1 DEF ShadowInv, Placed
    <3>3. QED
      <4>1. c >= Lowest
        BY <3>2, <2>1, <1>1, <1>3
      <4> QED
        BY <4>1, <1>2
  <2> QED
    BY <2>2, <2>3
<1> QED
  BY <1>4, <1>5, PushAddrKeeps DEF Call, ShadowInv

LEMMA InterruptKeeps == ShadowInv /\ Interrupt => ShadowInv'
<1> SUFFICES ASSUME ShadowInv, Interrupt PROVE ShadowInv'
  OBVIOUS
<1>1. /\ sp' \in Stack /\ sp' \in Int /\ sp \in Int /\ sp' < sp
      /\ sp' + 1 .. sp \subseteq Stack
  BY ReturnAddressOnStack DEF Interrupt, ShadowInv
<1>2. /\ stackframe_min_sp' = stackframe_min_sp
      /\ latest' = latest \cup (sp' + 1 .. sp)
      /\ latest \subseteq Stack /\ stackframe_min_sp \in Bottom .. Top + 1
  BY DEF Interrupt, ShadowInv, TypeOK
<1>3. latest' \subseteq Stack
  BY <1>1, <1>2
<1>4. TypeOK'
  BY <1>1, <1>2, <1>3, PushAddrKeeps DEF Interrupt, TypeOK
<1>5. Placed'
  <2> SUFFICES ASSUME NEW c \in value' \cap Stack
               PROVE  c >= stackframe_min_sp' \/ (c \in latest' /\ c > sp')
    BY DEF Placed
  <2>1. c \in Int
    BY Sizes DEF Stack
  <2>2. CASE c \in sp' + 1 .. sp
    <3>1. c \in latest'
      BY <2>2, <1>2
    <3>2. sp \in Int /\ sp' \in Int
      BY <1>1
    <3>3. c > sp'
      BY <2>2, <3>2, AboveStart
    <3> QED
      BY <3>1, <3>3
  <2>3. CASE c \notin sp' + 1 .. sp
    <3>1. c \in value
      BY <2>3, PushAddrKeeps DEF Interrupt
    <3>2. c >= stackframe_min_sp \/ (c \in latest /\ c > sp)
      BY <3>1 DEF ShadowInv, Placed
    <3>3. c > sp => c > sp'
      BY <2>1, <1>1
    <3> QED
      BY <3>2, <3>3, <1>2
  <2> QED
    BY <2>2, <2>3
<1> QED
  BY <1>4, <1>5, PushAddrKeeps DEF Interrupt, ShadowInv

-----------------------------------------------------------------------------
(* What both ways to return do to the stack.                               *)
LEMMA ReturnRaises ==
  ASSUME TypeOK, Return
  PROVE  /\ sp' \in Stack /\ sp' \in Int /\ sp \in Int /\ sp < sp'
         /\ value' \subseteq value
         /\ \A c \in value' \cap Stack : c > sp'
         /\ \A c \in value : c \in value' \/ (c \in Stack /\ c <= sp')
         /\ careless => careless'
         /\ careless' \in BOOLEAN
         /\ ~careless' => ReturnAddress \subseteq value
<1>1. sp' \in Stack /\ sp' \in Int /\ sp \in Int /\ sp < sp'
  BY Sizes DEF TypeOK, Return, Stack
<1>2. value' = {c \in value : c \in Static \/ c > sp'}
  BY DEF Return, StillHeld
<1>3. \A c \in Stack : c \notin Static
  BY Sizes DEF Stack, Static
<1>4. \A c \in value : c \in value' \/ (c \in Stack /\ c <= sp')
  <2> SUFFICES ASSUME NEW c \in value, c \notin value' PROVE c \in Stack /\ c <= sp'
    OBVIOUS
  <2>1. c \in Ram /\ c \notin Static /\ ~(c > sp')
    BY <1>2 DEF TypeOK
  <2>2. c \in Stack
    BY <2>1 DEF Ram
  <2>3. c \in Int
    BY <2>2, Sizes DEF Stack
  <2> QED
    BY <1>1, <2>1, <2>2, <2>3
<1>5. /\ careless => careless'
      /\ careless' \in BOOLEAN
      /\ ~careless' => ReturnAddress \subseteq value
  BY DEF Return, Reads, TypeOK
<1> QED
  BY <1>1, <1>2, <1>3, <1>4, <1>5

LEMMA RetKeeps == ShadowInv /\ Ret => ShadowInv'
<1> SUFFICES ASSUME ShadowInv, Ret PROVE ShadowInv'
  OBVIOUS
<1> USE DEF Ret
<1>1. /\ sp' \in Stack /\ sp' \in Int /\ sp \in Int /\ sp < sp'
      /\ value' \subseteq value
      /\ \A c \in value' \cap Stack : c > sp'
      /\ \A c \in value : c \in value' \/ (c \in Stack /\ c <= sp')
      /\ careless => careless'
      /\ careless' \in BOOLEAN
      /\ ~careless' => ReturnAddress \subseteq value
  BY ReturnRaises DEF ShadowInv
<1>2. /\ regs \subseteq regValue /\ regs \subseteq Names /\ regValue \subseteq Names
      /\ shadow \subseteq value \cup leaked /\ leaked \subseteq shadow
      /\ shadow \subseteq Ram /\ value \subseteq Ram
      /\ careless \in BOOLEAN /\ reported \in BOOLEAN
  BY DEF ShadowInv, TrustEarned, TypeOK
<1>3. /\ stackframe_min_sp' = sp /\ latest' = {}
      /\ reported' = (reported \/ ~(ReturnAddress \subseteq shadow))
  OBVIOUS
<1>4. /\ regs' \subseteq regValue' /\ regValue' \subseteq Names
      /\ regs = Names /\ regValue = Names => regs' = Names /\ regValue' = Names
  <2>1. CASE UNCHANGED <<regs, regValue>>
    BY <2>1, <1>2
  <2>2. CASE Compute({"SREG"}, {})
    <3>1. {"SREG"} \in SUBSET Names /\ {} \in SUBSET Names
      BY DEF Names
    <3> QED
      BY <3>1, <2>2, ComputeKeeps
  <2> QED
    BY <2>1, <2>2
<1> DEFINE K == Cleared(sp')
<1>5. shadow' = shadow \ K /\ leaked' = leaked \ K
  OBVIOUS
<1>6. Lowest \in Int /\ Lowest >= Bottom /\ Lowest <= sp
      /\ Lowest <= stackframe_min_sp /\ stackframe_min_sp \in Int
  BY Sizes, LowestLow DEF ShadowInv, TypeOK
<1>7. \A c \in value : c \notin value' => c \in K
  <2> SUFFICES ASSUME NEW c \in value, c \notin value' PROVE c \in K
    OBVIOUS
  <2>1. c \in Stack /\ c <= sp'
    BY <1>1
  <2>2. c \in Int
    BY <2>1, Sizes DEF Stack
  <2>3. c >= stackframe_min_sp \/ c > sp
    BY <2>1 DEF ShadowInv, Placed
  <2>4. c >= Lowest
    BY <2>2, <2>3, <1>1, <1>6
  <2> QED
    BY <2>1, <2>2, <2>4, <1>1, <1>6 DEF Cleared
<1>8. \A c \in value' : c \notin K
  <2> SUFFICES ASSUME NEW c \in value', c \in K PROVE FALSE
    OBVIOUS
  <2>1. c \in Int /\ c >= Bottom /\ c <= sp'
    BY Sizes, <1>1, <1>6 DEF Cleared
  <2>2. c \in Ram
    BY <1>1, <1>2
  <2>3. c \in Stack
    BY <2>1, <2>2, Sizes DEF Ram, Static
  <2> QED
    BY <2>1, <2>3, <1>1
<1> HIDE DEF K
<1>9. Data \cap Stack = {}
  BY Sizes DEF Static, Stack
<1>10. TrustEarned'
  BY <1>2, <1>4, <1>5, <1>7 DEF TrustEarned
<1>11. TypeOK'
  <2>1. sp \in Bottom .. Top + 1
    BY Sizes DEF ShadowInv, TypeOK, Stack
  <2>2. reported' \in BOOLEAN
    BY <1>2, <1>3
  <2>3. regs' \subseteq Names
    BY <1>4
  <2>4. shadow' \subseteq Ram /\ value' \subseteq Ram /\ leaked' \subseteq shadow'
    BY <1>1, <1>2, <1>5
  <2> HIDE DEF Ret
  <2> QED
    BY <1>1, <1>3, <1>4, <2>1, <2>2, <2>3, <2>4 DEF TypeOK
<1>12. Placed'
  <2> SUFFICES ASSUME NEW c \in value' \cap Stack PROVE c >= stackframe_min_sp'
    BY DEF Placed
  <2>1. c \in Int
    BY Sizes DEF Stack
  <2> QED
    BY <2>1, <1>1, <1>3
<1>13. Clean'
  <2> SUFFICES ASSUME ~careless'
               PROVE  /\ regs' = Names /\ regValue' = Names
                      /\ Data \subseteq value' /\ value' \subseteq shadow'
                      /\ ~reported'
    BY DEF Clean
  <2>1. ~careless /\ ReturnAddress \subseteq value
    BY <1>1
  <2>2. /\ regs = Names /\ regValue = Names /\ ~reported
        /\ Data \subseteq value /\ value \subseteq shadow
    BY <2>1 DEF ShadowInv, Clean
  <2>3. ~reported'
    BY <1>3, <2>1, <2>2
  <2>4. Data \subseteq value'
    BY <2>2, <1>1, <1>9
  <2>5. value' \subseteq shadow'
    BY <2>2, <1>1, <1>5, <1>8
  <2> QED
    BY <2>2, <2>3, <2>4, <2>5, <1>4
<1> HIDE DEF Ret
<1> QED
  BY <1>10, <1>11, <1>12, <1>13 DEF ShadowInv

LEMMA RunReturnKeeps == ShadowInv /\ RunReturn => ShadowInv'
<1> SUFFICES ASSUME ShadowInv, RunReturn PROVE ShadowInv'
  OBVIOUS
<1>1. /\ sp' \in Stack /\ sp' \in Int /\ sp \in Int /\ sp < sp'
      /\ value' \subseteq value
      /\ \A c \in value' \cap Stack : c > sp'
      /\ \A c \in value : c \in value' \/ (c \in Stack /\ c <= sp')
      /\ careless => careless'
      /\ careless' \in BOOLEAN
  BY ReturnRaises DEF ShadowInv, RunReturn
<1>2. /\ regs \subseteq regValue /\ regs \subseteq Names /\ regValue \subseteq Names
      /\ shadow \subseteq value \cup leaked /\ leaked \subseteq shadow
      /\ shadow \subseteq Ram /\ value \subseteq Ram
      /\ careless \in BOOLEAN /\ reported \in BOOLEAN
      /\ stackframe_min_sp \in Bottom .. Top + 1 /\ latest \subseteq Stack
  BY DEF ShadowInv, TrustEarned, TypeOK
<1>3. /\ stackframe_min_sp' = stackframe_min_sp /\ latest' = latest
      /\ shadow' = shadow /\ regs' = regs /\ regValue' = regValue
      /\ reported' = reported
      /\ leaked' = leaked \cup {c \in shadow \cap value : c \notin value'}
  BY DEF RunReturn, Return
<1>4. TypeOK'
  <2>1. value' \subseteq Ram /\ leaked' \subseteq shadow'
    BY <1>1, <1>2, <1>3
  <2> QED
    BY <1>1, <1>2, <1>3, <2>1 DEF TypeOK
<1>5. Placed'
  BY <1>1, <1>3 DEF ShadowInv, Placed
<1>6. TrustEarned'
  BY <1>2, <1>3 DEF TrustEarned
<1>7. Data \cap Stack = {}
  BY Sizes DEF Static, Stack
<1>8. Clean'
  BY <1>1, <1>3, <1>7 DEF ShadowInv, Clean
<1> QED
  BY <1>4, <1>5, <1>6, <1>8 DEF ShadowInv

LEMMA MoveSPKeeps == ShadowInv /\ MoveSP => ShadowInv'
<1> SUFFICES ASSUME ShadowInv, MoveSP PROVE ShadowInv'
  OBVIOUS
<1>1. PICK between \in Stack :
        stackframe_min_sp' = Lower(Lowest, between) /\ latest' = {}
  BY DEF MoveSP
<1>2. /\ stackframe_min_sp' \in Bottom .. Top + 1 /\ stackframe_min_sp' \in Int
      /\ stackframe_min_sp' <= Lowest
  BY <1>1, Sizes, LowestLow DEF ShadowInv, Lower, Stack
<1>3. /\ shadow' = shadow /\ value' = value /\ leaked' = leaked
      /\ regs' = regs /\ regValue' = regValue
      /\ careless' = careless /\ reported' = reported /\ sp' \in Stack
  BY DEF MoveSP, ramVars
<1>4. TypeOK'
  BY <1>1, <1>2, <1>3 DEF ShadowInv, TypeOK
<1>5. Placed'
  BY <1>2, <1>3, PlacedLater DEF ShadowInv
<1>6. TrustEarned' /\ Clean'
  BY <1>3 DEF ShadowInv, TrustEarned, Clean
<1> QED
  BY <1>4, <1>5, <1>6 DEF ShadowInv

-----------------------------------------------------------------------------
(* Whatever a reset does to the shadow map of the stack, it is well if no  *)
(* defined byte of the stack is forgotten about.                           *)
LEMMA ResetStep ==
  ASSUME ShadowInv, AvrReset,
         shadow' \subseteq shadow, leaked' \subseteq shadow',
         \A c \in Static : c \in shadow => c \in shadow',
         \A c \in shadow' : c \in leaked => c \in leaked',
         \A c \in shadow' \cap value : c \in Static \/ c \in leaked'
  PROVE  ShadowInv'
<1>1. /\ sp' = Top /\ stackframe_min_sp' = Top + 1 /\ latest' = {}
      /\ value' = value \cap Static /\ regs' = regs /\ regValue' = regValue
      /\ careless' = careless /\ reported' = reported
  BY DEF AvrReset, ResetSp
<1>2. /\ regs \subseteq regValue /\ regs \subseteq Names /\ regValue \subseteq Names
      /\ shadow \subseteq value \cup leaked
      /\ shadow \subseteq Ram /\ value \subseteq Ram
      /\ careless \in BOOLEAN /\ reported \in BOOLEAN
  BY DEF ShadowInv, TrustEarned, TypeOK
<1>3. Top \in Stack /\ Top + 1 \in Bottom .. Top + 1
  BY Sizes DEF Stack
<1>4. Stack \cap Static = {} /\ Data \subseteq Static
  BY Sizes DEF Static, Stack
<1>5. TypeOK'
  <2>1. shadow' \subseteq Ram /\ value' \subseteq Ram
    BY <1>1, <1>2
  <2> QED
    BY <1>1, <1>2, <1>3, <2>1 DEF TypeOK
<1>6. Placed'
  BY <1>1, <1>4 DEF Placed
<1>7. TrustEarned'
  BY <1>1, <1>2 DEF TrustEarned
<1>8. Clean'
  BY <1>1, <1>4 DEF ShadowInv, Clean
<1> QED
  BY <1>5, <1>6, <1>7, <1>8 DEF ShadowInv

LEMMA FuzzResetKeeps == ShadowInv /\ FuzzReset => ShadowInv'
<1> SUFFICES ASSUME ShadowInv, FuzzReset PROVE ShadowInv'
  OBVIOUS
<1>1. /\ shadow' = shadow \ Forgotten
      /\ leaked' = (leaked \cup (shadow \cap value \cap latest)) \ Forgotten
  BY DEF FuzzReset
<1>2. /\ leaked \subseteq shadow /\ shadow \subseteq Ram
      /\ stackframe_min_sp \in Int /\ stackframe_min_sp >= Bottom
  BY Sizes DEF ShadowInv, TypeOK
<1>3. shadow' \subseteq shadow /\ leaked' \subseteq shadow'
  BY <1>1, <1>2
<1>4. \A c \in Static : c \notin Forgotten
  BY <1>2, Sizes DEF Static, Forgotten
<1>5. \A c \in shadow' \cap value : c \in Static \/ c \in leaked'
  <2> SUFFICES ASSUME NEW c \in shadow' \cap value, c \notin Static
               PROVE  c \in leaked'
    OBVIOUS
  <2>1. c \in shadow /\ c \in Stack /\ c \notin Forgotten
    BY <1>1, <1>2 DEF Ram
  <2>2. ~(c >= stackframe_min_sp)
    BY <2>1, <1>2 DEF Forgotten
  <2>3. c \in latest
    BY <2>1, <2>2 DEF ShadowInv, Placed
  <2> QED
    BY <1>1, <2>1, <2>3
<1>6. \A c \in Static : c \in shadow => c \in shadow'
  BY <1>1, <1>4
<1>7. \A c \in shadow' : c \in leaked => c \in leaked'
  BY <1>1
<1> QED
  BY <1>3, <1>5, <1>6, <1>7, ResetStep DEF FuzzReset

LEMMA DoResetKeeps == ShadowInv /\ DoReset => ShadowInv'
<1> SUFFICES ASSUME ShadowInv, DoReset PROVE ShadowInv'
  OBVIOUS
<1>1. /\ shadow' = shadow
      /\ leaked' = leaked \cup (shadow \cap value \cap Stack)
  BY DEF DoReset
<1>2. leaked \subseteq shadow /\ shadow \subseteq Ram
  BY DEF ShadowInv, TypeOK
<1>3. leaked' \subseteq shadow'
  BY <1>1, <1>2
<1>4. \A c \in shadow' \cap value : c \in Static \/ c \in leaked'
  BY <1>1, <1>2 DEF Ram
<1> QED
  BY <1>1, <1>3, <1>4, ResetStep DEF DoReset

-----------------------------------------------------------------------------
LEMMA ShadowInit == Init => ShadowInv
<1> SUFFICES ASSUME Init PROVE ShadowInv
  OBVIOUS
<1>1. /\ sp = Top /\ stackframe_min_sp = Top + 1
      /\ shadow = Data /\ regs = Names /\ value = Data /\ regValue = Names
      /\ leaked = {} /\ latest = {} /\ careless = FALSE /\ reported = FALSE
  BY DEF Init
<1>2. Top \in Stack /\ Top + 1 \in Bottom .. Top + 1
  BY Sizes DEF Stack
<1>3. Data \subseteq Ram /\ Data \cap Stack = {}
  BY Sizes DEF Ram, Static, Stack
<1>4. TypeOK
  BY <1>1, <1>2, <1>3 DEF TypeOK
<1>5. Placed
  BY <1>1, <1>3 DEF Placed
<1>6. TrustEarned /\ Clean
  BY <1>1 DEF TrustEarned, Clean
<1> QED
  BY <1>4, <1>5, <1>6 DEF ShadowInv

LEMMA ShadowNext == ShadowInv /\ [Next]_vars => ShadowInv'
<1> SUFFICES ASSUME ShadowInv, [Next]_vars PROVE ShadowInv'
  OBVIOUS
<1>1. CASE Next
  <2>1. CASE Arithmetic \/ Mask \/ SubtractEqual \/ Bld \/ Mov \/ Movw \/ Decide
    BY <2>1, ArithmeticKeeps, MaskKeeps, SubtractEqualKeeps, BldKeeps,
       MovKeeps, MovwKeeps, DecideKeeps
  <2>2. CASE Load \/ LoadBlindly \/ Store \/ SetBit \/ WriteToRam
    BY <2>2, LoadKeeps, LoadBlindlyKeeps, StoreKeeps, SetBitKeeps, WriteToRamKeeps
  <2>3. CASE Push \/ Pop \/ Call \/ Interrupt \/ Ret \/ RunReturn \/ MoveSP
    BY <2>3, PushKeeps, PopKeeps, CallKeeps, InterruptKeeps, RetKeeps,
       RunReturnKeeps, MoveSPKeeps
  <2>4. CASE FuzzReset \/ DoReset
    BY <2>4, FuzzResetKeeps, DoResetKeeps
  <2> QED
    BY <1>1, <2>1, <2>2, <2>3, <2>4 DEF Next
<1>2. CASE UNCHANGED vars
  BY <1>2 DEF vars, ShadowInv, TypeOK, Placed, TrustEarned, Clean
<1> QED
  BY <1>1, <1>2

LEMMA ShadowInvHolds == Spec => []ShadowInv
BY ShadowInit, ShadowNext, PTL DEF Spec

(* SP stays within the stack and stackframe_min_sp within it or one above, *)
(* and only bytes of the RAM are ever marked (the updates of avr_run_one). *)
THEOREM ShadowTyped == Spec => []TypeOK
<1>1. ShadowInv => TypeOK
  BY DEF ShadowInv
<1> QED
  BY <1>1, ShadowInvHolds, PTL

(* Firmware that reads only bytes it has put something into is never       *)
(* reported, for every memory layout and set of registers.                 *)
THEOREM NoFalseReport == Spec => []ReportsEarned
<1>1. ShadowInv => ReportsEarned
  BY DEF ShadowInv, TypeOK, Clean, ReportsEarned
<1> QED
  BY <1>1, ShadowInvHolds, PTL

(* What is marked as defined holds a value of a function that has not      *)
(* returned, or is one of the bytes run_return_instruction and resets      *)
(* leave behind.                                                           *)
THEOREM NoFalseTrust == Spec => []TrustEarned
<1>1. ShadowInv => TrustEarned
  BY DEF ShadowInv
<1> QED
  BY <1>1, ShadowInvHolds, PTL
=============================================================================
