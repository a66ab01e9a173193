---------------------------- MODULE Uart_proofs ----------------------------
(***************************************************************************)
(* Theorems about Uart, for every value of its constants.                  *)
(***************************************************************************)
EXTENDS Uart, CycleTimers_proofs

Types ==
  /\ {rxen, txen, udrie, rxc, txc, udre, dor, off, acted} \subseteq BOOLEAN
  /\ input \in 0 .. Capacity /\ rx_cnt \in 0 .. 2 /\ tx_cnt \in 0 .. CountMod - 1
  /\ cycles_per_byte \in ByteCycles
  /\ xoff \in {"init", "on", "off"}

(* A pump is needed: then its timer has been asked for.                    *)
PumpsWanted ==
  /\ rxen /\ input > 0 => "rxc" \in wanted
  /\ txen /\ ~udre => "txc" \in wanted

(* What makes the flow control hold: a full fifo means that the other end  *)
(* was told, and XOFF stays up until it is told to go on.                  *)
Told ==
  /\ ~rxen => input = 0
  /\ rxen /\ Full(input) => off
  /\ xoff = "on" => off

UartInv == PoolInv /\ Types /\ PumpsWanted /\ Told /\ FlowControl /\ RxcHonest

LEMMA ConstantFacts ==
  /\ "rxc" \in Timers /\ "txc" \in Timers /\ "other" \in Timers
  /\ Capacity \in Nat \ {0} /\ CountMod \in Nat \ {0}
  /\ \A c \in ByteCycles : c \in Nat \ {0}
  /\ \A d \in Delays : d \in Int
BY UartAssumption, TimerAssumption

(* A timer whose status is given is in the list, so it is wanted.          *)
LEMMA StatusMeansWanted ==
  ASSUME PoolInv, NEW t, Status(t)
  PROVE  t \in wanted
BY DEF Status, PoolInv, IInv, Scheduled, Ids

-----------------------------------------------------------------------------
(* A burst starts the pump or finds it running.                            *)
LEMMA BurstStarts ==
  ASSUME PoolInv, Types, ~dor, phase = "run", NEW n \in 0 .. Capacity, Burst(n)
  PROVE  /\ PoolInv' /\ wanted \subseteq wanted'
         /\ input' = n /\ dor' = FALSE /\ rx_cnt' \in 0 .. 2
         /\ n > 0 => "rxc" \in wanted'
<1>1. CASE n > 0 /\ ~Status("rxc")
  <2>1. Register("rxc", cycles_per_byte) /\ rx_cnt' = 0 /\ dor' = FALSE /\ input' = n
    BY <1>1 DEF Burst
  <2>2. cycles_per_byte \in Nat \ {0} /\ "rxc" \in Timers
    BY ConstantFacts DEF Types
  <2>3. PoolInv' /\ wanted' = wanted \cup {"rxc"}
    BY <2>1, <2>2, PoolRegister
  <2> QED
    BY <2>1, <2>3
<1>2. CASE ~(n > 0 /\ ~Status("rxc"))
  <2>1. UNCHANGED <<timers, rx_cnt, dor>> /\ input' = n
    BY <1>2 DEF Burst
  <2>2. PoolInv' /\ wanted' = wanted
    BY <2>1, PoolUnchanged DEF timers
  <2>3. n > 0 => "rxc" \in wanted
    BY <1>2, StatusMeansWanted
  <2> QED
    BY <2>1, <2>2, <2>3 DEF Types
<1> QED
  BY <1>1, <1>2

(* After XON the other end is off exactly if it has filled the fifo.       *)
LEMMA XonTells ==
  ASSUME NEW n, Xon(n)
  PROVE  /\ xoff' \in {"on", "off"} /\ off' \in BOOLEAN
         /\ off' <=> Full(n)
         /\ xoff' = "on" => off'
BY DEF Xon, XoffCleared

LEMMA XoffTells ==
  ASSUME Types, Told, Xoff
  PROVE  xoff' = "on" /\ off' = TRUE
BY DEF Types, Told, Xoff

-----------------------------------------------------------------------------
LEMMA PeerSendsKeeps ==
  ASSUME UartInv, PeerSends
  PROVE  UartInv'
<1>1. /\ ~off /\ rxen /\ ~dor /\ input \in 0 .. Capacity /\ ~Full(input)
      /\ UNCHANGED <<rxen, rxc, txen, udrie, txc, udre, tx_cnt, cycles_per_byte, acted>>
  BY DEF PeerSends, UartInv, Types, Told, FlowControl, sender
<1>2. /\ PoolInv' /\ wanted \subseteq wanted' /\ "rxc" \in wanted'
      /\ dor' = FALSE /\ rx_cnt' \in 0 .. 2
  <2>1. CASE input = 0 /\ ~Status("rxc")
    <3>1. Register("rxc", cycles_per_byte) /\ rx_cnt' = 0 /\ dor' = FALSE
      BY <2>1 DEF PeerSends
    <3>2. phase = "callback" => firing[1].id # "rxc"
      BY DEF PeerSends
    <3>3. cycles_per_byte \in Nat \ {0} /\ "rxc" \in Timers
      BY ConstantFacts DEF UartInv, Types
    <3>4. PoolInv' /\ wanted' = wanted \cup {"rxc"}
      BY <3>1, <3>2, <3>3, PoolRegister DEF UartInv
    <3> QED
      BY <3>1, <3>4
  <2>2. CASE ~(input = 0 /\ ~Status("rxc"))
    <3>1. dor' = (dor \/ Full(input)) /\ UNCHANGED <<timers, rx_cnt>>
      BY <2>2 DEF PeerSends
    <3>2. PoolInv' /\ wanted' = wanted
      BY <3>1, PoolUnchanged DEF timers, UartInv
    <3>3. "rxc" \in wanted
      <4>1. CASE input = 0
        BY <2>2, <4>1, StatusMeansWanted DEF UartInv
      <4>2. CASE input # 0
        <5>1. input > 0
          BY <1>1, <4>2
        <5> QED
          BY <1>1, <5>1 DEF UartInv, PumpsWanted
      <4> QED
        BY <4>1, <4>2
    <3>4. dor' = FALSE
      BY <1>1, <3>1 DEF UartInv, Types
    <3> QED
      BY <3>1, <3>2, <3>3, <3>4 DEF UartInv, Types
  <2> QED
    BY <2>1, <2>2
<1>3. input' = input + 1 /\ input' \in 0 .. Capacity /\ input' > 0
  <2>1. input' = input + 1
    BY <1>2 DEF PeerSends
  <2> QED
    BY <1>1, <2>1, ConstantFacts DEF Full
<1>4. /\ xoff' \in {"init", "on", "off"} /\ off' \in BOOLEAN
      /\ Full(input') => off'
      /\ xoff' = "on" => off'
  <2>1. CASE Full(input')
    <3>1. Xoff
      BY <2>1 DEF PeerSends
    <3> QED
      BY <3>1, XoffTells DEF UartInv
  <2>2. CASE ~Full(input')
    <3>1. UNCHANGED <<xoff, off>>
      BY <2>2 DEF PeerSends, flow
    <3> QED
      BY <2>2, <3>1 DEF UartInv, Types, Told
  <2> QED
    BY <2>1, <2>2
<1>5. Types'
  BY <1>1, <1>2, <1>3, <1>4 DEF UartInv, Types
<1>6. PumpsWanted'
  BY <1>1, <1>2 DEF UartInv, PumpsWanted
<1>7. Told' /\ FlowControl' /\ RxcHonest'
  BY <1>1, <1>2, <1>3, <1>4 DEF UartInv, Told, FlowControl, RxcHonest, Full
<1> QED
  BY <1>2, <1>5, <1>6, <1>7 DEF UartInv

(* Reading the last byte may stop the pump and start it again.             *)
LEMMA ReadKeeps ==
  ASSUME UartInv, Read
  PROVE  UartInv'
<1> DEFINE Taken == rxen /\ rxc /\ input > 0
           Rest == IF Taken THEN input - 1 ELSE input
           Count == IF Taken /\ rx_cnt < 2 THEN rx_cnt + 1 ELSE rx_cnt
           Left(tooFast) == IF tooFast THEN 0 ELSE Count
<1>1. PICK tooFast \in BOOLEAN :
        IF Rest = 0
        THEN \E n \in Bursts :
               /\ Emptied(n, Left(tooFast)) /\ input' = n /\ rxc' = FALSE /\ dor' = FALSE
               /\ Xon(n)
        ELSE /\ input' = Rest /\ rx_cnt' = Left(tooFast) /\ rxc' = (rxc /\ ~tooFast)
             /\ dor' = (dor /\ Full(Rest))
             /\ UNCHANGED <<timers, flow>>
  BY DEF Read
<1>2. /\ phase = "run" /\ acted' = TRUE
      /\ UNCHANGED <<rxen, txen, udrie, txc, udre, tx_cnt, cycles_per_byte>>
  BY DEF Read, Act, sender
<1>3. /\ Rest \in 0 .. Capacity /\ Left(tooFast) \in 0 .. 2
      /\ input \in Nat /\ rx_cnt \in 0 .. 2
  <2>1. input \in 0 .. Capacity /\ rx_cnt \in 0 .. 2 /\ Capacity \in Nat
    BY ConstantFacts DEF UartInv, Types
  <2>2. Rest \in 0 .. Capacity
    BY <2>1
  <2>3. Count \in 0 .. 2
    BY <2>1
  <2> QED
    BY <2>1, <2>2, <2>3
<1>4. Rest # 0 /\ ~Taken => Rest = input
  OBVIOUS
<1>5. Rest # 0 /\ Taken => rxen /\ input > 0 /\ Rest = input - 1
  OBVIOUS
<1> HIDE DEF Rest, Left
<1>6. CASE Rest = 0
  <2>1. PICK n \in Bursts :
          /\ Emptied(n, Left(tooFast)) /\ input' = n /\ rxc' = FALSE /\ dor' = FALSE
          /\ Xon(n)
    BY <1>1, <1>6
  <2>2. n \in 0 .. Capacity /\ (~rxen => n = 0)
    BY <1>2, ConstantFacts DEF Bursts
  <2>3. PoolInv' /\ wanted \ {"rxc"} \subseteq wanted' /\ (n > 0 => "rxc" \in wanted')
    <3>1. CASE n > 0
      <4>1. Register("rxc", cycles_per_byte)
        BY <2>1, <3>1 DEF Emptied
      <4>2. cycles_per_byte \in Nat \ {0} /\ "rxc" \in Timers
        BY ConstantFacts DEF UartInv, Types
      <4>3. PoolInv' /\ wanted' = wanted \cup {"rxc"}
        BY <1>2, <4>1, <4>2, PoolRegister DEF UartInv
      <4> QED
        BY <4>3
    <3>2. CASE ~(n > 0)
      <4>1. Cancel("rxc")
        BY <2>1, <3>2 DEF Emptied
      <4>2. PoolInv' /\ wanted' = wanted \ {"rxc"}
        BY <4>1, PoolCancel, ConstantFacts DEF UartInv
      <4> QED
        BY <3>2, <4>2
    <3> QED
      BY <3>1, <3>2
  <2>4. rx_cnt' \in 0 .. 2
    BY <1>3, <2>1 DEF Emptied
  <2>5. /\ xoff' \in {"on", "off"} /\ off' \in BOOLEAN
        /\ off' <=> Full(n)
        /\ xoff' = "on" => off'
    BY <2>1, XonTells
  <2>6. Types'
    BY <1>2, <2>1, <2>2, <2>4, <2>5 DEF UartInv, Types
  <2>7. PumpsWanted'
    BY <1>2, <2>1, <2>3 DEF UartInv, PumpsWanted
  <2>8. Full(n) => n > 0
    BY ConstantFacts DEF Full
  <2>9. Told' /\ FlowControl' /\ RxcHonest'
    BY <1>2, <2>1, <2>2, <2>5, <2>8 DEF UartInv, Told, FlowControl, RxcHonest, Full
  <2> QED
    BY <2>3, <2>6, <2>7, <2>9 DEF UartInv
<1>7. CASE Rest # 0
  <2>1. /\ input' = Rest /\ rx_cnt' = Left(tooFast) /\ rxc' = (rxc /\ ~tooFast)
        /\ dor' = (dor /\ Full(Rest)) /\ UNCHANGED <<timers, flow>>
    BY <1>1, <1>7
  <2>2. PoolInv' /\ wanted' = wanted
    BY <2>1, PoolUnchanged DEF timers, UartInv
  <2>3. /\ UNCHANGED <<xoff, off>> /\ ~dor /\ dor' = FALSE
        /\ rxc' \in BOOLEAN /\ (rxc' => rxc)
    BY <2>1 DEF flow, UartInv, FlowControl, Types
  <2>4. input' > 0 /\ input > 0 /\ (Full(input') => Full(input))
    <3>1. Rest \in Nat /\ Rest > 0
      BY <1>3, <1>7
    <3>2. ~Taken => Rest = input
      BY <1>4, <1>7
    <3>3. Taken => input > 0 /\ Rest = input - 1
      BY <1>5, <1>7
    <3>4. input \in 0 .. Capacity
      BY DEF UartInv, Types
    <3>5. Full(Rest) => Full(input)
      BY <1>3, <3>1, <3>2, <3>3, <3>4, ConstantFacts DEF Full
    <3> QED
      BY <2>1, <3>1, <3>2, <3>3, <3>5
  <2>5. Types'
    BY <1>2, <1>3, <2>1, <2>3 DEF UartInv, Types
  <2>6. PumpsWanted'
    BY <1>2, <2>2, <2>4 DEF UartInv, PumpsWanted
  <2>7. input # 0
    BY <1>3, <2>4
  <2>8. rxen
    BY <2>7 DEF UartInv, Told
  <2>9. Told' /\ FlowControl' /\ RxcHonest'
    BY <1>2, <2>3, <2>4, <2>8 DEF UartInv, Told, FlowControl, RxcHonest
  <2> QED
    BY <2>2, <2>5, <2>6, <2>9 DEF UartInv
<1> QED
  BY <1>6, <1>7

LEMMA StatusReadKeeps ==
  ASSUME UartInv, StatusRead
  PROVE  UartInv'
<1>1. PICK n \in Bursts : Burst(n) /\ Xon(input')
  BY DEF StatusRead
<1>2. /\ phase = "run" /\ acted' = TRUE /\ rxen /\ input = 0
      /\ UNCHANGED <<rxen, rxc, txen, udrie, txc, udre, tx_cnt, cycles_per_byte>>
  BY DEF StatusRead, Act, sender
<1>3. n \in 0 .. Capacity
  BY ConstantFacts DEF Bursts
<1>4. ~dor /\ ~rxc
  BY <1>2 DEF UartInv, FlowControl, RxcHonest
<1>5. /\ PoolInv' /\ wanted \subseteq wanted' /\ input' = n /\ dor' = FALSE
      /\ rx_cnt' \in 0 .. 2 /\ (n > 0 => "rxc" \in wanted')
  BY <1>1, <1>2, <1>3, <1>4, BurstStarts DEF UartInv
<1>6. /\ xoff' \in {"on", "off"} /\ off' \in BOOLEAN
      /\ off' <=> Full(n)
      /\ xoff' = "on" => off'
  BY <1>1, <1>5, XonTells
<1>7. Full(n) => n > 0
  BY ConstantFacts DEF Full
<1>8. Types'
  BY <1>2, <1>3, <1>5, <1>6 DEF UartInv, Types
<1>9. PumpsWanted'
  BY <1>2, <1>5 DEF UartInv, PumpsWanted
<1>10. Told' /\ FlowControl' /\ RxcHonest'
  BY <1>2, <1>4, <1>5, <1>6, <1>7 DEF Told, FlowControl, RxcHonest, Full
<1> QED
  BY <1>5, <1>8, <1>9, <1>10 DEF UartInv

(* A byte to send starts the pump or finds it running.                     *)
LEMMA UdrWriteKeeps ==
  ASSUME UartInv, UdrWrite
  PROVE  UartInv'
<1>1. /\ phase = "run" /\ acted' = TRUE /\ udre' = FALSE
      /\ UNCHANGED <<txen, udrie, txc, rxen, rxc, dor, input, rx_cnt, xoff, off,
                     cycles_per_byte>>
  BY DEF UdrWrite, Act, receiver, flow
<1>2. tx_cnt' \in 0 .. CountMod - 1
  <2>1. tx_cnt \in 0 .. CountMod - 1 /\ CountMod \in Nat \ {0}
    BY ConstantFacts DEF UartInv, Types
  <2>2. (tx_cnt + 1) % CountMod \in 0 .. CountMod - 1
    BY <2>1
  <2> QED
    BY <2>1, <2>2 DEF UdrWrite
<1>3. PoolInv' /\ wanted \subseteq wanted' /\ (txen => "txc" \in wanted')
  <2>1. CASE txen /\ ~Status("txc")
    <3>1. Register("txc", cycles_per_byte)
      BY <2>1 DEF UdrWrite
    <3>2. cycles_per_byte \in Nat \ {0} /\ "txc" \in Timers
      BY ConstantFacts DEF UartInv, Types
    <3>3. PoolInv' /\ wanted' = wanted \cup {"txc"}
      BY <1>1, <3>1, <3>2, PoolRegister DEF UartInv
    <3> QED
      BY <3>3
  <2>2. CASE ~(txen /\ ~Status("txc"))
    <3>1. UNCHANGED timers
      BY <2>2 DEF UdrWrite
    <3>2. PoolInv' /\ wanted' = wanted
      BY <3>1, PoolUnchanged DEF timers, UartInv
    <3>3. txen => "txc" \in wanted
      BY <2>2, StatusMeansWanted DEF UartInv
    <3> QED
      BY <3>2, <3>3
  <2> QED
    BY <2>1, <2>2
<1>4. Types'
  BY <1>1, <1>2 DEF UartInv, Types
<1>5. PumpsWanted'
  BY <1>1, <1>3 DEF UartInv, PumpsWanted
<1>6. Told' /\ FlowControl' /\ RxcHonest'
  BY <1>1 DEF UartInv, Told, FlowControl, RxcHonest, Full
<1> QED
  BY <1>3, <1>4, <1>5, <1>6 DEF UartInv

(* Switching the receiver on starts the other end, switching it off drops  *)
(* the input together with its pump.                                       *)
LEMMA WriteBKeeps ==
  ASSUME UartInv, WriteB
  PROVE  UartInv'
<1>1. /\ phase = "run" /\ acted' = TRUE
      /\ rxen' \in BOOLEAN /\ txen' \in BOOLEAN /\ udrie' \in BOOLEAN
      /\ udre' \in BOOLEAN /\ (txen' /\ ~udre' => txen /\ ~udre)
      /\ UNCHANGED <<txc, tx_cnt, cycles_per_byte>> /\ ReceiverSwitched
  BY DEF WriteB, Act, UartInv, Types
<1>2. /\ PoolInv' /\ wanted \ {"rxc"} \subseteq wanted'
      /\ rx_cnt' \in 0 .. 2 /\ input' \in 0 .. Capacity /\ dor' = FALSE
      /\ rxc' \in BOOLEAN /\ off' \in BOOLEAN /\ xoff' \in {"init", "on", "off"}
      /\ rxen' /\ input' > 0 => "rxc" \in wanted'
      /\ Told' /\ FlowControl' /\ RxcHonest'
  <2>0. /\ ~dor /\ dor = FALSE /\ (rxc => rxen /\ input > 0) /\ (~rxen => input = 0)
        /\ input \in 0 .. Capacity /\ rx_cnt \in 0 .. 2 /\ rxc \in BOOLEAN
        /\ rxen \in BOOLEAN
    BY DEF UartInv, Types, FlowControl, RxcHonest, Told
  <2>1. CASE rxen' /\ ~rxen /\ input = 0
    <3>1. (\E n \in Bursts : Burst(n) /\ Xon(input')) /\ UNCHANGED rxc
      BY <1>1, <2>1 DEF ReceiverSwitched
    <3>2. PICK n \in Bursts : Burst(n) /\ Xon(input')
      BY <3>1
    <3>3. n \in 0 .. Capacity
      BY <2>1, ConstantFacts DEF Bursts
    <3>4. /\ PoolInv' /\ wanted \subseteq wanted' /\ input' = n /\ dor' = FALSE
          /\ rx_cnt' \in 0 .. 2 /\ (n > 0 => "rxc" \in wanted')
      BY <1>1, <2>0, <3>2, <3>3, BurstStarts DEF UartInv
    <3>5. /\ xoff' \in {"on", "off"} /\ off' \in BOOLEAN
          /\ off' <=> Full(n)
          /\ xoff' = "on" => off'
      BY <3>2, <3>4, XonTells
    <3>6. Full(n) => n > 0
      BY ConstantFacts DEF Full
    <3>7. Told' /\ FlowControl' /\ RxcHonest'
      BY <2>0, <2>1, <3>1, <3>4, <3>5, <3>6 DEF Told, FlowControl, RxcHonest, Full
    <3> QED
      BY <2>0, <3>1, <3>3, <3>4, <3>5, <3>7
  <2>2. CASE ~rxen' /\ rxen
    <3>1. /\ Xoff /\ Cancel("rxc") /\ input' = 0 /\ rxc' = FALSE
          /\ UNCHANGED <<rx_cnt, dor>>
      BY <1>1, <2>2 DEF ReceiverSwitched
    <3>2. PoolInv' /\ wanted' = wanted \ {"rxc"}
      BY <3>1, PoolCancel, ConstantFacts DEF UartInv
    <3>3. xoff' = "on" /\ off' = TRUE
      BY <3>1, XoffTells DEF UartInv
    <3>4. Told' /\ FlowControl' /\ RxcHonest'
      BY <2>0, <2>2, <3>1, <3>3 DEF Told, FlowControl, RxcHonest
    <3>5. input' \in 0 .. Capacity
      BY <3>1, ConstantFacts
    <3> QED
      BY <2>0, <2>2, <3>1, <3>2, <3>3, <3>4, <3>5
  <2>3. CASE ~(rxen' /\ ~rxen /\ input = 0) /\ ~(~rxen' /\ rxen)
    <3>1. UNCHANGED <<timers, flow, input, rxc, rx_cnt, dor>>
      BY <1>1, <2>3 DEF ReceiverSwitched
    <3>2. UNCHANGED <<input, rxc, rx_cnt, dor, xoff, off>>
      BY <3>1 DEF flow
    <3>3. PoolInv' /\ wanted' = wanted
      BY <3>1, PoolUnchanged DEF timers, UartInv
    <3>4. rxen' = rxen
      BY <1>1, <2>0, <2>3
    <3>5. Told' /\ FlowControl' /\ RxcHonest'
      BY <3>2, <3>4 DEF UartInv, Told, FlowControl, RxcHonest, Full
    <3> QED
      BY <2>0, <3>2, <3>3, <3>4, <3>5 DEF UartInv, Types, PumpsWanted
  <2> QED
    BY <2>1, <2>2, <2>3
<1>3. Types'
  BY <1>1, <1>2 DEF UartInv, Types
<1>4. PumpsWanted'
  BY <1>1, <1>2 DEF UartInv, PumpsWanted
<1> QED
  BY <1>2, <1>3, <1>4 DEF UartInv

-----------------------------------------------------------------------------
(* Steps that leave the port alone may cost another timer, not its own.    *)
LEMMA PortKept ==
  ASSUME UartInv, PoolInv', wanted \ {"other"} \subseteq wanted',
         UNCHANGED <<receiver, sender, flow, cycles_per_byte>>, acted' \in BOOLEAN
  PROVE  UartInv'
<1>1. UNCHANGED <<rxen, rxc, dor, input, rx_cnt, txen, udrie, txc, udre, tx_cnt, xoff, off,
                  cycles_per_byte>>
  BY DEF receiver, sender, flow
<1>2. Types'
  BY <1>1 DEF UartInv, Types
<1>3. PumpsWanted'
  BY <1>1 DEF UartInv, PumpsWanted
<1>4. Told' /\ FlowControl' /\ RxcHonest'
  BY <1>1 DEF UartInv, Told, FlowControl, RxcHonest, Full
<1> QED
  BY <1>2, <1>3, <1>4 DEF UartInv

LEMMA WriteAKeeps ==
  ASSUME UartInv, WriteA \/ ServeTxc
  PROVE  UartInv'
<1>1. /\ UNCHANGED <<timers, rxen, rxc, input, rx_cnt, txen, udrie, udre, tx_cnt, flow,
                     cycles_per_byte>>
      /\ acted' \in BOOLEAN /\ dor' = FALSE /\ txc' \in BOOLEAN
  BY DEF WriteA, ServeTxc, Act, receiver, UartInv, Types, FlowControl
<1>2. UNCHANGED <<xoff, off>>
  BY <1>1 DEF flow
<1>3. PoolInv' /\ wanted' = wanted
  BY <1>1, PoolUnchanged DEF timers, UartInv
<1>4. Types'
  BY <1>1, <1>2 DEF UartInv, Types
<1>5. PumpsWanted'
  BY <1>1, <1>3 DEF UartInv, PumpsWanted
<1>6. Told' /\ FlowControl' /\ RxcHonest'
  BY <1>1, <1>2 DEF UartInv, Told, FlowControl, RxcHonest, Full
<1> QED
  BY <1>3, <1>4, <1>5, <1>6 DEF UartInv

LEMMA BaudWriteKeeps ==
  ASSUME UartInv, BaudWrite
  PROVE  UartInv'
<1>1. /\ cycles_per_byte' \in ByteCycles /\ acted' \in BOOLEAN
      /\ UNCHANGED <<timers, rxen, rxc, dor, input, rx_cnt, txen, udrie, txc, udre, tx_cnt,
                     xoff, off>>
  BY DEF BaudWrite, Act, receiver, sender, flow
<1>2. PoolInv' /\ wanted' = wanted
  BY <1>1, PoolUnchanged DEF timers, UartInv
<1>3. Types'
  BY <1>1 DEF UartInv, Types
<1>4. PumpsWanted'
  BY <1>1, <1>2 DEF UartInv, PumpsWanted
<1>5. Told' /\ FlowControl' /\ RxcHonest'
  BY <1>1 DEF UartInv, Told, FlowControl, RxcHonest, Full
<1> QED
  BY <1>2, <1>3, <1>4, <1>5 DEF UartInv

LEMMA OtherTimerKeeps ==
  ASSUME UartInv, OtherTimer
  PROVE  UartInv'
<1>1. PoolInv' /\ wanted \ {"other"} \subseteq wanted'
  <2>1. ASSUME NEW d \in Delays, Ask("other", d)
        PROVE  PoolInv' /\ wanted' = wanted \cup {"other"}
    <3>1. /\ d \in Int /\ phase = "run" /\ "other" \in Timers
          /\ Register("other", d)
      BY <2>1, ConstantFacts DEF OtherTimer, Act, Ask
    <3> QED
      BY <2>1, <3>1, PoolRegister DEF UartInv
  <2>2. ASSUME Cancel("other")
        PROVE  PoolInv' /\ wanted' = wanted \ {"other"}
    BY <2>2, ConstantFacts, PoolCancel DEF UartInv
  <2> QED
    BY <2>1, <2>2 DEF OtherTimer
<1>2. acted' \in BOOLEAN /\ UNCHANGED <<receiver, sender, flow, cycles_per_byte>>
  BY DEF OtherTimer, Act
<1> QED
  BY <1>1, <1>2, PortKept

LEMMA UartResetKeeps ==
  ASSUME UartInv, UartReset
  PROVE  UartInv'
<1>1. /\ rxen' = FALSE /\ rxc' = FALSE /\ dor' = FALSE /\ input' = 0
      /\ txen' = TRUE /\ udrie' = FALSE /\ txc' = FALSE /\ udre' = TRUE /\ tx_cnt' = 0
      /\ cycles_per_byte' = ResetCycles /\ acted' = TRUE
      /\ UNCHANGED <<rx_cnt, xoff, off>>
  BY DEF UartReset, Act, flow
<1>2. PoolInv'
  BY PoolReset DEF UartReset, UartInv
<1>3. Types'
  <2>1. 0 \in 0 .. Capacity /\ 0 \in 0 .. CountMod - 1 /\ ResetCycles \in ByteCycles
    BY ConstantFacts, UartAssumption
  <2> QED
    BY <1>1, <2>1 DEF UartInv, Types
<1>4. PumpsWanted' /\ Told' /\ FlowControl' /\ RxcHonest'
  BY <1>1 DEF UartInv, PumpsWanted, Told, FlowControl, RxcHonest
<1> QED
  BY <1>2, <1>3, <1>4 DEF UartInv

-----------------------------------------------------------------------------
(* The answers of the two pumps: a byte from now, or none.                 *)
LEMMA PumpAnswers ==
  ASSUME UartInv, NEW t, Called(t)
  PROVE  /\ InAByte => PoolInv' /\ wanted' = wanted \cup {t}
         /\ NoAnswer => PoolInv' /\ wanted' = wanted \ {t}
<1>1. firing[1] \in Slots /\ firing[1].id = t
  BY InvFacts DEF Called, UartInv, PoolInv
<1>2. firing[1].when \in Int /\ cycles_per_byte \in Nat \ {0}
  BY <1>1, ConstantFacts DEF Slots, UartInv, Types
<1>3. ASSUME InAByte PROVE PoolInv' /\ wanted' = wanted \cup {t}
  <2> DEFINE w == firing[1].when + cycles_per_byte
  <2>1. w \in Int /\ w > firing[1].when
    BY <1>2
  <2>2. Expire(w) \/ CatchUp(w) \/ Reschedule(w)
    BY <1>3 DEF InAByte, Answer
  <2> HIDE DEF w
  <2>3. PoolInv' /\ wanted' = wanted \cup {firing[1].id}
    BY <2>1, <2>2, PoolAnswer DEF UartInv
  <2> QED
    BY <1>1, <2>3
<1>4. ASSUME NoAnswer PROVE PoolInv' /\ wanted' = wanted \ {t}
  <2>1. ~(firing[1].when > firing[1].when)
    BY <1>2
  <2>2. PoolInv' /\ wanted' = wanted \ {firing[1].id}
    BY <1>2, <1>4, <2>1, PoolAnswer DEF NoAnswer, UartInv
  <2> QED
    BY <1>1, <2>2
<1> QED
  BY <1>3, <1>4

(* The receive pump stops only when there is nothing to announce.          *)
LEMMA RxcRaiseKeeps ==
  ASSUME UartInv, RxcRaise
  PROVE  UartInv'
<1>1. /\ Called("rxc")
      /\ UNCHANGED <<rxen, input, dor, txen, udrie, txc, udre, tx_cnt, xoff, off,
                     cycles_per_byte, acted>>
  BY DEF RxcRaise, sender, flow
<1>2. /\ PoolInv' /\ wanted \ {"rxc"} \subseteq wanted'
      /\ rxc' \in BOOLEAN /\ rx_cnt' \in 0 .. 2
      /\ rxen /\ input > 0 => "rxc" \in wanted'
      /\ rxc' => rxen /\ input > 0
  <2>1. CASE rxen /\ input > 0
    <3>1. rxc' = TRUE /\ rx_cnt' = (IF rxc THEN rx_cnt ELSE 0) /\ InAByte
      BY <2>1 DEF RxcRaise
    <3>2. rx_cnt' \in 0 .. 2
      BY <3>1 DEF UartInv, Types
    <3>3. PoolInv' /\ wanted' = wanted \cup {"rxc"}
      BY <1>1, <3>1, PumpAnswers
    <3> QED
      BY <2>1, <3>1, <3>2, <3>3
  <2>2. CASE ~(rxen /\ input > 0)
    <3>1. UNCHANGED <<rxc, rx_cnt>> /\ NoAnswer
      BY <2>2 DEF RxcRaise
    <3>2. PoolInv' /\ wanted' = wanted \ {"rxc"}
      BY <1>1, <3>1, PumpAnswers
    <3> QED
      BY <2>2, <3>1, <3>2 DEF UartInv, Types, RxcHonest
  <2> QED
    BY <2>1, <2>2
<1>3. Types'
  BY <1>1, <1>2 DEF UartInv, Types
<1>4. PumpsWanted'
  BY <1>1, <1>2 DEF UartInv, PumpsWanted
<1>5. Told' /\ FlowControl' /\ RxcHonest'
  BY <1>1, <1>2 DEF UartInv, Told, FlowControl, RxcHonest, Full
<1> QED
  BY <1>2, <1>3, <1>4, <1>5 DEF UartInv

(* The transmit pump stops only when the output register is empty.         *)
LEMMA TxcRaiseKeeps ==
  ASSUME UartInv, TxcRaise
  PROVE  UartInv'
<1>1. /\ Called("txc")
      /\ UNCHANGED <<rxen, rxc, dor, input, rx_cnt, txen, udrie, xoff, off,
                     cycles_per_byte, acted>>
  BY DEF TxcRaise, receiver, flow
<1>2. /\ tx_cnt' \in 0 .. CountMod - 1 /\ txc' \in BOOLEAN /\ udre' \in BOOLEAN
      /\ ~(tx_cnt' > 0) /\ txen => udre'
  <2>1. tx_cnt \in 0 .. CountMod - 1 /\ CountMod \in Nat \ {0}
    BY ConstantFacts DEF UartInv, Types
  <2>2. tx_cnt' = IF tx_cnt > 0 THEN tx_cnt - 1 ELSE 0
    BY DEF TxcRaise
  <2>3. tx_cnt' \in 0 .. CountMod - 1
    BY <2>1, <2>2
  <2>4. txc' \in BOOLEAN
    BY DEF TxcRaise, UartInv, Types
  <2>5. udre' = IF tx_cnt' > 0 THEN FALSE ELSE udre \/ txen
    BY DEF TxcRaise
  <2>6. udre' \in BOOLEAN /\ (~(tx_cnt' > 0) /\ txen => udre')
    BY <2>5 DEF UartInv, Types
  <2> QED
    BY <2>3, <2>4, <2>6
<1>3. /\ PoolInv' /\ wanted \ {"txc"} \subseteq wanted'
      /\ tx_cnt' > 0 => "txc" \in wanted'
  <2>1. CASE tx_cnt' > 0 \/ (txen /\ udrie)
    <3>1. PoolInv' /\ wanted' = wanted \cup {"txc"}
      BY <1>1, <2>1, PumpAnswers DEF TxcRaise
    <3> QED
      BY <3>1
  <2>2. CASE ~(tx_cnt' > 0 \/ (txen /\ udrie))
    <3>1. PoolInv' /\ wanted' = wanted \ {"txc"}
      BY <1>1, <2>2, PumpAnswers DEF TxcRaise
    <3> QED
      BY <2>2, <3>1
  <2> QED
    BY <2>1, <2>2
<1>4. Types'
  BY <1>1, <1>2 DEF UartInv, Types
<1>5. PumpsWanted'
  BY <1>1, <1>2, <1>3 DEF UartInv, PumpsWanted
<1>6. Told' /\ FlowControl' /\ RxcHonest'
  BY <1>1 DEF UartInv, Told, FlowControl, RxcHonest, Full
<1> QED
  BY <1>3, <1>4, <1>5, <1>6 DEF UartInv

LEMMA OtherCallbackKeeps ==
  ASSUME UartInv, OtherCallback
  PROVE  UartInv'
<1>1. /\ Called("other") /\ acted' = acted
      /\ UNCHANGED <<receiver, sender, flow, cycles_per_byte>>
  BY DEF OtherCallback
<1>2. PICK d \in Delays \cup {0} :
        \/ Expire(firing[1].when + d) \/ CatchUp(firing[1].when + d)
        \/ Reschedule(firing[1].when + d)
  BY DEF OtherCallback, Return
<1>3. firing[1] \in Slots
  BY <1>1, InvFacts DEF Called, UartInv, PoolInv
<1>4. firing[1].when + d \in Int
  <2>1. firing[1].when \in Int /\ d \in Int
    BY <1>3, ConstantFacts DEF Slots
  <2> QED
    BY <2>1
<1>5. PoolInv' /\ wanted \ {"other"} \subseteq wanted'
  BY <1>1, <1>2, <1>4, PoolAnswer DEF UartInv, Called
<1>6. acted' \in BOOLEAN
  BY <1>1 DEF UartInv, Types
<1> QED
  BY <1>1, <1>5, <1>6, PortKept

LEMMA GoOnKeeps ==
  ASSUME UartInv, GoOn \/ UartExecute \/ UNCHANGED uartVars
  PROVE  UartInv'
<1>1. acted' \in BOOLEAN /\ UNCHANGED <<receiver, sender, flow, cycles_per_byte>>
  BY DEF GoOn, UartExecute, uartVars, UartInv, Types
<1>2. PoolInv' /\ wanted' = wanted
  <2>1. CASE GoOn
    BY <2>1, PoolFire, PoolGoesOn DEF GoOn, UartInv
  <2>2. CASE UartExecute
    BY <2>2, PoolGoesOn DEF UartExecute, UartInv
  <2>3. CASE UNCHANGED uartVars
    BY <2>3, PoolUnchanged DEF uartVars, timers, UartInv
  <2> QED
    BY <2>1, <2>2, <2>3
<1> QED
  BY <1>1, <1>2, PortKept

-----------------------------------------------------------------------------
LEMMA UartInitially == UartInit => UartInv
<1> SUFFICES ASSUME UartInit PROVE UartInv
  OBVIOUS
<1>1. PoolInv
  BY PoolInitially DEF UartInit
<1>2. Types
  <2>1. 0 \in 0 .. Capacity /\ 0 \in 0 .. CountMod - 1 /\ ResetCycles \in ByteCycles
    BY ConstantFacts, UartAssumption
  <2>2. {rxen, txen, udrie, rxc, txc, udre, dor, off, acted} \subseteq BOOLEAN
    BY DEF UartInit
  <2>3. /\ input = 0 /\ rx_cnt = 0 /\ tx_cnt = 0 /\ cycles_per_byte = ResetCycles
        /\ xoff = "init"
    BY DEF UartInit
  <2> QED
    BY <2>1, <2>2, <2>3 DEF Types
<1>3. PumpsWanted /\ Told /\ FlowControl /\ RxcHonest
  <2>1. ~Full(0)
    BY ConstantFacts DEF Full
  <2> QED
    BY <2>1 DEF UartInit, PumpsWanted, Told, FlowControl, RxcHonest
<1> QED
  BY <1>1, <1>2, <1>3 DEF UartInv

LEMMA UartPreserved == UartInv /\ [UartNext]_uartVars => UartInv'
<1> SUFFICES ASSUME UartInv, [UartNext]_uartVars PROVE UartInv'
  OBVIOUS
<1>1. CASE Instruction
  BY <1>1, ReadKeeps, StatusReadKeeps, UdrWriteKeeps, WriteAKeeps, WriteBKeeps,
     BaudWriteKeeps, OtherTimerKeeps, UartResetKeeps, GoOnKeeps DEF Instruction
<1>2. CASE Callback
  BY <1>2, RxcRaiseKeeps, TxcRaiseKeeps, OtherCallbackKeeps DEF Callback
<1>3. CASE PeerSends \/ ServeTxc
  BY <1>3, PeerSendsKeeps, WriteAKeeps
<1>4. CASE GoOn \/ UNCHANGED uartVars
  BY <1>4, GoOnKeeps
<1> QED
  BY <1>1, <1>2, <1>3, <1>4 DEF UartNext

(* The inductive invariant holds throughout.                               *)
THEOREM UartInvAlways == UartSpec => []UartInv
BY UartInitially, UartPreserved, PTL DEF UartSpec

(* The port and the timers it uses stay within their types: the fifo never *)
(* holds more than it can, whatever the other end sends.                   *)
THEOREM PortTyped == UartSpec => []UartTypeOK
<1>1. UartInv => UartTypeOK
  BY DEF UartInv, PoolInv, IInv, Types, UartTypeOK
<1> QED
  BY <1>1, UartInvAlways, PTL

(* Input that waits is going to be announced, and so is room for output,   *)
(* unless all slots of the pool were wanted at once.                       *)
THEOREM PumpsKeepRunning == UartSpec => []PumpsRun
<1>1. UartInv => PumpsRun
  BY WantedRuns DEF UartInv, PumpsWanted, PumpsRun, Runs
<1> QED
  BY <1>1, UartInvAlways, PTL

(* An other end that obeys the flow control never overruns the fifo and is *)
(* never left waiting, and rxc is never raised without input.              *)
THEOREM ReceiverKeepsPromise == UartSpec => []ReceiverHonest
<1>1. UartInv => ReceiverHonest
  BY DEF UartInv, ReceiverHonest
<1> QED
  BY <1>1, UartInvAlways, PTL
=============================================================================
