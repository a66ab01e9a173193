-------------------------------- MODULE Uart --------------------------------
(***************************************************************************)
(* The serial port, avr_uart.c, over the cycle timers: the receive pump    *)
(* (a timer that announces input), the transmit pump (a timer per byte     *)
(* sent), and the flow control that tells the program at the other end     *)
(* when to stop.                                                           *)
(*                                                                         *)
(* Bytes are not kept, only their number.  That program obeys the protocol *)
(* that avr_uart.h gives in pseudo code: it sends while it is not off,     *)
(* also from within the XON call, and stops when XOFF is called.  Where    *)
(* rxc_raise_time decides whether the firmware reads too fast, either      *)
(* answer is taken.  This is the port of the ATmegas; in LIN controllers,  *)
(* which have no UDRE vector, it differs.                                  *)
(***************************************************************************)
EXTENDS CycleTimers

CONSTANTS
  Capacity,    \* of the input fifo, 63 in the code
  CountMod,    \* tx_cnt is taken modulo this, 2^8 in the code
  ByteCycles,  \* values of cycles_per_byte
  ResetCycles  \* its value after a reset, that of 100 us

ASSUME UartAssumption ==
  /\ {"rxc", "txc", "other"} \subseteq Timers
  /\ {Capacity, CountMod} \subseteq Nat \ {0}
  /\ ByteCycles \subseteq Nat \ {0} /\ ResetCycles \in ByteCycles

VARIABLES
  rxen, txen, udrie, \* receiver and transmitter on, UDRE interrupt enabled
  rxc, txc, udre,    \* flags: input there, output done, output register empty
  dor,               \* flag: input was lost
  input,             \* bytes in the input fifo
  rx_cnt,            \* bytes read since rxc was raised, up to 2
  tx_cnt,            \* bytes not sent yet
  cycles_per_byte,
  xoff,              \* value of the XOFF irq, "init" before the first call
  off,               \* the other end was told to stop
  acted              \* the instruction being executed has had its effect

timers == vars
receiver == <<rxen, rxc, dor, input, rx_cnt>>
sender == <<txen, udrie, txc, udre, tx_cnt>>
flow == <<xoff, off>>
uartVars == <<timers, receiver, sender, flow, cycles_per_byte, acted>>

\* Fault: a fifo without a spare cell.
FullLate(n) == n > Capacity

Full(n) == n = Capacity

UartTypeOK ==
  /\ TypeOK
  /\ {rxen, txen, udrie, rxc, txc, udre, dor, off, acted} \subseteq BOOLEAN
  /\ input \in 0 .. Capacity /\ rx_cnt \in 0 .. 2 /\ tx_cnt \in 0 .. CountMod - 1
  /\ cycles_per_byte \in ByteCycles
  /\ xoff \in {"init", "on", "off"}

-----------------------------------------------------------------------------
(* avr_cycle_timer_status gives 0 for a timer that is overdue by one cycle *)
(* as well.                                                                *)
Status(t) == \E k \in 1 .. Len(timer) : timer[k].id = t /\ timer[k].when # -1

(* An instruction acts before its cycles pass.                             *)
Act == phase = "run" /\ ~acted /\ acted' = TRUE

\* Fault: the XOFF irq keeps its value when XON is called.
XoffStays == xoff

XoffCleared == "off"

(* XOFF := 0, which the other end ignores, then XON: it sends n bytes,     *)
(* until it has none left or XOFF stops it.  The XOFF irq is filtered: it  *)
(* calls only when its value changes.                                      *)
Xon(n) ==
  IF Full(n)
  THEN xoff' = "on" /\ off' = (XoffCleared # "on")
  ELSE xoff' = XoffCleared /\ off' = FALSE

Xoff == xoff' = "on" /\ off' = (off \/ xoff # "on")

(* irq_input for a burst of n bytes into an empty fifo.                    *)
Burst(n) ==
  IF n > 0 /\ ~Status("rxc")
  THEN /\ Register("rxc", cycles_per_byte)
       /\ rx_cnt' = 0 /\ dor' = FALSE /\ input' = n
  ELSE /\ UNCHANGED <<timers, rx_cnt, dor>>
       /\ input' = IF dor THEN 0 ELSE n

Bursts == IF rxen' THEN 0 .. Capacity ELSE {0}

-----------------------------------------------------------------------------
(* irq_input for one byte, whenever code outside the core runs.            *)
PeerSends ==
  /\ \/ phase = "run" /\ ~acted
     \/ phase = "callback" /\ firing[1].id = "other"
  /\ ~off /\ rxen
  /\ IF input = 0 /\ ~Status("rxc")
     THEN Register("rxc", cycles_per_byte) /\ rx_cnt' = 0 /\ dor' = FALSE
     ELSE dor' = (dor \/ Full(input)) /\ UNCHANGED <<timers, rx_cnt>>
  /\ input' = IF dor' THEN input ELSE input + 1
  /\ IF Full(input') THEN Xoff ELSE UNCHANGED flow
  /\ UNCHANGED <<rxen, rxc, sender, cycles_per_byte, acted>>

\* Fault: the other end is called before the pump is stopped.
EmptiedLate(n, count) == Cancel("rxc") /\ rx_cnt' = count

(* The input is used up: the pump is stopped, the other end called, and    *)
(* the n bytes that it sends at once start the pump again.                 *)
Emptied(n, count) ==
  IF n > 0 THEN Register("rxc", cycles_per_byte) /\ rx_cnt' = 0
           ELSE Cancel("rxc") /\ rx_cnt' = count

(* avr_uart_read of UDR.  Firmware that reads too fast sees rxc again only *)
(* when the pump raises it.                                                *)
Read ==
  \E tooFast \in BOOLEAN :
    LET taken == rxen /\ rxc /\ input > 0
        rest  == IF taken THEN input - 1 ELSE input
        count == IF taken /\ rx_cnt < 2 THEN rx_cnt + 1 ELSE rx_cnt
        left  == IF tooFast THEN 0 ELSE count
    IN  /\ Act /\ UNCHANGED rxen
        /\ tooFast => taken /\ count = 2
        /\ IF rest = 0
           THEN \E n \in Bursts :
                  /\ Emptied(n, left) /\ input' = n /\ rxc' = FALSE /\ dor' = FALSE
                  /\ Xon(n)
           ELSE /\ input' = rest /\ rx_cnt' = left /\ rxc' = (rxc /\ ~tooFast)
                /\ dor' = (dor /\ Full(rest))
                /\ UNCHANGED <<timers, flow>>
        /\ UNCHANGED <<sender, cycles_per_byte>>

(* A status read tells the other end that there is room.                   *)
StatusRead ==
  /\ Act /\ rxen /\ input = 0
  /\ UNCHANGED rxen
  /\ \E n \in Bursts : Burst(n) /\ Xon(input')
  /\ UNCHANGED <<rxc, sender, cycles_per_byte>>

(* avr_uart_udr_write.                                                     *)
UdrWrite ==
  /\ Act
  /\ udre' = FALSE
  /\ tx_cnt' = IF txen THEN (tx_cnt + 1) % CountMod ELSE tx_cnt
  /\ IF txen /\ ~Status("txc") THEN Register("txc", cycles_per_byte)
                               ELSE UNCHANGED timers
  /\ UNCHANGED <<txen, udrie, txc, receiver, flow, cycles_per_byte>>

(* avr_uart_write to UCSRA clears dor, and txc if asked to.                *)
WriteA ==
  /\ Act
  /\ dor' = FALSE /\ txc' \in {txc, FALSE}
  /\ UNCHANGED <<timers, rxen, rxc, input, rx_cnt, txen, udrie, udre, tx_cnt, flow,
                 cycles_per_byte>>

(* The receiver is switched on: there is room.  It is switched off: the    *)
(* other end is stopped, the pump too, and the input is dropped.           *)
ReceiverSwitched ==
  CASE rxen' /\ ~rxen /\ input = 0 ->
         (\E n \in Bursts : Burst(n) /\ Xon(input')) /\ UNCHANGED rxc
    [] ~rxen' /\ rxen ->
         /\ Xoff /\ Cancel("rxc") /\ input' = 0 /\ rxc' = FALSE
         /\ UNCHANGED <<rx_cnt, dor>>
    [] OTHER -> UNCHANGED <<timers, flow, input, rxc, rx_cnt, dor>>

(* avr_uart_write to UCSRB.                                                *)
WriteB ==
  /\ Act
  /\ rxen' \in BOOLEAN /\ txen' \in BOOLEAN /\ udrie' \in BOOLEAN
  /\ ReceiverSwitched
  /\ udre' = IF txen' # txen THEN txen'
             ELSE udre \/ (udrie' /\ ~udrie /\ txen' /\ ~Status("txc"))
  /\ UNCHANGED <<txc, tx_cnt, cycles_per_byte>>

BaudWrite ==
  /\ Act
  /\ cycles_per_byte' \in ByteCycles
  /\ UNCHANGED <<timers, receiver, sender, flow>>

OtherTimer ==
  /\ Act
  /\ (\E d \in Delays : Ask("other", d)) \/ Cancel("other")
  /\ UNCHANGED <<receiver, sender, flow, cycles_per_byte>>

(* avr_reset with avr_uart_reset.  The other end is not told.              *)
UartReset ==
  /\ Act /\ Reset
  /\ rxen' = FALSE /\ rxc' = FALSE /\ dor' = FALSE /\ input' = 0
  /\ txen' = TRUE /\ udrie' = FALSE /\ txc' = FALSE /\ udre' = TRUE /\ tx_cnt' = 0
  /\ cycles_per_byte' = ResetCycles
  /\ UNCHANGED <<rx_cnt, flow>>

-----------------------------------------------------------------------------
Called(t) == phase = "callback" /\ firing[1].id = t
Answer(w) == Expire(w) \/ CatchUp(w) \/ Reschedule(w)
NoAnswer == Expire(firing[1].when)
InAByte == Answer(firing[1].when + cycles_per_byte)

(* avr_uart_rxc_raise.                                                     *)
RxcRaise ==
  /\ Called("rxc")
  /\ IF rxen /\ input > 0
     THEN rxc' = TRUE /\ rx_cnt' = (IF rxc THEN rx_cnt ELSE 0) /\ InAByte
     ELSE UNCHANGED <<rxc, rx_cnt>> /\ NoAnswer
  /\ UNCHANGED <<rxen, input, dor, sender, flow, cycles_per_byte, acted>>

(* avr_uart_txc_raise: a byte is out.  While UDRIE is set it goes on       *)
(* announcing that there is room.                                          *)
TxcRaise ==
  /\ Called("txc")
  /\ txc' = (txc \/ tx_cnt = 1)
  /\ tx_cnt' = IF tx_cnt > 0 THEN tx_cnt - 1 ELSE 0
  /\ udre' = IF tx_cnt' > 0 THEN FALSE ELSE udre \/ txen
  /\ IF tx_cnt' > 0 \/ (txen /\ udrie) THEN InAByte ELSE NoAnswer
  /\ UNCHANGED <<txen, udrie, receiver, flow, cycles_per_byte, acted>>

OtherCallback ==
  /\ Called("other") /\ Return
  /\ UNCHANGED <<receiver, sender, flow, cycles_per_byte, acted>>

(* Serving the TXC interrupt clears its flag; the others are sticky.       *)
ServeTxc ==
  /\ phase = "idle" /\ txc
  /\ txc' = FALSE
  /\ UNCHANGED <<timers, receiver, txen, udrie, udre, tx_cnt, flow,
                 cycles_per_byte, acted>>

-----------------------------------------------------------------------------
UartExecute ==
  /\ \E cycles \in 1 .. MaxCycles : Execute(cycles)
  /\ acted' = FALSE
  /\ UNCHANGED <<receiver, sender, flow, cycles_per_byte>>

GoOn ==
  /\ Fire \/ ProcessDone \/ Sleep \/ Awake
  /\ UNCHANGED <<receiver, sender, flow, cycles_per_byte, acted>>

UartInit ==
  /\ Init
  /\ rxen = FALSE /\ rxc = FALSE /\ dor = FALSE /\ input = 0 /\ rx_cnt = 0
  /\ txen = TRUE /\ udrie = FALSE /\ txc = FALSE /\ udre = TRUE /\ tx_cnt = 0
  /\ cycles_per_byte = ResetCycles
  /\ xoff = "init" /\ off = FALSE /\ acted = FALSE

Instruction == \/ Read \/ StatusRead \/ UdrWrite \/ WriteA \/ WriteB \/ BaudWrite
               \/ OtherTimer \/ UartReset \/ UartExecute
Callback == RxcRaise \/ TxcRaise \/ OtherCallback

UartNext == Instruction \/ Callback \/ PeerSends \/ ServeTxc \/ GoOn

UartSpec == UartInit /\ [][UartNext]_uartVars

-----------------------------------------------------------------------------
Runs(t) == t \in Ids(timer) \cup Ids(firing)

(* Input that waits is going to be announced, and a transmitter that is    *)
(* not ready is going to be: the pump each of them needs is running.  Lost *)
(* bytes, switches and bursts from within XON must not leave it stopped.   *)
PumpsRun ==
  \/ crowded
  \/ /\ rxen /\ input > 0 => Runs("rxc")
     /\ txen /\ ~udre => Runs("txc")

(* "When XOFF has been called, do not send any new bytes, they would be    *)
(* dropped" (avr_uart.h): the other end that obeys never overruns the fifo,*)
(* and is told to go on once the input has been read.                      *)
FlowControl == ~dor /\ (off /\ rxen => input > 0)

(* "BUG: rxc raised with empty rx buffer" (avr_uart_read) never appears.   *)
RxcHonest == rxc => rxen /\ input > 0

(* What the receiver owes the other end and the firmware.                  *)
ReceiverHonest == FlowControl /\ RxcHonest
=============================================================================
