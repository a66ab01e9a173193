------------------------------ MODULE Requests ------------------------------
(***************************************************************************)
(* What the interrupt controller promises peripherals and firmware, without*)
(* a fifo, without cached state and without a run loop: requests are a set;*)
(* the one of the highest priority is served, with interrupts on for at    *)
(* least one instruction; a request wakes the core; and nobody but the     *)
(* firmware, the handler's entry or a reset takes a request back, except   *)
(* that a masked one may be dropped.  Interrupts implements this.          *)
(***************************************************************************)
EXTENDS Integers, Sequences

CONSTANTS
  Vectors, \* a lower number has priority
  NestMax  \* how many handlers are remembered

VARIABLES
  requested, \* the vectors that wait to be served
  enabled,   \* the vectors that are not masked
  on,        \* interrupts are on
  fresh,     \* and no instruction has run since they were switched on
  asleep,    \* the core sleeps
  handlers,  \* the handlers that run, innermost last
  lossy      \* there have been more requests at once than can be kept

requestVars == <<requested, enabled, on, fresh, asleep, handlers, lossy>>
tableVars == <<requested, enabled, handlers, lossy>>

Ready == requested \cap enabled
First(v) == \A u \in Ready : v <= u \/ lossy

Init ==
  /\ requested = {} /\ enabled = {} /\ handlers = << >>
  /\ on = FALSE /\ fresh = FALSE /\ asleep = FALSE /\ lossy = FALSE

Request(v) ==
  /\ v \in enabled
  /\ requested' = requested \cup {v}
  /\ asleep' = FALSE
  /\ lossy' \in {lossy, TRUE}
  /\ UNCHANGED <<enabled, on, fresh, handlers>>

-----------------------------------------------------------------------------
(* The firmware.                                                           *)
SwitchOn == on' = TRUE /\ fresh' = ~on
SwitchOff == on' = FALSE /\ fresh' = FALSE
Step == fresh' = FALSE /\ UNCHANGED on

Sei == SwitchOn /\ UNCHANGED <<asleep, tableVars>>
Cli == SwitchOff /\ UNCHANGED <<asleep, tableVars>>
Other == Step /\ UNCHANGED <<asleep, tableVars>>

Reti ==
  /\ SwitchOn
  /\ handlers' = IF handlers = << >> THEN handlers
                 ELSE SubSeq(handlers, 1, Len(handlers) - 1)
  /\ UNCHANGED <<asleep, requested, enabled, lossy>>

(* It does not fall asleep on a request that would have to wake it.        *)
Sleep ==
  /\ on => Ready = {} \/ lossy
  /\ Step /\ asleep' = TRUE
  /\ UNCHANGED tableVars

Mask(v) == Step /\ enabled' = enabled \ {v} /\ UNCHANGED <<asleep, requested, handlers, lossy>>
Unmask(v) == Step /\ enabled' = enabled \cup {v} /\ UNCHANGED <<asleep, requested, handlers, lossy>>
Withdraw(v) == Step /\ requested' = requested \ {v} /\ UNCHANGED <<asleep, enabled, handlers, lossy>>

Instruction ==
  /\ ~asleep
  /\ \/ Sei \/ Cli \/ Other \/ Reti \/ Sleep
     \/ \E v \in Vectors : Mask(v) \/ Unmask(v) \/ Withdraw(v)

-----------------------------------------------------------------------------
(* The core.                                                               *)
Attends(v) ==
  /\ on /\ ~fresh /\ ~asleep
  /\ v \in requested /\ First(v)
  /\ requested' = requested \ {v}

Drop(v) ==
  /\ Attends(v) /\ v \notin enabled
  /\ UNCHANGED <<enabled, on, fresh, asleep, handlers, lossy>>

Serve(v) ==
  /\ Attends(v) /\ v \in enabled
  /\ handlers' = IF Len(handlers) = NestMax THEN handlers ELSE Append(handlers, v)
  /\ SwitchOff
  /\ UNCHANGED <<enabled, asleep, lossy>>

Reset ==
  /\ requested' = {} /\ enabled' = {} /\ handlers' = << >>
  /\ SwitchOff /\ asleep' = FALSE /\ lossy' = FALSE

Next == Instruction \/ Reset \/ \E v \in Vectors : Request(v) \/ Drop(v) \/ Serve(v)

Spec == Init /\ [][Next]_requestVars

-----------------------------------------------------------------------------
(* The core never sleeps on a request that it could serve.                 *)
Alert == asleep /\ on => Ready = {} \/ lossy
=============================================================================
