---------------------------- MODULE MessageLog ----------------------------
(***************************************************************************)
(* What the emulator and its server promise each other, without sockets,   *)
(* queues or framing: the messages that were sent are taken in by the      *)
(* server one by one, each once and in the order they were sent.  The one  *)
(* thing that breaks the promise is a message torn in the middle of a      *)
(* connection that stays open: from that message on anything may be filed. *)
(* ServerLink implements this.                                             *)
(***************************************************************************)
EXTENDS Naturals, Sequences

CONSTANT Messages \* everything the server may take in

VARIABLES
  sent,   \* the messages whose transmission has begun, in order
  filed,  \* what the server has taken in, in order
  torn    \* place in sent of the first torn message, 0 if there is none

logVars == <<sent, filed, torn>>

Init == sent = << >> /\ filed = << >> /\ torn = 0

Send(m) == sent' = Append(sent, m) /\ UNCHANGED <<filed, torn>>

(* The last message sent breaks off; the server cannot have it yet.        *)
Tear ==
  /\ torn = 0 /\ Len(filed) < Len(sent)
  /\ torn' = Len(sent)
  /\ UNCHANGED <<sent, filed>>

File ==
  LET next == Len(filed) + 1
  IN  /\ next <= Len(sent) /\ (torn = 0 \/ next < torn)
      /\ filed' = Append(filed, sent[next])
      /\ UNCHANGED <<sent, torn>>

(* Behind a torn message the stream is out of step.                        *)
FileOutOfStep(m) ==
  /\ torn # 0 /\ Len(filed) + 1 >= torn
  /\ filed' = Append(filed, m)
  /\ UNCHANGED <<sent, torn>>

Next == (\E m \in Messages : Send(m) \/ FileOutOfStep(m)) \/ Tear \/ File

Spec == Init /\ [][Next]_logVars

-----------------------------------------------------------------------------
(* Up to a torn message the server has exactly what was sent.              *)
Faithful ==
  \A k \in 1 .. Len(filed) :
    torn = 0 \/ k < torn => k <= Len(sent) /\ filed[k] = sent[k]
=============================================================================
