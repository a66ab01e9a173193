----------------------------- MODULE ServerLink -----------------------------
(***************************************************************************)
(* From the emulator to the handlers of the server: fuzz_server_notify.c   *)
(* sends framed messages over TCP, the receiver process                    *)
(* (socket_buffer_queue.py) puts what arrives into a queue, the parser     *)
(* process (parser.py) cuts the stream into messages again and calls the   *)
(* handlers of Reports.                                                    *)
(*                                                                         *)
(* The stream is a sequence of fields <<k, j>>, field j of the message k   *)
(* that was sent: fields 1 and 2 are the header (the kind and the size of  *)
(* the body, counted in fields), the others are the body.  send and recv   *)
(* may stop anywhere in a message; that they may also stop within a field  *)
(* makes no difference to programs that wait until all of it is there.     *)
(* Members of a fixed size that follow each other count as one field.      *)
(***************************************************************************)
EXTENDS Reports

CONSTANTS
  InputSizes,   \* lengths of inputs, in fields
  FrameCounts,  \* shadow frames of a crash
  CounterMod,   \* inputs_executed is taken modulo this, 2^32 in the code
  MaxSent,      \* bound: messages sent in a run
  WireSize,     \* what the socket buffers hold, in fields
  RecvMax,      \* what one recv or one package of the queue holds
  PipeSize,     \* what the pipe under the queue holds
  GarbageSizes  \* sizes that a header read out of step may announce

ASSUME LinkAssumption ==
  /\ InputSizes \subseteq Nat /\ FrameCounts \subseteq Nat
  /\ GarbageSizes \subseteq Nat /\ PipeSize \in Nat
  /\ {CounterMod, MaxSent, WireSize, RecvMax} \subseteq Nat \ {0}

VARIABLES
  connected, \* connection_established
  greeted,   \* send_target_info was called
  executed,  \* inputs_executed of the emulator
  sending,   \* the message being sent, None if there is none
  field,     \* its next field
  sent,      \* history: messages of which something was sent
  wire,      \* fields in the socket buffers
  emulator,  \* "running" or "gone"
  receiver,  \* "receiving", "closed" (connection lost, about to exit), "gone"
  client_packages,    \* the queue between receiver and parser
  recv_buffer,        \* what the parser has taken from it
  waiting_for,        \* "header" or "body"
  wait_for_num_bytes, \* fields to wait for
  header,    \* the message the last header was that of, 0 if of none
  filed,     \* history: messages given to the handlers
  torn,      \* history: place in sent of the first message torn in mid-stream
  refused,   \* history: send has failed on an open connection
  wrapped    \* history: the counter has wrapped around

senderVars == <<connected, greeted, executed, sending, field, sent, torn,
                refused, wrapped>>
parserVars == <<recv_buffer, waiting_for, wait_for_num_bytes, header, filed>>
linkVars == <<senderVars, wire, emulator, receiver, client_packages, parserVars>>
vars == <<linkVars, reportVars>>

-----------------------------------------------------------------------------
Message(kind, input, frames, count) ==
  [kind |-> kind, input |-> input, frames |-> frames, executed |-> count]

None == Message("none", 0, 0, 0)
Target == Message("target", 0, 0, 0)
Coverages == {Message("coverage", n, 0, 0) : n \in InputSizes}
Crashes == {Message("crash", n, f, 0) : n \in InputSizes, f \in FrameCounts}
Stats(count) == Message("stats", 0, 0, count)
Messages == {Target, None} \cup Coverages \cup Crashes
            \cup {Stats(c) : c \in 0 .. CounterMod - 1}

\* Fault: the program counter that follows the frames is not counted.
DeclaredSizeShort(m) ==
  CASE m.kind = "crash" -> 1 + m.input + 1 + m.frames
    [] m.kind = "coverage" -> 1 + m.input
    [] OTHER -> 1

(* body_size: what the header announces.                                   *)
DeclaredSize(m) ==
  CASE m.kind = "crash" -> 1 + m.input + 1 + (m.frames + 1)
    [] m.kind = "coverage" -> 1 + m.input
    [] OTHER -> 1

(* What is sent: the fixed fields, the input, the number of frames, each   *)
(* of them, and the pc.                                                    *)
BodySize(m) ==
  CASE m.kind = "crash" -> Len(<<"ids and length">>) + m.input
                           + Len(<<"number of frames">>) + m.frames + Len(<<"pc">>)
    [] m.kind = "coverage" -> Len(<<"edge and length">>) + m.input
    [] OTHER -> Len(<<"path or counters">>)

Fields(m) == 2 + BodySize(m)
Body(k) == [j \in 1 .. BodySize(sent[k]) |-> <<k, 2 + j>>]

LinkTypeOK ==
  /\ {connected, greeted, refused, wrapped} \subseteq BOOLEAN
  /\ executed \in 0 .. CounterMod - 1
  /\ sending \in Messages /\ field \in 1 .. Fields(sending)
  /\ sent \in Seq(Messages) /\ filed \in Seq(Messages)
  /\ torn \in 0 .. Len(sent) /\ header \in 0 .. Len(sent)
  /\ emulator \in {"running", "gone"} /\ receiver \in {"receiving", "closed", "gone"}
  /\ wire \in Seq(Nat \X Nat) /\ client_packages \in Seq(Nat \X Nat)
  /\ recv_buffer \in Seq(Nat \X Nat) /\ Len(wire) <= WireSize
  /\ waiting_for \in {"header", "body"} /\ wait_for_num_bytes \in Nat

TypeOK == ReportsTypeOK /\ LinkTypeOK

-----------------------------------------------------------------------------
(* The emulator, between two instructions, has something to report.        *)
Start(m) ==
  /\ emulator = "running" /\ connected /\ sending = None
  /\ Len(sent) < MaxSent
  /\ m.kind = "target" <=> ~greeted
  /\ sending' = m /\ field' = 1 /\ greeted' = TRUE
  /\ UNCHANGED <<connected, sent, torn, refused, wire, emulator, receiver,
                 client_packages, parserVars, reportVars>>

Report ==
  /\ \E m \in {Target} \cup Coverages \cup Crashes : Start(m)
  /\ UNCHANGED <<executed, wrapped>>

(* Some tests have ended since the last statistics.                        *)
ReportStats ==
  \E tests \in 0 .. CounterMod - 1 :
    /\ executed' = (executed + tests) % CounterMod
    /\ wrapped' = (wrapped \/ executed + tests >= CounterMod)
    /\ Start(Stats(executed'))

SendingUnchanged ==
  UNCHANGED <<greeted, executed, wrapped, emulator, receiver, client_packages,
              parserVars, reportVars>>

(* send takes the next field; send_raw goes on until all is sent.          *)
Transmit ==
  /\ emulator = "running" /\ sending # None
  /\ receiver = "receiving" /\ Len(wire) < WireSize
  /\ sent' = IF field = 1 THEN Append(sent, sending) ELSE sent
  /\ wire' = Append(wire, <<Len(sent'), field>>)
  /\ IF field = Fields(sending) THEN sending' = None /\ field' = 1
                                ELSE sending' = sending /\ field' = field + 1
  /\ UNCHANGED <<connected, torn, refused>> /\ SendingUnchanged

(* EPIPE.  Nothing that is sent to a closed connection arrives.            *)
ConnectionLost ==
  /\ emulator = "running" /\ sending # None /\ receiver # "receiving"
  /\ connected' = FALSE /\ sending' = None /\ field' = 1
  /\ UNCHANGED <<sent, torn, refused, wire>> /\ SendingUnchanged

\* Fault: the next message is started where this one broke off.
SendRefusedInside ==
  /\ emulator = "running" /\ sending # None /\ ~refused
  /\ refused' = TRUE /\ sending' = None
  /\ torn' = IF field > 1 /\ torn = 0 THEN Len(sent) ELSE torn
  /\ UNCHANGED <<connected, sent, wire, field>> /\ SendingUnchanged

(* Another error: the rest of the message is not sent, the connection      *)
(* stays, and the callers ignore the result.  Once, as a bound.            *)
SendRefused ==
  /\ emulator = "running" /\ sending # None /\ ~refused
  /\ refused' = TRUE /\ sending' = None /\ field' = 1
  /\ torn' = IF field > 1 /\ torn = 0 THEN Len(sent) ELSE torn
  /\ UNCHANGED <<connected, sent, wire>> /\ SendingUnchanged

(* Whatever the emulator was sending breaks off there.                     *)
EmulatorExits ==
  /\ emulator = "running"
  /\ emulator' = "gone" /\ sending' = None /\ field' = 1
  /\ UNCHANGED <<connected, greeted, executed, sent, torn, refused, wrapped, wire,
                 receiver, client_packages, parserVars, reportVars>>

-----------------------------------------------------------------------------
\* Fault: the queue is bounded, and a put to a full one blocks.
NoRoom == Len(client_packages) >= RecvMax

(* The queue is unbounded: put never blocks.                               *)
PutBlocks == FALSE

(* recv returns some of what has arrived, and put hands it on.             *)
Receive ==
  /\ receiver = "receiving" /\ ~PutBlocks
  /\ \E n \in 1 .. RecvMax :
       /\ n <= Len(wire)
       /\ client_packages' = client_packages \o SubSeq(wire, 1, n)
       /\ wire' = SubSeq(wire, n + 1, Len(wire))
  /\ UNCHANGED <<senderVars, emulator, receiver, parserVars, reportVars>>

KillParser ==
  /\ Kill
  /\ recv_buffer' = << >> /\ waiting_for' = "header"
  /\ wait_for_num_bytes' = 2 /\ header' = 0
  /\ UNCHANGED filed

(* The connection was closed and is drained: the parser is killed with     *)
(* whatever it has not parsed.                                             *)
ReceiveEnd ==
  /\ receiver = "receiving" /\ emulator = "gone" /\ wire = << >>
  /\ receiver' = "closed" /\ KillParser
  /\ UNCHANGED <<senderVars, wire, emulator, client_packages>>

(* exit joins the thread that feeds the pipe under the queue, which nobody *)
(* reads any more.                                                         *)
ReceiverExits ==
  /\ receiver = "closed" /\ Len(client_packages) <= PipeSize
  /\ receiver' = "gone"
  /\ UNCHANGED <<senderVars, wire, emulator, client_packages, parserVars, reportVars>>

(* Both processes of the server are stopped from the terminal.             *)
ServerStopped ==
  /\ receiver # "gone"
  /\ receiver' = "gone" /\ wire' = << >> /\ client_packages' = << >> /\ KillParser
  /\ UNCHANGED <<senderVars, emulator>>

-----------------------------------------------------------------------------
(* read_from_queue: get is called only when nothing complete is left.      *)
Get ==
  /\ Idle /\ Len(recv_buffer) < wait_for_num_bytes
  /\ \E n \in 1 .. RecvMax :
       /\ n <= Len(client_packages)
       /\ recv_buffer' = recv_buffer \o SubSeq(client_packages, 1, n)
       /\ client_packages' = SubSeq(client_packages, n + 1, Len(client_packages))
  /\ UNCHANGED <<senderVars, wire, emulator, receiver, waiting_for,
                 wait_for_num_bytes, header, filed, reportVars>>

Complete == Idle /\ Len(recv_buffer) >= wait_for_num_bytes

(* Out of step, the fields of a header may mean anything.                  *)
ParseHeader ==
  /\ Complete /\ waiting_for = "header"
  /\ LET k == recv_buffer[1][1]
         inStep == recv_buffer[1] = <<k, 1>> /\ recv_buffer[2] = <<k, 2>>
     IN  IF inStep
         THEN header' = k /\ wait_for_num_bytes' = DeclaredSize(sent[k])
         ELSE header' = 0 /\ wait_for_num_bytes' \in GarbageSizes
  /\ recv_buffer' = SubSeq(recv_buffer, 3, Len(recv_buffer))
  /\ waiting_for' = "body"
  /\ UNCHANGED <<senderVars, wire, emulator, receiver, client_packages, filed,
                 reportVars>>

(* A body that is not that of its header may fail an assertion or look     *)
(* like any message.                                                       *)
HandleBody(body) ==
  LET inStep == header # 0 /\ body = Body(header)
  IN  \E m \in IF inStep THEN {sent[header]} ELSE Messages :
        /\ Handle(m) \/ Fail
        /\ filed' = Append(filed, IF inStep THEN m ELSE None)

\* Fault: the buffer is emptied after a message.
RestLost(n) == << >>

(* What is left in recv_buffer after n fields of it were used.             *)
Rest(n) == SubSeq(recv_buffer, n + 1, Len(recv_buffer))

ParseBody ==
  /\ Complete /\ waiting_for = "body"
  /\ HandleBody(SubSeq(recv_buffer, 1, wait_for_num_bytes))
  /\ recv_buffer' = Rest(wait_for_num_bytes)
  /\ waiting_for' = "header" /\ wait_for_num_bytes' = 2 /\ header' = 0
  /\ UNCHANGED <<senderVars, wire, emulator, receiver, client_packages>>

-----------------------------------------------------------------------------
Init ==
  /\ connected = TRUE /\ greeted = FALSE /\ executed = 0
  /\ sending = None /\ field = 1 /\ sent = << >>
  /\ wire = << >> /\ emulator = "running" /\ receiver = "receiving"
  /\ client_packages = << >> /\ recv_buffer = << >>
  /\ waiting_for = "header" /\ wait_for_num_bytes = 2 /\ header = 0
  /\ filed = << >> /\ torn = 0 /\ refused = FALSE /\ wrapped = FALSE
  /\ ReportsInit

Emulate == Report \/ ReportStats \/ Transmit \/ ConnectionLost \/ SendRefused
Parse == Get \/ ParseHeader \/ ParseBody
Server == UNCHANGED linkVars /\ (OnNewEdge \/ HandlerFails \/ Run)

Next == \/ Emulate \/ EmulatorExits
        \/ Receive \/ ReceiveEnd \/ ReceiverExits \/ ServerStopped
        \/ Parse \/ Server

Spec == Init /\ [][Next]_vars

(* The kernel moves what is in its buffers, and threads are scheduled.     *)
(* Each of these actions always changes the variables of its subscript.    *)
FairSpec ==
  /\ Spec
  /\ WF_senderVars(Transmit \/ ConnectionLost)
  /\ WF_wire(Receive)
  /\ WF_handler(UNCHANGED linkVars /\ OnNewEdge)
  /\ WF_ui(UNCHANGED linkVars /\ Run)

-----------------------------------------------------------------------------
Log == INSTANCE MessageLog WITH Messages <- Messages, sent <- sent,
                                filed <- filed, torn <- torn

(* The framed stream, cut anywhere, delivers what the abstract log         *)
(* promises: every message once and in order up to the first torn one.     *)
LogRefined == Log!Spec

(* The parser ends of itself only when something outside has failed, when  *)
(* a send was refused, or when inputs_executed has wrapped: the two        *)
(* programs agree on the sizes of messages and on their order.             *)
DeathExplained == parser = "dead" => failed \/ refused \/ wrapped

(* plot_coverage never finds a point without the time base of the plot,    *)
(* although on_new_edge sets both without a lock (update_ui.py).           *)
PlotSafe == ui # "dead"

(* Every edge written to the gcov files comes to be shown, however the     *)
(* UI thread and on_new_edge interleave on new_coverage, unless a gcovr    *)
(* that had read it failed, something outside has failed, or a torn        *)
(* message read as a second greeting has moved the files away              *)
(* (update_ui.py).                                                         *)
EdgesRendered ==
  \A n \in 1 .. MaxSent - 1 :
    written >= n ~> \/ rendered >= n
                    \/ unshown >= n \/ moved \/ failed
                    \/ ui \in {"dead", "killed"}

(* The emulator is never held up by the server for good: not by a parser   *)
(* that is slow or has died, not by a server that has gone.                *)
SenderFreed == sending # None ~> sending = None
=============================================================================
