------------------------------ MODULE Reports ------------------------------
(***************************************************************************)
(* The parser process of the server from the moment a message is complete: *)
(* its handlers (process_messages.py) and the UI thread they feed          *)
(* (update_ui.py).  The handlers run in the main thread of the process;    *)
(* the UI thread shares new_coverage, start_time and edges_plot_data with  *)
(* them, without a lock.                                                   *)
(*                                                                         *)
(* An exception ends the main thread only: the process stays, as the UI    *)
(* thread is not a daemon, until the receiver kills it.                    *)
(***************************************************************************)
EXTENDS Naturals, Sequences

VARIABLES
  parser,          \* the main thread: "alive", "dead" of an exception, "killed"
  handler,         \* where update_coverage is: "none", "edge", "flagged", "timed"
  disassembler,    \* was the executable disassembled?
  inputs_executed, \* of the last statistics
  new_coverage,    \* an edge was found since gcovr was last started
  start_time,      \* is start_time set?
  plot,            \* length of edges_plot_data
  ui,              \* where the UI thread is in run, "off" before its start
  written,         \* edges whose lines are in the gcov files
  snapshot,        \* of them, those the running gcovr has read
  rendered,        \* of them, those in the HTML pages
  unshown,         \* history: of them, those read by the last gcovr, if it failed
  moved,           \* history: a second greeting has moved the files away
  failed           \* history: something outside the two programs failed

fileVars == <<written, moved>>
pageVars == <<snapshot, rendered, unshown>>
uiVars == <<ui, pageVars>>
reportVars == <<parser, handler, disassembler, inputs_executed, new_coverage,
                start_time, plot, fileVars, failed, uiVars>>

ReportsTypeOK ==
  /\ parser \in {"alive", "dead", "killed"}
  /\ handler \in {"none", "edge", "flagged", "timed"}
  /\ {disassembler, new_coverage, start_time, moved, failed} \subseteq BOOLEAN
  /\ {inputs_executed, plot, written, snapshot, rendered, unshown} \subseteq Nat
  /\ ui \in {"off", "test", "clear", "gcovr", "rendering", "plot",
             "dead", "lost", "killed"}
  /\ rendered <= snapshot /\ snapshot <= written

Known == ui # "off"    \* initial_message sets the path and starts the thread
Idle == parser = "alive" /\ handler = "none"

-----------------------------------------------------------------------------
(* An assertion or another exception of the programs' own making.          *)
Die ==
  /\ parser' = "dead" /\ handler' = "none"
  /\ UNCHANGED <<disassembler, inputs_executed, new_coverage, start_time, plot,
                 fileVars, failed, uiVars>>

(* avr-addr2line does not answer, a file cannot be written, the clock has  *)
(* not advanced between two statistics.                                    *)
Fail ==
  /\ parser' = "dead" /\ handler' = "none" /\ failed' = TRUE
  /\ UNCHANGED <<disassembler, inputs_executed, new_coverage, start_time, plot,
                 fileVars, uiVars>>

Skip == UNCHANGED reportVars

(* A second greeting: move_old_data moves the run directory away, the gcov *)
(* files and the pages with it, before start raises: a thread can be       *)
(* started once.  A gcovr that is running goes on in the old directory,    *)
(* and the UI thread raises if it opens a file before there is a new one.  *)
GreetAgain ==
  /\ written' = 0 /\ snapshot' = 0 /\ rendered' = 0 /\ moved' = TRUE
  /\ parser' = "dead" /\ handler' = "none"
  /\ ui' \in {ui} \cup (IF ui \in {"test", "plot"} THEN {"lost"} ELSE {})
  /\ UNCHANGED <<disassembler, inputs_executed, new_coverage, start_time, plot,
                 failed, unshown>>

(* The first one starts the UI thread and disassembles the executable.     *)
InitialMessage ==
  IF Known THEN GreetAgain
  ELSE /\ ui' = "test" /\ disassembler' \in BOOLEAN
       /\ UNCHANGED <<parser, handler, inputs_executed, new_coverage, start_time,
                      plot, fileVars, failed, pageVars>>

UpdateCoverage ==
  IF Known /\ disassembler
  THEN /\ written' = written + 1 /\ handler' = "edge"
       /\ UNCHANGED <<parser, disassembler, inputs_executed, new_coverage,
                      start_time, plot, moved, failed, uiVars>>
  ELSE Skip

(* avr-addr2line is asked about the executable, which must be known: a     *)
(* report has one stack frame at least.                                    *)
CrashingInput == IF Known THEN Skip ELSE Die

UpdateFuzzerStats(executed) ==
  IF Known /\ inputs_executed <= executed
  THEN /\ inputs_executed' = executed
       /\ UNCHANGED <<parser, handler, disassembler, new_coverage, start_time,
                      plot, fileVars, failed, uiVars>>
  ELSE Die

(* handle_body.                                                            *)
Handle(m) ==
  CASE m.kind = "target"   -> InitialMessage
    [] m.kind = "coverage" -> UpdateCoverage
    [] m.kind = "crash"    -> CrashingInput
    [] m.kind = "stats"    -> UpdateFuzzerStats(m.executed)
    [] OTHER               -> Die

(* on_new_edge.                                                            *)
FlagEdge ==
  /\ handler = "edge"
  /\ new_coverage' = TRUE /\ handler' = "flagged"
  /\ UNCHANGED <<parser, disassembler, inputs_executed, start_time, plot,
                 fileVars, failed, uiVars>>

\* Fault: the time base is set once there is a point to draw.
TimeEdgeLate ==
  /\ handler = "flagged"
  /\ start_time' = (plot > 0) /\ handler' = "timed"
  /\ UNCHANGED <<parser, disassembler, inputs_executed, new_coverage, plot,
                 fileVars, failed, uiVars>>

TimeEdge ==
  /\ handler = "flagged"
  /\ start_time' = TRUE /\ handler' = "timed"
  /\ UNCHANGED <<parser, disassembler, inputs_executed, new_coverage, plot,
                 fileVars, failed, uiVars>>

AppendEdge ==
  /\ handler = "timed"
  /\ plot' = plot + 1 /\ handler' = "none"
  /\ UNCHANGED <<parser, disassembler, inputs_executed, new_coverage, start_time,
                 fileVars, failed, uiVars>>

OnNewEdge == parser = "alive" /\ (FlagEdge \/ TimeEdge \/ AppendEdge)

HandlerFails == parser = "alive" /\ handler # "none" /\ Fail

-----------------------------------------------------------------------------
(* A round of run.  The statistics it writes and its sleep are left out,   *)
(* and so are disks that fail it.                                          *)
uiOnly == <<parser, handler, disassembler, inputs_executed, start_time, plot,
            fileVars, failed>>

TestFlag ==
  /\ ui = "test"
  /\ ui' = IF new_coverage THEN "clear" ELSE "plot"
  /\ UNCHANGED <<uiOnly, new_coverage, pageVars>>

ClearFlag ==
  /\ ui = "clear"
  /\ new_coverage' = FALSE /\ ui' = "gcovr"
  /\ UNCHANGED <<uiOnly, pageVars>>

(* gcovr reads the files, then writes the pages.                           *)
GcovrReads ==
  /\ ui = "gcovr"
  /\ snapshot' = written /\ ui' = "rendering"
  /\ UNCHANGED <<uiOnly, new_coverage, rendered, unshown>>

\* Fault: the flag is cleared when gcovr has ended.
GcovrEndsClearing ==
  /\ ui = "rendering"
  /\ rendered' = snapshot /\ unshown' = 0 /\ ui' = "plot"
  /\ new_coverage' = FALSE
  /\ UNCHANGED <<uiOnly, snapshot>>

GcovrEnds ==
  /\ ui = "rendering"
  /\ rendered' = snapshot /\ unshown' = 0 /\ ui' = "plot"
  /\ UNCHANGED <<uiOnly, new_coverage, snapshot>>

(* The status of os.system is not looked at, and the flag stays cleared.   *)
GcovrFails ==
  /\ ui = "rendering"
  /\ unshown' = snapshot /\ ui' = "plot"
  /\ UNCHANGED <<uiOnly, new_coverage, snapshot, rendered>>

(* plot_coverage subtracts start_time as soon as there is a point.         *)
PlotCoverage ==
  /\ ui = "plot"
  /\ ui' = IF plot > 0 /\ ~start_time THEN "dead" ELSE "test"
  /\ UNCHANGED <<uiOnly, new_coverage, pageVars>>

Run == TestFlag \/ ClearFlag \/ GcovrReads \/ GcovrEnds \/ GcovrFails
       \/ PlotCoverage

-----------------------------------------------------------------------------
(* parser.kill() takes the UI thread and the memory of the process along;  *)
(* the files stay.                                                         *)
Kill ==
  /\ parser' = "killed" /\ handler' = "none" /\ ui' = "killed"
  /\ disassembler' = FALSE /\ new_coverage' = FALSE /\ start_time' = FALSE
  /\ inputs_executed' = 0 /\ plot' = 0 /\ unshown' = 0
  /\ UNCHANGED <<fileVars, failed, snapshot, rendered>>

ReportsInit ==
  /\ parser = "alive" /\ handler = "none" /\ ui = "off"
  /\ disassembler = FALSE /\ new_coverage = FALSE /\ start_time = FALSE
  /\ inputs_executed = 0 /\ plot = 0
  /\ written = 0 /\ snapshot = 0 /\ rendered = 0
  /\ unshown = 0 /\ moved = FALSE /\ failed = FALSE
=============================================================================
