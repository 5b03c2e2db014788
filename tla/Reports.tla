------------------------------ MODULE Reports ------------------------------
(***************************************************************************)
(* How the kernel reports: characters on the screen (Console), the locks   *)
(* of the outputs and the panic handler that forces them (Output), the     *)
(* stack trace it prints (StackTrace), and the handler of the test build   *)
(* (TestRunner).  A behaviour is one of one of the four.                   *)
(***************************************************************************)
EXTENDS Console, Sequences

CONSTANTS CPU, MaxPrints, MaxPanics                                  \* of Output
CONSTANTS Begin, End, Symbols, Functions, Entries, Wrappers, MaxDepth  \* of StackTrace
CONSTANTS Scripts, MaxTests                                          \* of TestRunner

VARIABLES
  part,
  locked, pc, prints, panics,
  stack, rbp, func_name, printed, done, walked,
  tests, current_test, should_current_test_panic, success_tests_num, failed_tests_num,
  phase, step, held, logger

output_vars == <<locked, pc, prints, panics>>
trace_vars == <<stack, rbp, func_name, printed, done, walked>>
test_vars == <<tests, current_test, should_current_test_panic, success_tests_num,
               failed_tests_num, phase, step, held, logger>>

Out == INSTANCE Output
Trace == INSTANCE StackTrace
Tests == INSTANCE TestRunner WITH locked <- held

ASSUME SymbolsAssumption == Trace!SymbolsOK
ASSUME TestsAssumption == Tests!ScriptsOK

-----------------------------------------------------------------------------
(* What does not run stays in one of its initial states. *)
OneScreen == CHOOSE s \in Screens : TRUE
OneStack == CHOOSE s \in [1 .. 2 -> Trace!Activations] : Trace!StackOK(s)

ReportsInit ==
  /\ part \in {"console", "output", "trace", "tests"}
  /\ Init /\ (part # "console" => screen = OneScreen)
  /\ Out!Init
  /\ Trace!InitAt(IF part = "trace" THEN Trace!Stacks ELSE {OneStack})
  /\ Tests!Init /\ (part # "tests" => tests = <<>>)

ReportsNext ==
  \/ part = "console" /\ Next /\ UNCHANGED <<part, output_vars, trace_vars, test_vars>>
  \/ part = "output" /\ Out!Next /\ UNCHANGED <<part, vars, trace_vars, test_vars>>
  \/ part = "trace" /\ Trace!Next /\ UNCHANGED <<part, vars, output_vars, test_vars>>
  \/ part = "tests" /\ Tests!Next /\ UNCHANGED <<part, vars, output_vars, trace_vars>>

(* The fairness of Output and TestRunner, whichever runs *)
ReportsSpec ==
  /\ ReportsInit
  /\ [][ReportsNext]_<<part, vars, output_vars, trace_vars, test_vars>>
  /\ \A c \in CPU : WF_output_vars(part = "output" /\ Out!Step(c))
  /\ WF_test_vars(part = "tests" /\ Tests!Next)

-----------------------------------------------------------------------------
(* After a panic some CPU gets its report out and halts, whatever locks the *)
(* panicking CPU and the others held, and if others panic meanwhile.        *)
PanicReported == Out!PanicReported

(* The trace names, in order and up to kmain or cpu_main, all functions on  *)
(* the stack that called one with a frame: it leaves out only what an       *)
(* exception interrupted.                                                   *)
TraceFaithful == Trace!TraceFaithful

(* The summary of the test build counts every test once, as the example of  *)
(* should_panic! says it ends.                                              *)
SummaryExact == Tests!SummaryExact

(* The test run ends with a summary, panics or not, exactly if no test      *)
(* needs a lock that an earlier one panicked with, or panics inside a print.*)
Finishes ==
  /\ part = "tests" /\ Tests!LocksLeft ~> phase = "done"
  /\ [](phase = "done" => Tests!LocksLeft)
=============================================================================
