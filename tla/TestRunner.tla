----------------------------- MODULE TestRunner -----------------------------
(***************************************************************************)
(* src/src/test.rs: the tests run one inside the other.  run_test calls     *)
(* next_test when its test returns, the panic handler calls it when the     *)
(* test panics, and next_test calls run_test of the next one.  A test is    *)
(* the sequence of what it does that the runner can notice.                 *)
(***************************************************************************)
EXTENDS Naturals, Sequences, FiniteSets

CONSTANTS
  Scripts,      \* tests: sequences of Deeds
  MaxTests      \* bound: number of tests

(* "print" takes the lock of GLOBAL_LOGGER and "printed" drops it. *)
Deeds == {"lock", "unlock", "print", "printed", "should_panic", "panic"}

(* A test that panics does nothing after it; a print ends or panics. *)
ScriptsOK ==
  /\ Scripts \subseteq Seq(Deeds)
  /\ \A s \in Scripts : \A i \in 1 .. Len(s) :
       /\ s[i] = "panic" => i = Len(s)
       /\ s[i] = "print" => i < Len(s) /\ s[i + 1] \in {"printed", "panic"}

VARIABLES
  tests,                         \* the tests of this build
  current_test,                  \* from 0
  should_current_test_panic,
  success_tests_num, failed_tests_num,
  phase,                         \* "start", "begin", "run", "panic", "done"
  step,                          \* what the current test does next
  locked,                        \* a lock of the kernel that tests take
  logger                         \* GLOBAL_LOGGER is locked

counts == <<success_tests_num, failed_tests_num>>
vars == <<tests, current_test, should_current_test_panic, counts, phase, step, locked, logger>>

Init ==
  /\ tests \in UNION {[1 .. n -> Scripts] : n \in 0 .. MaxTests}
  /\ current_test = 0 /\ should_current_test_panic = FALSE
  /\ success_tests_num = 0 /\ failed_tests_num = 0
  /\ phase = "start" /\ step = 1
  /\ locked = FALSE /\ logger = FALSE

Script == tests[current_test + 1]

(* qemu_print!, which waits for the lock and drops it *)
qemu_print == ~ logger

success == success_tests_num' = success_tests_num + 1 /\ UNCHANGED failed_tests_num
failed == failed_tests_num' = failed_tests_num + 1 /\ UNCHANGED success_tests_num

(* Mutant: the flag of the last test stays. *)
next_test_marked ==
  /\ current_test' = current_test + 1
  /\ phase' = IF current_test + 1 >= Len(tests) THEN "done" ELSE "begin"
  /\ step' = 1
  /\ UNCHANGED <<tests, should_current_test_panic, locked, logger>>

(* The summary and exit_qemu, or the next test. *)
next_test ==
  /\ current_test' = current_test + 1
  /\ IF current_test + 1 >= Len(tests)
     THEN phase' = "done" /\ UNCHANGED should_current_test_panic
     ELSE phase' = "begin" /\ should_current_test_panic' = FALSE
  /\ step' = 1
  /\ UNCHANGED <<tests, locked, logger>>

(* tests[0] is out of bounds if there is none. *)
test_runner ==
  /\ phase = "start" /\ qemu_print
  /\ phase' = IF tests = <<>> THEN "panic" ELSE "begin"
  /\ UNCHANGED <<tests, current_test, should_current_test_panic, counts, step, locked, logger>>

(* run_test up to the call of its test *)
run_test_begin ==
  /\ phase = "begin" /\ qemu_print
  /\ phase' = "run"
  /\ UNCHANGED <<tests, current_test, should_current_test_panic, counts, step, locked, logger>>

Does(what) == phase = "run" /\ step <= Len(Script) /\ Script[step] = what

test_lock ==
  /\ Does("lock") /\ ~ locked
  /\ locked' = TRUE /\ step' = step + 1
  /\ UNCHANGED <<tests, current_test, should_current_test_panic, counts, phase, logger>>

test_unlock ==
  /\ Does("unlock")
  /\ locked' = FALSE /\ step' = step + 1
  /\ UNCHANGED <<tests, current_test, should_current_test_panic, counts, phase, logger>>

test_print ==
  /\ Does("print") /\ ~ logger
  /\ logger' = TRUE /\ step' = step + 1
  /\ UNCHANGED <<tests, current_test, should_current_test_panic, counts, phase, locked>>

test_printed ==
  /\ Does("printed")
  /\ logger' = FALSE /\ step' = step + 1
  /\ UNCHANGED <<tests, current_test, should_current_test_panic, counts, phase, locked>>

should_panic ==
  /\ Does("should_panic")
  /\ should_current_test_panic' = TRUE /\ step' = step + 1
  /\ UNCHANGED <<tests, current_test, counts, phase, locked, logger>>

test_panic ==
  /\ Does("panic")
  /\ phase' = "panic"
  /\ UNCHANGED <<tests, current_test, should_current_test_panic, counts, step, locked, logger>>

(* run_test after its test returned *)
run_test ==
  /\ phase = "run" /\ step > Len(Script) /\ qemu_print
  /\ IF should_current_test_panic THEN failed ELSE success
  /\ next_test

(* Mutant: a test that should panic ends the run. *)
panic_last ==
  /\ phase = "panic" /\ qemu_print
  /\ IF should_current_test_panic THEN success ELSE failed
  /\ ~ should_current_test_panic /\ next_test

panic ==
  /\ phase = "panic" /\ qemu_print
  /\ IF should_current_test_panic THEN success ELSE failed
  /\ next_test

Next ==
  \/ test_runner \/ run_test_begin \/ run_test \/ panic
  \/ test_lock \/ test_unlock \/ test_print \/ test_printed \/ should_panic \/ test_panic

(* One CPU that goes on unless it spins for a lock. *)
Spec == Init /\ [][Next]_vars /\ WF_vars(Next)

-----------------------------------------------------------------------------
Index(s, what) == {i \in DOMAIN s : s[i] = what}

(* What the example of should_panic! calls a test that passes: it panics    *)
(* after should_panic!, or it does neither.                                 *)
Passes(s) ==
  IF Index(s, "panic") = {} THEN Index(s, "should_panic") = {}
  ELSE \E i \in Index(s, "panic"), j \in Index(s, "should_panic") : j < i

(* The test panics with the lock held. *)
Leaks(s) == Index(s, "panic") # {} /\ Index(s, "lock") # {} /\ Index(s, "unlock") = {}
NeedsLock(s) == Index(s, "lock") # {}

(* The test panics inside a print, which keeps the lock of GLOBAL_LOGGER. *)
PanicsInPrint(s) == \E i \in Index(s, "print"), j \in Index(s, "panic") : j = i + 1

(* The summary counts every test once, as the example of should_panic! says *)
(* it ends, with the tests running inside each other's calls and panics.    *)
SummaryExact ==
  phase = "done" /\ tests # <<>> =>
    /\ success_tests_num = Cardinality({i \in DOMAIN tests : Passes(tests[i])})
    /\ success_tests_num + failed_tests_num = Len(tests)

(* The run ends with a summary, panics or not, unless a test needs a lock   *)
(* that an earlier one panicked with, or panics inside a print: the handler *)
(* releases no lock, and takes that of GLOBAL_LOGGER itself.                *)
LocksLeft ==
  /\ \A i, j \in DOMAIN tests : i < j /\ Leaks(tests[i]) => ~ NeedsLock(tests[j])
  /\ \A i \in DOMAIN tests : ~ PanicsInPrint(tests[i])

(* And only then: with such a test there is no summary. *)
Finishes == (LocksLeft ~> phase = "done") /\ [](phase = "done" => LocksLeft)
=============================================================================
