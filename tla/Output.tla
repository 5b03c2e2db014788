------------------------------- MODULE Output -------------------------------
(***************************************************************************)
(* The locks of the two outputs, CONSOLE (src/src/console.rs) and           *)
(* GLOBAL_LOGGER (src/src/qemu_log.rs), the prints that take them, and the  *)
(* panic handler (src/src/panic.rs), on several CPUs.  An exception handler *)
(* panics, so a CPU can panic anywhere, inside a print and inside the panic *)
(* handler too; nothing unwinds, and no guard is dropped.                   *)
(***************************************************************************)
EXTENDS Naturals, FiniteSets

CONSTANTS
  CPU,
  MaxPrints,    \* bound: prints of one CPU
  MaxPanics     \* bound: panics of one CPU

Device == {"console", "logger"}

VARIABLES
  locked,     \* the flag of each SpinMutex
  pc,         \* [at, dev]: where each CPU is
  prints, panics

vars == <<locked, pc, prints, panics>>

Init ==
  /\ locked = [d \in Device |-> FALSE]
  /\ pc = [c \in CPU |-> [at |-> "run", dev |-> "none"]]
  /\ prints = [c \in CPU |-> 0]
  /\ panics = [c \in CPU |-> 0]

Goto(c, at, dev) == pc' = [pc EXCEPT ![c] = [at |-> at, dev |-> dev]]
At(c, at) == pc[c].at = at

-----------------------------------------------------------------------------
(* console_println! and qemu_println! *)
print(c, d) ==
  /\ At(c, "run") /\ prints[c] < MaxPrints
  /\ prints' = [prints EXCEPT ![c] = @ + 1]
  /\ Goto(c, "lock", d)
  /\ UNCHANGED <<locked, panics>>

(* SpinMutex::lock succeeds. *)
SpinMutex_lock(d) == ~ locked[d] /\ locked' = [locked EXCEPT ![d] = TRUE]

(* Dropping a guard stores FALSE, whoever set the flag last. *)
SpinMutex_drop(d) == locked' = [locked EXCEPT ![d] = FALSE]

lock(c) ==
  /\ At(c, "lock")
  /\ SpinMutex_lock(pc[c].dev)
  /\ Goto(c, "write", pc[c].dev)
  /\ UNCHANGED <<prints, panics>>

written(c) ==
  /\ At(c, "write")
  /\ SpinMutex_drop(pc[c].dev)
  /\ Goto(c, "run", "none")
  /\ UNCHANGED <<prints, panics>>

-----------------------------------------------------------------------------
panic(c) ==
  /\ ~ At(c, "halted") /\ panics[c] < MaxPanics
  /\ panics' = [panics EXCEPT ![c] = @ + 1]
  /\ Goto(c, "force_unlock", "console")
  /\ UNCHANGED <<locked, prints>>

(* Mutant: nothing is forced. *)
forced_not(d) == UNCHANGED locked

forced(d) == locked' = [locked EXCEPT ![d] = FALSE]

_force_unlock_panic_outputs(c) ==
  /\ At(c, "force_unlock")
  /\ forced(pc[c].dev)
  /\ IF pc[c].dev = "console" THEN Goto(c, "force_unlock", "logger")
     ELSE Goto(c, "panic_lock", "logger")
  /\ UNCHANGED <<prints, panics>>

panic_lock(c) ==
  /\ At(c, "panic_lock")
  /\ SpinMutex_lock(pc[c].dev)
  /\ Goto(c, "panic_write", pc[c].dev)
  /\ UNCHANGED <<prints, panics>>

(* qemu_println! returns; the console is locked next. *)
panic_logged(c) ==
  /\ At(c, "panic_write") /\ pc[c].dev = "logger"
  /\ SpinMutex_drop("logger")
  /\ Goto(c, "panic_lock", "console")
  /\ UNCHANGED <<prints, panics>>

(* The message and the stack trace are written: hlt, with the guard alive. *)
panic_halt(c) ==
  /\ At(c, "panic_write") /\ pc[c].dev = "console"
  /\ Goto(c, "halted", "console")
  /\ UNCHANGED <<locked, prints, panics>>

Step(c) ==
  \/ lock(c) \/ written(c)
  \/ _force_unlock_panic_outputs(c) \/ panic_lock(c) \/ panic_logged(c) \/ panic_halt(c)

Next == \E c \in CPU : Step(c) \/ panic(c) \/ \E d \in Device : print(c, d)

(* A CPU goes on unless it waits for a lock; when it prints and whether it  *)
(* panics is left open.                                                     *)
Spec == Init /\ [][Next]_vars /\ \A c \in CPU : WF_vars(Step(c))

-----------------------------------------------------------------------------
Panicked(c) == panics[c] > 0

(* After a panic some CPU gets its report out and halts, whatever locks the *)
(* panicking CPU and the others held, and if others panic meanwhile.        *)
PanicReported == (\E c \in CPU : Panicked(c)) ~> (\E c \in CPU : At(c, "halted"))
=============================================================================
