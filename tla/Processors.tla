----------------------------- MODULE Processors -----------------------------
(***************************************************************************)
(* The handlers as a processor enters and leaves them (Trampoline), the     *)
(* start of the processors (CpuInit), and the waits that count the HPET's   *)
(* ticks (Time).  A behaviour is one of one of the three: they use the same *)
(* processors at different grains, and run here side by side only to share  *)
(* a run.                                                                   *)
(***************************************************************************)
EXTENDS Trampoline

CONSTANTS Ids, Lists, MAX_CPU_COUNT, ClocksPerMs, ClocksPerTick, MaxClocks     \* of CpuInit
CONSTANTS Cpu, FsPerTick, FsPerNs, Durations, MaxFs, LastCall, MaxClock        \* of Time

VARIABLES
  part,                                                 \* which of the three
  cpus, bsp, at, loaded, idt, locked, dev, lapic, written, percpus, console,
  clock, comparator, fired, doing, nanos, seen, start, asked

boot_vars == <<cpus, bsp, at, loaded, idt, locked, dev, lapic, written, percpus, console>>
clock_vars == <<clock, comparator, fired, doing, nanos, seen, start, asked>>

Boot == INSTANCE CpuInit WITH pc <- at
Clock == INSTANCE Time WITH pc <- doing

ASSUME BootAssumption == Boot!BootConstants
ASSUME TimeAssumption == Clock!TimeConstants

-----------------------------------------------------------------------------
(* What does not run stays in one of its initial states. *)
ProcessorsInit ==
  /\ part \in {"interrupts", "boot", "time"}
  /\ Init /\ (part # "interrupts" => stack = <<>> /\ ~ flag)
  /\ Boot!Init /\ (part # "boot" => cpus = (CHOOSE list \in Lists : TRUE) /\ bsp = cpus[1])
  /\ Clock!Init

ProcessorsNext ==
  \/ part = "interrupts" /\ Next /\ UNCHANGED <<part, boot_vars, clock_vars>>
  \/ part = "boot" /\ Boot!Next /\ UNCHANGED <<part, vars, clock_vars>>
  \/ part = "time" /\ Clock!Next /\ UNCHANGED <<part, vars, boot_vars>>

(* With the fairness of CpuInit *)
ProcessorsSpec ==
  /\ ProcessorsInit /\ [][ProcessorsNext]_<<part, vars, boot_vars, clock_vars>>
  /\ WF_boot_vars(part = "boot" /\ Boot!tick)
  /\ \A c \in Ids : WF_boot_vars(part = "boot" /\ Boot!Run(c))

-----------------------------------------------------------------------------
(* The devices only hpet_init configures, without a lock, are configured    *)
(* when a second processor runs the kernel.                                 *)
DevicesReady == Boot!DevicesReady

(* A processor that waits in hlt has loaded a table with a gate for every   *)
(* vector its local APIC may send it.                                       *)
VectorsHandled == Boot!VectorsHandled

(* PERCPUS holds what the local APIC of each processor that is done counts  *)
(* in a milli second, or more, but for less than a tick of the HPET, and    *)
(* nothing for the others.                                                  *)
Calibrated == Boot!Calibrated

(* Every processor comes to wait in hlt, or panics for an id out of bounds, *)
(* or waits for the CONSOLE that a processor keeps which has panicked.      *)
BootCompletes == <>[](part = "boot" => Boot!Completed)

(* poll_sleep returns when the whole duration has passed but for less than  *)
(* the one tick by which the counter it read first may have been behind.    *)
SleptEnough == Clock!SleptEnough

(* The interrupt of start_timer comes less than two ticks early, whoever    *)
(* else starts the timer between its read of the counter and its store.     *)
TimerNotEarly == Clock!TimerNotEarly
=============================================================================
