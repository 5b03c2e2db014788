------------------------------ MODULE CpuInit ------------------------------
(***************************************************************************)
(* The start of the processors: kmain_rs of src/src/main.rs and             *)
(* src/src/cpu.rs, with the smp feature, on the registers of the HPET, the  *)
(* IO APIC and the local APICs.  The boot processor sets the devices up,    *)
(* starts the others, and all of them run cpu_main_rs, which prints under   *)
(* the lock of CONSOLE; a processor that panics takes that lock for good.   *)
(* A local APIC id names its processor.                                     *)
(***************************************************************************)
EXTENDS Integers, Sequences, Devices

CONSTANTS
  Ids,              \* local APIC ids
  Lists,            \* lists of processors that the boot loader may give, by id
  MAX_CPU_COUNT,
  ClocksPerMs,      \* cycles of the local APIC's clock in a milli second
  ClocksPerTick,    \* and in a tick of the HPET's counter
  MaxClocks         \* bound: counts of cycles stop here

(* Local APIC ids and counts are numbers. *)
BootConstants ==
  /\ Ids \subseteq Nat /\ Lists \subseteq Seq(Ids) /\ MAX_CPU_COUNT \in Nat
  /\ ClocksPerMs \in Nat /\ ClocksPerTick \in Nat \ {0} /\ MaxClocks \in Nat

None == -1
Uninit == -1

VARIABLES
  cpus,         \* the boot loader's list
  bsp,          \* the boot processor
  pc,           \* where each processor is
  loaded,       \* the table in its IDTR
  idt,          \* the vectors from 32 on that SHARED_IDT has gates for
  locked,       \* who holds the Mutex of SHARED_IDT
  dev,          \* HPET and IO APIC
  lapic,        \* the local APICs
  written,      \* how many goto_address the boot processor has written
  percpus,      \* PERCPUS
  console       \* CONSOLE is locked

vars == <<cpus, bsp, pc, loaded, idt, locked, dev, lapic, written, percpus, console>>

(* The processors there are *)
Listed == {cpus[i] : i \in DOMAIN cpus}

NoEntry == [vector |-> 0, mask |-> TRUE, trigger |-> "EdgeSensetive"]

Init ==
  /\ cpus \in Lists /\ bsp \in Listed
  /\ pc = [c \in Ids |-> IF c = bsp THEN "kmain_rs" ELSE "parked"]
  /\ loaded = [c \in Ids |-> "none"]
  /\ idt = {} /\ locked = None
  /\ dev = [hpet |-> ConfigAtReset, timer |-> [int_enb |-> FALSE], select |-> 0,
            window |-> [reg \in {reg_num(2), reg_num(2) + 1} |-> IF reg = reg_num(2) THEN NoEntry ELSE 0]]
  /\ lapic = [c \in Ids |-> [spurious |-> [enabled |-> TRUE, vector |-> 255],
                             timer |-> 0, error |-> 0, div |-> 0, clocks |-> None,
                             slept |-> None, behind |-> 0]]
  /\ written = 0
  /\ percpus = [i \in 0 .. MAX_CPU_COUNT - 1 |-> Uninit]
  /\ console = FALSE

-----------------------------------------------------------------------------
Step(c, from, to) == pc[c] = from /\ pc' = [pc EXCEPT ![c] = to]

kmain_rs(c) ==
  /\ Step(c, "kmain_rs", "init")
  /\ loaded' = [loaded EXCEPT ![c] = "init"]
  /\ UNCHANGED <<cpus, bsp, idt, locked, dev, lapic, written, percpus, console>>

(* SHARED_IDT.guard(|idt| idt.lock().as_ref().load()) *)
LoadShared(c) ==
  /\ locked = None
  /\ loaded' = [loaded EXCEPT ![c] = "shared"]
  /\ UNCHANGED <<cpus, bsp, idt, locked, dev, lapic, written, percpus, console>>

init(c) == Step(c, "init", "timer_enable") /\ LoadShared(c)

cpu_main_rs(c) == Step(c, "cpu_main_rs", "local_apic_init") /\ LoadShared(c)

(* console_println! from the taking of the lock of CONSOLE to its drop.  What the boot         *)
(* processor prints before it starts the others meets nobody and is left out.                  *)
Printing(c, from, inside, to) ==
  /\ \/ ~ console /\ Step(c, from, inside) /\ console' = TRUE
     \/ Step(c, inside, to) /\ console' = FALSE
  /\ UNCHANGED <<cpus, bsp, loaded, idt, locked, dev, lapic, written, percpus>>

cpu_main_rs_prints(c) ==
  \/ Printing(c, "online", "print_online", "cpu_main_rs")
  \/ Printing(c, "init_done", "print_init_done", "hlt")

(* The panic handler unlocks CONSOLE, whoever holds it, and takes it for good. *)
panic(c) ==
  /\ \/ Step(c, "panic", "panic_lock") /\ console' = FALSE
     \/ ~ console /\ Step(c, "panic_lock", "halted") /\ console' = TRUE
  /\ UNCHANGED <<cpus, bsp, loaded, idt, locked, dev, lapic, written, percpus>>

(* hpet_init, one access to a device after the other *)
irq_redirection ==
  [dest |-> bsp, mask |-> FALSE, trigger_mode |-> "EdgeSensetive",
   destination_mode |-> "Physical", redirected_irq_num |-> 32]

DeviceAccess(c, from, to, new) ==
  /\ Step(c, from, to)
  /\ dev' = new
  /\ UNCHANGED <<cpus, bsp, loaded, idt, locked, lapic, written, percpus, console>>

Window(val) == [dev EXCEPT !.window[dev.select] = val]

(* Mutant: Hpet::enable is forgotten. *)
hpet_init_stopped(c) ==
  \/ DeviceAccess(c, "timer_enable", "legacy", [dev EXCEPT !.timer = timer_enable(@)])
  \/ DeviceAccess(c, "legacy", "select_low", [dev EXCEPT !.hpet = enable_legacy_mapping(@)])
  \/ DeviceAccess(c, "select_low", "write_low", [dev EXCEPT !.select = reg_num(2)])
  \/ DeviceAccess(c, "write_low", "select_high", Window(as_raw_low(irq_redirection)))
  \/ DeviceAccess(c, "select_high", "write_high", [dev EXCEPT !.select = reg_num(2) + 1])
  \/ DeviceAccess(c, "write_high", "insert_timer", Window(as_raw_high(irq_redirection)))

hpet_init(c) ==
  \/ DeviceAccess(c, "timer_enable", "legacy", [dev EXCEPT !.timer = timer_enable(@)])
  \/ DeviceAccess(c, "legacy", "select_low", [dev EXCEPT !.hpet = enable_legacy_mapping(@)])
  \/ DeviceAccess(c, "select_low", "write_low", [dev EXCEPT !.select = reg_num(2)])
  \/ DeviceAccess(c, "write_low", "select_high", Window(as_raw_low(irq_redirection)))
  \/ DeviceAccess(c, "select_high", "write_high", [dev EXCEPT !.select = reg_num(2) + 1])
  \/ DeviceAccess(c, "write_high", "hpet_enable", Window(as_raw_high(irq_redirection)))
  \/ DeviceAccess(c, "hpet_enable", "insert_timer", [dev EXCEPT !.hpet = enable(@)])

insert_timer(c) ==
  /\ Step(c, "insert_timer", "ioapic_version")
  /\ locked = None
  /\ idt' = idt \cup {32}
  /\ UNCHANGED <<cpus, bsp, loaded, locked, dev, lapic, written, percpus, console>>

(* IoApic::version, maximum_redirections and id, for the console *)
ioapic_print(c) ==
  \/ DeviceAccess(c, "ioapic_version", "ioapic_id", [dev EXCEPT !.select = 1])
  \/ DeviceAccess(c, "ioapic_id", "start", [dev EXCEPT !.select = 0])

(* goto_address.write(cpu_main) for every processor of the list, this one included *)
start_cpu(c) ==
  /\ pc[c] = "start" /\ written < Len(cpus)
  /\ written' = written + 1
  /\ UNCHANGED <<cpus, bsp, pc, loaded, idt, locked, dev, lapic, percpus, console>>

(* cpus()[bsp_lapic_id] *)
index_cpus(c) ==
  /\ written = Len(cpus)
  /\ Step(c, "start", IF bsp < Len(cpus) THEN "online" ELSE "panic")
  /\ UNCHANGED <<cpus, bsp, loaded, idt, locked, dev, lapic, written, percpus, console>>

(* The boot loader sends a parked processor to cpu_main. *)
cpu_main(c) ==
  /\ c # bsp /\ c \in {cpus[i] : i \in 1 .. written}
  /\ Step(c, "parked", "online")
  /\ UNCHANGED <<cpus, bsp, loaded, idt, locked, dev, lapic, written, percpus, console>>

-----------------------------------------------------------------------------
ApicAccess(c, from, to, new) ==
  /\ Step(c, from, to)
  /\ lapic' = [lapic EXCEPT ![c] = new]
  /\ UNCHANGED <<cpus, bsp, loaded, idt, locked, dev, written, percpus, console>>

(* Stores to its own APIC, which no other processor reads *)
set_vectors(c) ==
  ApicAccess(c, "local_apic_init", "idt_lock",
    [lapic[c] EXCEPT !.spurious = set_spurious_interrupt_irq(@, 33), !.timer = 34, !.error = 35])

idt_lock(c) ==
  /\ locked = None
  /\ Step(c, "idt_lock", "insert_33")
  /\ locked' = c
  /\ UNCHANGED <<cpus, bsp, loaded, idt, dev, lapic, written, percpus, console>>

(* Mutant: one gate is forgotten. *)
insert_two(c) ==
  /\ \/ Step(c, "insert_33", "insert_35") /\ idt' = idt \cup {33} /\ UNCHANGED locked
     \/ Step(c, "insert_35", "set_timer_div") /\ idt' = idt \cup {35} /\ locked' = None
  /\ UNCHANGED <<cpus, bsp, loaded, dev, lapic, written, percpus, console>>

(* Mutant: the lock is not released. *)
insert_locked(c) ==
  /\ \/ Step(c, "insert_33", "insert_34") /\ idt' = idt \cup {33} /\ UNCHANGED locked
     \/ Step(c, "insert_34", "insert_35") /\ idt' = idt \cup {34} /\ UNCHANGED locked
     \/ Step(c, "insert_35", "set_timer_div") /\ idt' = idt \cup {35} /\ UNCHANGED locked
  /\ UNCHANGED <<cpus, bsp, loaded, dev, lapic, written, percpus, console>>

(* The lock ends with the last of the three. *)
insert(c) ==
  /\ \/ Step(c, "insert_33", "insert_34") /\ idt' = idt \cup {33} /\ UNCHANGED locked
     \/ Step(c, "insert_34", "insert_35") /\ idt' = idt \cup {34} /\ UNCHANGED locked
     \/ Step(c, "insert_35", "set_timer_div") /\ idt' = idt \cup {35} /\ locked' = None
  /\ UNCHANGED <<cpus, bsp, loaded, dev, lapic, written, percpus, console>>

(* poll_sleep reads the counter, which may be behind by less than a tick, and ends when the    *)
(* whole ticks it has seen since make more than 1 ms.                                          *)
begin_sleep(c, from, to) ==
  \E b \in 0 .. ClocksPerTick - 1 :
    ApicAccess(c, from, to, [lapic[c] EXCEPT !.slept = 0, !.behind = b])

sleep_over(c) ==
  ClocksPerTick * ((lapic[c].slept + lapic[c].behind) \div ClocksPerTick) > ClocksPerMs

(* Mutant: the sleep begins before the count. *)
calibrate_late(c) ==
  \/ ApicAccess(c, "set_timer_div", "init_count", [lapic[c] EXCEPT !.div = 1])
  \/ begin_sleep(c, "init_count", "poll_sleep")
  \/ /\ pc[c] = "poll_sleep" /\ sleep_over(c)
     /\ ApicAccess(c, "poll_sleep", "current_count", [lapic[c] EXCEPT !.clocks = 0])

(* The count starts at u32::MAX. *)
calibrate(c) ==
  \/ ApicAccess(c, "set_timer_div", "init_count", [lapic[c] EXCEPT !.div = 1])
  \/ ApicAccess(c, "init_count", "begin_sleep", [lapic[c] EXCEPT !.clocks = 0])
  \/ begin_sleep(c, "begin_sleep", "poll_sleep")
  \/ /\ pc[c] = "poll_sleep" /\ sleep_over(c)
     /\ ApicAccess(c, "poll_sleep", "current_count", [lapic[c] EXCEPT !.slept = None, !.behind = 0])

(* The counts of this processor's APIC, and PERCPUS[LocalApic::id()] *)
ticks_per_ms(c) == lapic[c].clocks \div Divider[lapic[c].div]

write_percpu(c) ==
  /\ Step(c, "current_count", IF c < MAX_CPU_COUNT THEN "init_done" ELSE "panic")
  /\ percpus' = IF c < MAX_CPU_COUNT THEN [percpus EXCEPT ![c] = ticks_per_ms(c)] ELSE percpus
  /\ lapic' = [lapic EXCEPT ![c].clocks = None]
  /\ UNCHANGED <<cpus, bsp, loaded, idt, locked, dev, written, console>>

Passed(count, runs) == IF runs /\ count # None /\ count < MaxClocks THEN count + 1 ELSE count

(* Time: the counters of the local APICs, and the HPET's while it is enabled *)
tick ==
  /\ lapic' = [c \in Ids |-> [lapic[c] EXCEPT
       !.clocks = Passed(@, TRUE), !.slept = Passed(@, dev.hpet.enable_cnf)]]
  /\ lapic' # lapic
  /\ UNCHANGED <<cpus, bsp, pc, loaded, idt, locked, dev, written, percpus, console>>

Run(c) ==
  \/ kmain_rs(c) \/ init(c) \/ hpet_init(c) \/ insert_timer(c) \/ ioapic_print(c)
  \/ start_cpu(c) \/ index_cpus(c) \/ cpu_main(c) \/ cpu_main_rs_prints(c) \/ cpu_main_rs(c)
  \/ set_vectors(c) \/ idt_lock(c) \/ insert(c) \/ calibrate(c) \/ write_percpu(c)
  \/ panic(c)

Next == tick \/ \E c \in Ids : Run(c)

(* Every processor executes, and the clocks run.  Each takes a lock a       *)
(* bounded number of times: who waits for one forever waits for a processor *)
(* that keeps it.                                                           *)
Fairness == WF_vars(tick) /\ \A c \in Ids : WF_vars(Run(c))

Spec == Init /\ [][Next]_vars /\ Fairness

-----------------------------------------------------------------------------
(* When a second processor runs the kernel, the devices that only hpet_init *)
(* configures, without a lock, are configured: the counter of poll_sleep    *)
(* runs, and the timer's interrupt is redirected to a vector with a gate.   *)
DevicesReady ==
  (\E c \in Ids \ {bsp} : pc[c] # "parked") =>
    /\ dev.hpet.enable_cnf /\ dev.hpet.leg_rt_cnf /\ dev.timer.int_enb
    /\ dev.window[reg_num(2)] = as_raw_low(irq_redirection)
    /\ dev.window[reg_num(2) + 1] = as_raw_high(irq_redirection)
    /\ irq_redirection.redirected_irq_num \in idt

(* A processor that waits in hlt has loaded the shared table, and the table *)
(* has a gate for every vector its local APIC may send it.                  *)
VectorsHandled ==
  \A c \in Ids : pc[c] = "hlt" =>
    /\ loaded[c] = "shared"
    /\ {lapic[c].spurious.vector, lapic[c].timer, lapic[c].error} \subseteq idt

(* PERCPUS holds for each processor that is done what its own local APIC    *)
(* counts in a milli second, or more, but for less than the one tick by     *)
(* which poll_sleep may end early, and nothing for the others.              *)
Done == {"init_done", "print_init_done", "hlt"}

Calibrated ==
  \A i \in DOMAIN percpus :
    IF i \in Ids /\ pc[i] \in Done
    THEN percpus[i] >= (ClocksPerMs - (ClocksPerTick - 1)) \div Divider[lapic[i].div]
    ELSE percpus[i] = Uninit

(* Every processor comes to wait in hlt, or has panicked for an id beyond   *)
(* PERCPUS or, the boot processor, beyond the list.  Only a processor that  *)
(* has panicked may keep others from it, as it keeps CONSOLE: they wait     *)
(* there, before they load the shared table or when all is done.            *)
Completed ==
  \A c \in Listed :
    \/ pc[c] = "hlt" /\ c < MAX_CPU_COUNT
    \/ pc[c] = "halted" /\ (c >= MAX_CPU_COUNT \/ (c = bsp /\ bsp >= Len(cpus)))
    \/ /\ pc[c] \in {"online", "init_done", "panic_lock"}
       /\ console /\ \E d \in Listed : pc[d] = "halted"

BootCompletes == <>[]Completed
=============================================================================
