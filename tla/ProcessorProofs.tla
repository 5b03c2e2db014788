-------------------------- MODULE ProcessorProofs ---------------------------
(***************************************************************************)
(* Processors and their timers: sleeps are long enough and the timer is    *)
(* not early (Time), and the start of the processors (CpuInit), for any    *)
(* number of processors, tick length and duration.                         *)
(***************************************************************************)
EXTENDS Processors, Sequences, TLAPS

(* What a call holds: the counter it read is the one of its start, and an   *)
(* interrupt that has been thrown belongs to the comparator's call.         *)
CallState ==
  /\ clock \in Nat /\ comparator \in Nat /\ fired \in BOOLEAN
  /\ doing \in [Cpu -> {"idle", "sleeping", "woken", "starting"}]
  /\ nanos \in [Cpu -> Nat] /\ seen \in [Cpu -> Nat] /\ start \in [Cpu -> Nat]
  /\ asked \in [start : Nat, nanos : Nat]
  /\ \A c \in Cpu : seen[c] = start[c] \div FsPerTick

(* What the comparator was set for *)
ComparatorState ==
  /\ comparator = asked.start \div FsPerTick + (asked.nanos * FsPerNs) \div FsPerTick
  /\ fired => clock \div FsPerTick >= comparator

IInv == CallState /\ ComparatorState /\ Clock!SleptEnough
-----------------------------------------------------------------------------
(* Division by a positive number rounds down. *)
LEMMA DivBounds ==
  ASSUME NEW a \in Int, NEW d \in Nat \ {0}
  PROVE  /\ a \div d \in Int
         /\ d * (a \div d) <= a
         /\ a < d * (a \div d) + d
         /\ a \in Nat => a \div d \in Nat
OBVIOUS

(* The counter, at a time or over a duration of a femto seconds *)
LEMMA TickBounds ==
  ASSUME NEW a \in Int
  PROVE  /\ a \div FsPerTick \in Int
         /\ FsPerTick * (a \div FsPerTick) <= a
         /\ a < FsPerTick * (a \div FsPerTick) + FsPerTick
         /\ a \in Nat => a \div FsPerTick \in Nat
BY TimeAssumption, DivBounds DEF Clock!TimeConstants

(* A larger quotient is a larger product. *)
LEMMA Products ==
  ASSUME NEW d \in Nat \ {0}, NEW m \in Int, NEW n \in Int, m <= n
  PROVE  d * m <= d * n
OBVIOUS

(* The clock only grows, and so does the counter. *)
LEMMA DivGrows ==
  ASSUME NEW a \in Nat, NEW d \in Nat \ {0}
  PROVE  a \div d <= (a + 1) \div d
OBVIOUS

-----------------------------------------------------------------------------
(* Init, and the bound of the initial comparator *)
LEMMA InitIInv == Clock!Init => IInv
<1> USE TimeAssumption DEF Clock!TimeConstants
<1>1. 0 \div FsPerTick = 0
  OBVIOUS
<1>2. 0 * FsPerNs = 0
  OBVIOUS
<1> SUFFICES ASSUME Clock!Init PROVE IInv
  OBVIOUS
<1>3. \A c \in Cpu : seen[c] = start[c] \div FsPerTick
  BY <1>1, Zenon DEF Clock!Init
<1>4. CallState
  BY <1>3, Zenon DEF Clock!Init, CallState
<1>5. ComparatorState
  BY <1>1, <1>2 DEF Clock!Init, ComparatorState
<1> QED BY <1>4, <1>5 DEF Clock!Init, IInv, Clock!SleptEnough

(* A sleep that sleep_over ends has lasted its duration but for a tick. *)
LEMMA SleepOver ==
  ASSUME CallState, NEW c \in Cpu, Clock!sleep_over(c)
  PROVE  clock - start[c] > Clock!femto_seconds(nanos[c]) - FsPerTick
<1> USE TimeAssumption DEF Clock!TimeConstants
<1>1. clock \in Nat /\ start[c] \in Nat /\ nanos[c] \in Nat /\ seen[c] = start[c] \div FsPerTick
  BY DEF CallState
<1> DEFINE k == clock \div FsPerTick
           e == FsPerTick * k - FsPerTick * seen[c]
           q == e \div FsPerNs
<1>2. k \in Int /\ FsPerTick * k <= clock
  BY <1>1, DivBounds
<1>3. seen[c] \in Int /\ start[c] < FsPerTick * seen[c] + FsPerTick
  <2>1. start[c] \div FsPerTick \in Int /\ start[c] < FsPerTick * (start[c] \div FsPerTick) + FsPerTick
    <3>1. start[c] \in Int
      BY <1>1
    <3> QED BY ONLY <3>1, TickBounds, Zenon
  <2> QED BY <1>1, <2>1
<1>4. e \in Int
  BY <1>2, <1>3
<1>5. q \in Int /\ q > nanos[c]
  <2>1. q \in Int
    BY <1>4, DivBounds
  <2>2. (k * FsPerTick - seen[c] * FsPerTick) = e
    BY <1>2, <1>3
  <2> QED BY <2>1, <2>2 DEF Clock!sleep_over, Clock!elapsed_fs, Clock!read_main_counter
<1>6. FsPerNs * q <= e
  BY <1>4, DivBounds, Zenon
<1>7. FsPerNs * (nanos[c] + 1) <= FsPerNs * q
  BY <1>1, <1>5, Products
<1>8. FsPerNs * (nanos[c] + 1) = nanos[c] * FsPerNs + FsPerNs
  BY <1>1
<1>9. nanos[c] * FsPerNs \in Nat /\ FsPerTick * k \in Int /\ FsPerTick * seen[c] \in Int /\ FsPerNs * q \in Int
  BY <1>1, <1>2, <1>3, <1>5
<1> HIDE DEF k, q
<1> QED BY <1>1, <1>2, <1>3, <1>6, <1>7, <1>8, <1>9 DEF Clock!femto_seconds

(* Every step keeps IInv. *)
LEMMA StepIInv == IInv /\ [Clock!Next]_Clock!vars => IInv'
<1> USE TimeAssumption DEF Clock!TimeConstants
<1> SUFFICES ASSUME IInv, [Clock!Next]_Clock!vars PROVE IInv'
  OBVIOUS
<1> USE DEF IInv
<1>1. CASE Clock!advance
  <2>1. CallState'
    BY <1>1 DEF CallState, Clock!advance
  <2>2. ComparatorState'
    <3>1. clock \in Nat /\ clock' = clock + 1 /\ comparator \in Nat
      BY <1>1 DEF Clock!advance, CallState
    <3>2. clock \div FsPerTick \in Int /\ (clock + 1) \div FsPerTick \in Int
      BY <3>1, DivBounds
    <3>3. clock \div FsPerTick <= (clock + 1) \div FsPerTick
      BY <3>1, DivGrows
    <3>4. fired' => (clock + 1) \div FsPerTick >= comparator
      <4>1. fired' => fired \/ (clock + 1) \div FsPerTick = comparator
        BY <1>1, Zenon DEF Clock!advance, Clock!read_main_counter
      <4>2. fired => clock \div FsPerTick >= comparator
        BY Zenon DEF ComparatorState
      <4>3. CASE fired
        BY <3>1, <3>2, <3>3, <4>2, <4>3
      <4>4. CASE (clock + 1) \div FsPerTick = comparator
        BY <3>1, <4>4
      <4> QED BY <4>1, <4>3, <4>4, Zenon
    <3> QED BY <1>1, <3>1, <3>4 DEF Clock!advance, ComparatorState
  <2>3. Clock!SleptEnough'
    <3> SUFFICES ASSUME NEW c \in Cpu, doing'[c] = "woken"
                 PROVE  clock' - start'[c] > Clock!femto_seconds(nanos'[c]) - FsPerTick
      BY DEF Clock!SleptEnough, Clock!femto_seconds
    <3>1. clock - start[c] > Clock!femto_seconds(nanos[c]) - FsPerTick
      BY <1>1 DEF Clock!advance, Clock!SleptEnough
    <3>2. clock \in Nat /\ start[c] \in Nat /\ Clock!femto_seconds(nanos[c]) \in Nat
      BY DEF CallState, Clock!femto_seconds
    <3> QED BY <1>1, <3>1, <3>2 DEF Clock!advance
  <2> QED BY <2>1, <2>2, <2>3
<1>2. ASSUME NEW c \in Cpu, NEW n \in Durations, NEW where \in {"sleeping", "starting"}, Clock!Begin(c, n, where)
      PROVE  IInv'
  <2>1. clock \div FsPerTick \in Nat
    <3>1. clock \in Int /\ clock \in Nat
      BY DEF CallState
    <3> QED BY ONLY <3>1, TickBounds, Zenon
  <2>2. CallState'
    BY <1>2, <2>1 DEF CallState, Clock!Begin, Clock!read_main_counter
  <2>3. ComparatorState'
    BY <1>2 DEF ComparatorState, Clock!Begin
  <2>4. Clock!SleptEnough'
    <3> SUFFICES ASSUME NEW d \in Cpu, doing'[d] = "woken"
                 PROVE  clock' - start'[d] > Clock!femto_seconds(nanos'[d]) - FsPerTick
      BY DEF Clock!SleptEnough, Clock!femto_seconds
    <3>1. d # c /\ doing[d] = "woken" /\ start'[d] = start[d] /\ nanos'[d] = nanos[d] /\ clock' = clock
      BY <1>2 DEF Clock!Begin, CallState
    <3> QED BY <3>1 DEF Clock!SleptEnough
  <2> QED BY <2>2, <2>3, <2>4
<1>3. ASSUME NEW c \in Cpu, Clock!poll(c) PROVE IInv'
  <2>1. CallState'
    BY <1>3 DEF CallState, Clock!poll
  <2>2. ComparatorState'
    BY <1>3 DEF ComparatorState, Clock!poll
  <2>3. Clock!SleptEnough'
    <3> SUFFICES ASSUME NEW d \in Cpu, doing'[d] = "woken"
                 PROVE  clock - start[d] > Clock!femto_seconds(nanos[d]) - FsPerTick
      BY <1>3 DEF Clock!SleptEnough, Clock!femto_seconds, Clock!poll
    <3>1. CASE d = c /\ Clock!sleep_over(c)
      BY <3>1, SleepOver
    <3>2. CASE ~ (d = c /\ Clock!sleep_over(c))
      <4>1. doing[d] = "woken"
        BY <1>3, <3>2 DEF Clock!poll, CallState
      <4> QED BY <4>1 DEF Clock!SleptEnough
    <3> QED BY <3>1, <3>2
  <2> QED BY <2>1, <2>2, <2>3
<1>4. ASSUME NEW c \in Cpu, Clock!set_counter_raw(c) PROVE IInv'
  <2>1. nanos[c] * FsPerNs \in Nat /\ seen[c] \in Nat /\ seen[c] = start[c] \div FsPerTick
    BY DEF CallState
  <2>2. (nanos[c] * FsPerNs) \div FsPerTick \in Nat
    BY <2>1, DivBounds
  <2>3. Clock!comparator_value(c) \in Nat
    BY <2>1, <2>2 DEF Clock!comparator_value, Clock!femto_seconds
  <2>4. CallState'
    BY <1>4, <2>3, Zenon DEF CallState, Clock!set_counter_raw
  <2>5. ComparatorState'
    BY <1>4, <2>1 DEF ComparatorState, Clock!set_counter_raw, Clock!comparator_value, Clock!femto_seconds
  <2>6. Clock!SleptEnough'
    <3> SUFFICES ASSUME NEW d \in Cpu, doing'[d] = "woken"
                 PROVE  clock - start[d] > Clock!femto_seconds(nanos[d]) - FsPerTick
      BY <1>4 DEF Clock!SleptEnough, Clock!femto_seconds, Clock!set_counter_raw
    <3>1. doing[d] = "woken"
      BY <1>4 DEF Clock!set_counter_raw, CallState
    <3> QED BY <3>1 DEF Clock!SleptEnough
  <2> QED BY <2>4, <2>5, <2>6
<1>5. CASE UNCHANGED Clock!vars
  BY <1>5 DEF Clock!vars, CallState, ComparatorState, Clock!SleptEnough, Clock!femto_seconds
<1> QED BY <1>1, <1>2, <1>3, <1>4, <1>5 DEF Clock!Next, Clock!poll_sleep, Clock!start_timer

(* An interrupt thrown at its comparator is less than two ticks early. *)
LEMMA NotEarly == CallState /\ ComparatorState => Clock!TimerNotEarly
<1> USE TimeAssumption DEF Clock!TimeConstants
<1> SUFFICES ASSUME CallState, ComparatorState, fired
             PROVE  clock - asked.start > Clock!femto_seconds(asked.nanos) - 2 * FsPerTick
  BY DEF Clock!TimerNotEarly
<1> DEFINE k == clock \div FsPerTick
           d == asked.nanos * FsPerNs
           s == asked.start \div FsPerTick
           t == d \div FsPerTick
<1>1. clock \in Nat /\ asked.start \in Nat /\ d \in Nat
  BY DEF CallState
<1>2. k \in Int /\ FsPerTick * k <= clock
  BY <1>1, DivBounds
<1>3. s \in Int /\ asked.start < FsPerTick * s + FsPerTick
  <2>1. asked.start \in Int
    BY <1>1
  <2> QED BY ONLY <2>1, TickBounds, Zenon
<1>4. t \in Int /\ d < FsPerTick * t + FsPerTick
  <2>1. d \in Int
    BY <1>1
  <2> QED BY ONLY <2>1, TickBounds, Zenon
<1>5. k >= s + t
  BY DEF ComparatorState
<1> HIDE DEF k, s, t, d
<1>6. FsPerTick * (s + t) <= FsPerTick * k
  BY <1>2, <1>3, <1>4, <1>5, Products
<1>7. FsPerTick * (s + t) = FsPerTick * s + FsPerTick * t
  BY <1>3, <1>4
<1>8. FsPerTick * s \in Int /\ FsPerTick * t \in Int /\ FsPerTick * k \in Int
  BY <1>2, <1>3, <1>4
<1>9. clock - asked.start > d - 2 * FsPerTick
  BY <1>1, <1>2, <1>3, <1>4, <1>6, <1>7, <1>8
<1> QED BY <1>9 DEF d, Clock!femto_seconds

(* A processor that returns from poll_sleep has slept its duration but for  *)
(* less than a tick, and the interrupt of start_timer is less than two      *)
(* ticks early: for every tick length and duration, however the calls of    *)
(* the processors interleave.                                               *)
THEOREM TimeSafe == Clock!Spec => [](SleptEnough /\ TimerNotEarly)
<1>1. IInv => SleptEnough /\ TimerNotEarly
  BY NotEarly DEF IInv, SleptEnough, TimerNotEarly
<1> QED BY InitIInv, StepIInv, <1>1, PTL DEF Clock!Spec

-----------------------------------------------------------------------------
(* CpuInit *)

(* The start of the processors.  Where the boot processor is says how far   *)
(* the devices are set up; the others are parked until it starts them.      *)
BeforeTimer == {"kmain_rs", "init", "timer_enable"}
BeforeLegacy == BeforeTimer \cup {"legacy"}
BeforeLow == BeforeLegacy \cup {"select_low", "write_low"}
BeforeHigh == BeforeLow \cup {"select_high", "write_high"}
BeforeEnable == BeforeHigh \cup {"hpet_enable"}
BeforeGate == BeforeEnable \cup {"insert_timer"}
BeforeStart == BeforeGate \cup {"ioapic_version", "ioapic_id"}

(* What each processor does in cpu_main_rs, after it loaded the shared      *)
(* table, after it set its vectors, after it inserted the first gate,       *)
(* the second, the third, and set the divider.                              *)
Counting == {"begin_sleep", "poll_sleep", "current_count", "init_done", "print_init_done", "hlt"}
AfterDiv == {"init_count"} \cup Counting
After35 == {"set_timer_div"} \cup AfterDiv
After34 == {"insert_35"} \cup After35
After33 == {"insert_34"} \cup After34
AfterVectors == {"idt_lock", "insert_33"} \cup After33
AfterLoad == {"local_apic_init"} \cup AfterVectors
Panicking == {"panic", "panic_lock", "halted"}
Started == {"online", "print_online", "cpu_main_rs"} \cup Panicking \cup AfterLoad

Places == {"parked"} \cup BeforeStart \cup {"start"} \cup Started

PlaceInv ==
  /\ bsp \in Ids /\ written \in Nat
  /\ at \in [Ids -> Places]
  /\ at[bsp] # "parked"
  /\ \A c \in Ids : c # bsp => at[c] \in {"parked"} \cup Started
  /\ at[bsp] \in BeforeStart => written = 0
  /\ written = 0 => \A c \in Ids : c # bsp => at[c] = "parked"

(* The boot processor starts, the others are parked. *)
LEMMA PlaceInit == Boot!Init => PlaceInv
<1> SUFFICES ASSUME Boot!Init PROVE PlaceInv
  OBVIOUS
<1>1. bsp \in Ids
  <2>1. PICK s : s = cpus /\ s \in Seq(Ids)
    BY BootAssumption, Zenon DEF Boot!Init, Boot!BootConstants
  <2>2. \A i \in DOMAIN s : s[i] \in Ids
    BY <2>1
  <2> QED BY <2>1, <2>2, Zenon DEF Boot!Init, Boot!Listed
<1> QED BY <1>1 DEF Boot!Init, PlaceInv, BeforeTimer, BeforeLegacy, BeforeLow, BeforeHigh, BeforeEnable,
                    BeforeGate, BeforeStart, Places

(* The steps of calibrate, as stores to the local APIC *)
Stores(c, from, to, new) ==
  at[c] = from /\ at' = [at EXCEPT ![c] = to] /\ lapic' = [lapic EXCEPT ![c] = new]

(* What calibrate does, and what it leaves alone *)
LEMMA CalibrateSteps ==
  ASSUME NEW c, Boot!calibrate(c)
  PROVE  /\ UNCHANGED <<cpus, bsp, loaded, idt, locked, dev, written, percpus, console>>
         /\ \/ Stores(c, "set_timer_div", "init_count", [lapic[c] EXCEPT !.div = 1])
            \/ Stores(c, "init_count", "begin_sleep", [lapic[c] EXCEPT !.clocks = 0])
            \/ \E b \in 0 .. ClocksPerTick - 1 :
                 Stores(c, "begin_sleep", "poll_sleep", [lapic[c] EXCEPT !.slept = 0, !.behind = b])
            \/ /\ Boot!sleep_over(c)
               /\ Stores(c, "poll_sleep", "current_count",
                         [lapic[c] EXCEPT !.slept = -1, !.behind = 0])
BY Zenon DEF Boot!calibrate, Boot!begin_sleep, Boot!ApicAccess, Boot!Step, Boot!None, Stores

(* The places it goes through *)
LEMMA CalibratePlaces ==
  ASSUME NEW c, Boot!calibrate(c)
  PROVE  /\ UNCHANGED <<cpus, bsp, loaded, idt, locked, dev, written, percpus, console>>
         /\ at[c] \in {"set_timer_div", "init_count", "begin_sleep", "poll_sleep"}
         /\ \E to \in {"init_count", "begin_sleep", "poll_sleep", "current_count"} :
              at' = [at EXCEPT ![c] = to]
<1>1. UNCHANGED <<cpus, bsp, loaded, idt, locked, dev, written, percpus, console>>
  BY CalibrateSteps, Zenon
<1>2. \/ at[c] = "set_timer_div" /\ at' = [at EXCEPT ![c] = "init_count"]
      \/ at[c] = "init_count" /\ at' = [at EXCEPT ![c] = "begin_sleep"]
      \/ at[c] = "begin_sleep" /\ at' = [at EXCEPT ![c] = "poll_sleep"]
      \/ at[c] = "poll_sleep" /\ at' = [at EXCEPT ![c] = "current_count"]
  BY CalibrateSteps, Zenon DEF Stores
<1> QED BY <1>1, <1>2, Zenon

(* One step of any processor *)
LEMMA PlaceStep == PlaceInv /\ [Boot!Next]_Boot!vars => PlaceInv'
<1> SUFFICES ASSUME PlaceInv, [Boot!Next]_Boot!vars PROVE PlaceInv'
  OBVIOUS
<1> USE DEF PlaceInv, Boot!Step, BeforeTimer, BeforeLegacy, BeforeLow, BeforeHigh, BeforeEnable,
       BeforeGate, BeforeStart, Counting, AfterDiv, After35, After34, After33, AfterVectors,
       AfterLoad, Panicking, Started, Places
<1>1. ASSUME NEW c \in Ids, Boot!kmain_rs(c) PROVE PlaceInv'
  BY <1>1 DEF Boot!kmain_rs
<1>2. ASSUME NEW c \in Ids, Boot!init(c) PROVE PlaceInv'
  BY <1>2 DEF Boot!init, Boot!LoadShared
<1>3. ASSUME NEW c \in Ids, Boot!hpet_init(c) PROVE PlaceInv'
  BY <1>3 DEF Boot!hpet_init, Boot!DeviceAccess
<1>4. ASSUME NEW c \in Ids, Boot!insert_timer(c) PROVE PlaceInv'
  BY <1>4 DEF Boot!insert_timer
<1>5. ASSUME NEW c \in Ids, Boot!ioapic_print(c) PROVE PlaceInv'
  BY <1>5 DEF Boot!ioapic_print, Boot!DeviceAccess
<1>6. ASSUME NEW c \in Ids, Boot!start_cpu(c) PROVE PlaceInv'
  BY <1>6 DEF Boot!start_cpu
<1>7. ASSUME NEW c \in Ids, Boot!index_cpus(c) PROVE PlaceInv'
  BY <1>7 DEF Boot!index_cpus
<1>8. ASSUME NEW c \in Ids, Boot!cpu_main(c) PROVE PlaceInv'
  <2>1. written # 0
    BY <1>8 DEF Boot!cpu_main
  <2> QED BY <1>8, <2>1 DEF Boot!cpu_main
<1>9. ASSUME NEW c \in Ids, Boot!cpu_main_rs(c) PROVE PlaceInv'
  BY <1>9 DEF Boot!cpu_main_rs, Boot!LoadShared
<1>10. ASSUME NEW c \in Ids, Boot!set_vectors(c) PROVE PlaceInv'
  BY <1>10 DEF Boot!set_vectors, Boot!ApicAccess
<1>11. ASSUME NEW c \in Ids, Boot!idt_lock(c) PROVE PlaceInv'
  BY <1>11 DEF Boot!idt_lock
<1>12. ASSUME NEW c \in Ids, Boot!insert(c) PROVE PlaceInv'
  BY <1>12 DEF Boot!insert
<1>13. ASSUME NEW c \in Ids, Boot!calibrate(c) PROVE PlaceInv'
  BY <1>13, CalibratePlaces
<1>14. ASSUME NEW c \in Ids, Boot!write_percpu(c) PROVE PlaceInv'
  BY <1>14 DEF Boot!write_percpu
<1>15. CASE Boot!tick
  BY <1>15, Zenon DEF Boot!tick
<1>16. CASE UNCHANGED Boot!vars
  BY <1>16 DEF Boot!vars
<1>17. ASSUME NEW c \in Ids, Boot!cpu_main_rs_prints(c) PROVE PlaceInv'
  BY <1>17 DEF Boot!cpu_main_rs_prints, Boot!Printing
<1>18. ASSUME NEW c \in Ids, Boot!panic(c) PROVE PlaceInv'
  BY <1>18 DEF Boot!panic
<1> QED BY <1>1, <1>2, <1>3, <1>4, <1>5, <1>6, <1>7, <1>8, <1>9, <1>10, <1>11, <1>12, <1>13,
           <1>14, <1>15, <1>16, <1>17, <1>18, Zenon DEF Boot!Next, Boot!Run

(* How far the boot processor is with hpet_init, and what it has written. *)
Low == Boot!as_raw_low(Boot!irq_redirection)
High == Boot!as_raw_high(Boot!irq_redirection)
LowReg == Boot!reg_num(2)

DevType ==
  [hpet : [enable_cnf : BOOLEAN, leg_rt_cnf : BOOLEAN], timer : [int_enb : BOOLEAN],
   select : Int, window : [{LowReg, LowReg + 1} -> {Boot!NoEntry, 0, Low, High}]]

DevInv ==
  /\ dev \in DevType
  /\ at[bsp] \notin BeforeTimer => dev.timer.int_enb
  /\ at[bsp] \notin BeforeLegacy => dev.hpet.leg_rt_cnf
  /\ at[bsp] = "write_low" => dev.select = LowReg
  /\ at[bsp] \notin BeforeLow => dev.window[LowReg] = Low
  /\ at[bsp] = "write_high" => dev.select = LowReg + 1
  /\ at[bsp] \notin BeforeHigh => dev.window[LowReg + 1] = High
  /\ at[bsp] \notin BeforeEnable => dev.hpet.enable_cnf
  /\ at[bsp] \notin BeforeGate => 32 \in idt

(* The devices at reset *)
LEMMA DevInit == Boot!Init => DevInv
<1> SUFFICES ASSUME Boot!Init PROVE DevInv
  OBVIOUS
<1>1. at[bsp] = "kmain_rs" /\ bsp \in Ids
  BY PlaceInit DEF Boot!Init, PlaceInv
<1>2. at[bsp] \in BeforeTimer /\ at[bsp] \in BeforeLegacy /\ at[bsp] \in BeforeLow
      /\ at[bsp] \in BeforeHigh /\ at[bsp] \in BeforeEnable /\ at[bsp] \in BeforeGate
  BY <1>1 DEF BeforeTimer, BeforeLegacy, BeforeLow, BeforeHigh, BeforeEnable, BeforeGate
<1>3. dev = [hpet |-> Boot!ConfigAtReset, timer |-> [int_enb |-> FALSE], select |-> 0,
             window |-> [reg \in {LowReg, LowReg + 1} |->
                           IF reg = LowReg THEN Boot!NoEntry ELSE 0]]
  BY DEF Boot!Init, LowReg
<1> QED BY <1>1, <1>2, <1>3 DEF DevInv, DevType, Boot!ConfigAtReset

(* The processor that boots stays the same. *)
LEMMA BspStays == [Boot!Next]_Boot!vars => bsp' = bsp
BY Zenon DEF Boot!Next, Boot!Run, Boot!vars, Boot!kmain_rs, Boot!init, Boot!LoadShared, Boot!hpet_init,
       Boot!DeviceAccess, Boot!insert_timer, Boot!ioapic_print, Boot!start_cpu,
       Boot!index_cpus, Boot!cpu_main, Boot!cpu_main_rs, Boot!set_vectors, Boot!ApicAccess,
       Boot!idt_lock, Boot!insert, Boot!calibrate, Boot!begin_sleep, Boot!write_percpu, Boot!tick,
       Boot!cpu_main_rs_prints, Boot!Printing, Boot!panic

(* Only the boot processor touches the devices, and only before it starts   *)
(* the others.                                                              *)
LEMMA DevStep == PlaceInv /\ DevInv /\ [Boot!Next]_Boot!vars => DevInv'
<1> SUFFICES ASSUME PlaceInv, DevInv, [Boot!Next]_Boot!vars PROVE DevInv'
  OBVIOUS
<1> USE DEF BeforeTimer, BeforeLegacy, BeforeLow, BeforeHigh, BeforeEnable, BeforeGate, DevType
<1>1. bsp' = bsp /\ Low' = Low /\ High' = High /\ LowReg' = LowReg
  BY BspStays DEF Low, High, LowReg, Boot!as_raw_low, Boot!as_raw_high, Boot!irq_redirection,
                  Boot!reg_num
<1>2. bsp \in Ids /\ at \in [Ids -> Places]
      /\ \A c \in Ids : c # bsp => at[c] \in {"parked"} \cup Started
  BY DEF PlaceInv
<1>3. \A c \in Ids : at[c] \in BeforeStart \cup {"start"} => c = bsp
  BY <1>2 DEF BeforeStart, Counting, AfterDiv, After35, After34, After33, AfterVectors,
         AfterLoad, Panicking, Started
<1>4. ASSUME dev' = dev, idt \subseteq idt', at'[bsp] # "write_low", at'[bsp] # "write_high",
             at[bsp] \in BeforeGate => at'[bsp] \in BeforeTimer \/ at'[bsp] = at[bsp]
                PROVE DevInv'
  BY <1>1, <1>4 DEF DevInv
<1>5. ASSUME NEW c \in Ids, Boot!hpet_init(c) PROVE DevInv'
  <2>1. c = bsp
    BY <1>3, <1>5 DEF Boot!hpet_init, Boot!DeviceAccess, Boot!Step, BeforeStart
  <2>2. idt' = idt
    BY <1>5 DEF Boot!hpet_init, Boot!DeviceAccess
  <2> USE <1>1, <1>2, <2>1, <2>2 DEF DevInv, Boot!DeviceAccess, Boot!Step
  <2>3. CASE Boot!DeviceAccess(c, "timer_enable", "legacy",
                 [dev EXCEPT !.timer = Boot!timer_enable(@)])
    <3>1. dev' = [dev EXCEPT !.timer = [dev.timer EXCEPT !.int_enb = TRUE]]
      BY <2>3 DEF Boot!timer_enable
    <3>2. dev'.timer.int_enb = TRUE
      BY <3>1, Zenon
    <3>3. dev' \in DevType
      BY <3>1, Zenon DEF DevType
    <3> QED BY <2>3, <3>1, <3>2, <3>3
  <2>4. CASE Boot!DeviceAccess(c, "legacy", "select_low",
                 [dev EXCEPT !.hpet = Boot!enable_legacy_mapping(@)])
    <3>1. dev' = [dev EXCEPT !.hpet = [dev.hpet EXCEPT !.leg_rt_cnf = TRUE]]
      BY <2>4 DEF Boot!enable_legacy_mapping
    <3>2. dev'.hpet.leg_rt_cnf = TRUE
      BY <3>1, Zenon
    <3>3. dev' \in DevType
      BY <3>1, Zenon DEF DevType
    <3> QED BY <2>4, <3>1, <3>2, <3>3
  <2>5. CASE Boot!DeviceAccess(c, "select_low", "write_low", [dev EXCEPT !.select = Boot!reg_num(2)])
    BY <2>5 DEF LowReg, Boot!reg_num
  <2>6. CASE Boot!DeviceAccess(c, "write_low", "select_high",
                 Boot!Window(Boot!as_raw_low(Boot!irq_redirection)))
    BY <2>6 DEF Boot!Window, Low
  <2>7. CASE Boot!DeviceAccess(c, "select_high", "write_high",
                 [dev EXCEPT !.select = Boot!reg_num(2) + 1])
    BY <2>7 DEF LowReg, Boot!reg_num
  <2>8. CASE Boot!DeviceAccess(c, "write_high", "hpet_enable",
                 Boot!Window(Boot!as_raw_high(Boot!irq_redirection)))
    BY <2>8 DEF Boot!Window, High
  <2>9. CASE Boot!DeviceAccess(c, "hpet_enable", "insert_timer",
                 [dev EXCEPT !.hpet = Boot!enable(@)])
    <3>1. dev' = [dev EXCEPT !.hpet = [dev.hpet EXCEPT !.enable_cnf = TRUE]]
      BY <2>9 DEF Boot!enable
    <3>2. dev'.hpet.enable_cnf = TRUE
      BY <3>1, Zenon
    <3>3. dev' \in DevType
      BY <3>1, Zenon DEF DevType
    <3> QED BY <2>9, <3>1, <3>2, <3>3
  <2> QED BY <1>5, <2>3, <2>4, <2>5, <2>6, <2>7, <2>8, <2>9, Zenon DEF Boot!hpet_init
<1>6. ASSUME NEW c \in Ids, Boot!ioapic_print(c) PROVE DevInv'
  <2>1. c = bsp
    BY <1>3, <1>6 DEF Boot!ioapic_print, Boot!DeviceAccess, Boot!Step, BeforeStart
  <2>2. /\ idt' = idt /\ at[bsp] \in {"ioapic_version", "ioapic_id"}
        /\ at'[bsp] \in {"ioapic_id", "start"}
        /\ dev' = [dev EXCEPT !.select = 1] \/ dev' = [dev EXCEPT !.select = 0]
    BY <1>2, <1>6, <2>1 DEF Boot!ioapic_print, Boot!DeviceAccess, Boot!Step
  <2> QED BY <1>1, <2>2 DEF DevInv
<1>7. ASSUME NEW c \in Ids, Boot!insert_timer(c) PROVE DevInv'
  <2>1. c = bsp
    BY <1>3, <1>7 DEF Boot!insert_timer, Boot!Step, BeforeStart
  <2> QED BY <1>1, <1>2, <1>7, <2>1 DEF Boot!insert_timer, Boot!Step, DevInv
<1>8. ASSUME NEW c \in Ids, Boot!kmain_rs(c) \/ Boot!init(c) \/ Boot!start_cpu(c)
             \/ Boot!index_cpus(c) PROVE DevInv'
  <2>1. c = bsp
    BY <1>3, <1>8 DEF Boot!kmain_rs, Boot!init, Boot!start_cpu, Boot!index_cpus, Boot!Step,
                      BeforeStart
  <2> QED BY <1>2, <1>4, <1>8, <2>1 DEF Boot!kmain_rs, Boot!init, Boot!LoadShared,
              Boot!start_cpu, Boot!index_cpus, Boot!Step
<1>9. ASSUME NEW c \in Ids, \/ Boot!cpu_main(c) \/ Boot!cpu_main_rs(c) \/ Boot!set_vectors(c)
                                 \/ Boot!idt_lock(c) \/ Boot!insert(c) \/ Boot!calibrate(c)
                                 \/ Boot!write_percpu(c) \/ Boot!cpu_main_rs_prints(c) \/ Boot!panic(c)
      PROVE  DevInv'
  <2>1. dev' = dev /\ idt \subseteq idt' /\ \A d \in Ids : d # c => at'[d] = at[d]
    BY <1>2, <1>9, CalibratePlaces
       DEF Boot!cpu_main, Boot!cpu_main_rs, Boot!LoadShared, Boot!set_vectors, Boot!ApicAccess,
         Boot!idt_lock, Boot!insert, Boot!write_percpu,
         Boot!cpu_main_rs_prints, Boot!Printing, Boot!panic, Boot!Step
  <2>2. c = bsp => at[bsp] \in Started /\ at'[bsp] \in Started
    BY <1>2, <1>9, CalibratePlaces
       DEF Boot!cpu_main, Boot!cpu_main_rs, Boot!LoadShared, Boot!set_vectors, Boot!ApicAccess,
         Boot!idt_lock, Boot!insert, Boot!write_percpu,
         Boot!cpu_main_rs_prints, Boot!Printing, Boot!panic, Boot!Step,
         Counting, AfterDiv, After35, After34, After33, AfterVectors, AfterLoad, Panicking, Started
  <2>3. CASE c # bsp
    BY <1>1, <1>2, <2>1, <2>3 DEF DevInv
  <2>4. CASE c = bsp
    BY <1>4, <2>1, <2>2, <2>4 DEF Counting, AfterDiv, After35, After34, After33, AfterVectors, AfterLoad, Panicking, Started
  <2> QED BY <2>3, <2>4
<1>10. CASE Boot!tick \/ UNCHANGED Boot!vars
  BY <1>1, <1>10, Zenon DEF Boot!tick, Boot!vars, DevInv
<1> QED BY <1>5, <1>6, <1>7, <1>8, <1>9, <1>10 DEF Boot!Next, Boot!Run

(* When a second processor runs the kernel, the devices that hpet_init      *)
(* configures without a lock are configured, for any list of processors and *)
(* whichever of them boots.                                                 *)
THEOREM DevicesFirst == Boot!Spec => []DevicesReady
<1>1. PlaceInv /\ DevInv => DevicesReady
  <2> SUFFICES ASSUME PlaceInv, DevInv, NEW c \in Ids \ {bsp}, at[c] # "parked"
               PROVE  /\ dev.hpet.enable_cnf /\ dev.hpet.leg_rt_cnf /\ dev.timer.int_enb
                      /\ dev.window[LowReg] = Low /\ dev.window[LowReg + 1] = High
                      /\ 32 \in idt
    BY Zenon DEF DevicesReady, Boot!DevicesReady, Low, High, LowReg, Boot!irq_redirection
  <2>1. at[bsp] \notin BeforeStart
    BY DEF PlaceInv
  <2> QED BY <2>1 DEF DevInv, BeforeTimer, BeforeLegacy, BeforeLow, BeforeHigh, BeforeEnable,
                      BeforeGate, BeforeStart
<1> QED BY <1>1, PlaceInit, PlaceStep, DevInit, DevStep, PTL DEF Boot!Spec
-----------------------------------------------------------------------------
(* Divide configuration 1 divides by four. *)
LEMMA DividedByFour == Boot!Divider[1] = 4
BY DEF Boot!Divider

SpuriousType == [enabled : BOOLEAN, vector : Int]
ApicType == [spurious : SpuriousType, timer : Int, error : Int, div : Int, clocks : Int,
             slept : Int, behind : Int]

(* set_spurious_interrupt_irq stores the vector and keeps the enable bit. *)
LEMMA SpuriousVector ==
  ASSUME NEW r \in ApicType
  PROVE  /\ Boot!set_spurious_interrupt_irq(r.spurious, 33) \in SpuriousType
         /\ Boot!set_spurious_interrupt_irq(r.spurious, 33).vector = 33
<1>1. r.spurious \in SpuriousType
  BY DEF ApicType
<1>2. Boot!set_spurious_interrupt_irq(r.spurious, 33) \in SpuriousType
  BY <1>1, 33 \in Int, Zenon DEF SpuriousType, Boot!set_spurious_interrupt_irq
<1>3. Boot!set_spurious_interrupt_irq(r.spurious, 33).vector = 33
  BY <1>1 DEF SpuriousType, Boot!set_spurious_interrupt_irq
<1> QED BY <1>2, <1>3

(* The three stores of local_apic_init leave a local APIC. *)
LEMMA VectorStore ==
  ASSUME NEW r \in ApicType, NEW s \in SpuriousType
  PROVE  [r EXCEPT !.spurious = s, !.timer = 34, !.error = 35] \in ApicType
<1>1. [r EXCEPT !.spurious = s] \in ApicType
  BY DEF ApicType
<1>2. ASSUME NEW q \in ApicType PROVE [q EXCEPT !.timer = 34] \in ApicType
  BY DEF ApicType
<1>3. ASSUME NEW q \in ApicType PROVE [q EXCEPT !.error = 35] \in ApicType
  BY DEF ApicType
<1> QED BY <1>1, <1>2, <1>3, Zenon

(* What each processor has done on its way through cpu_main_rs. *)
VectorInv ==
  /\ lapic \in [Ids -> ApicType]
  /\ loaded \in [Ids -> {"none", "init", "shared"}]
  /\ \A c \in Ids :
       /\ at[c] \in AfterLoad => loaded[c] = "shared"
       /\ at[c] \in AfterVectors =>
            lapic[c].spurious.vector = 33 /\ lapic[c].timer = 34 /\ lapic[c].error = 35
       /\ at[c] \in After33 => 33 \in idt
       /\ at[c] \in After34 => 34 \in idt
       /\ at[c] \in After35 => 35 \in idt

(* The table is empty and no vector is set. *)
LEMMA VectorInit == Boot!Init => VectorInv
<1> SUFFICES ASSUME Boot!Init PROVE VectorInv
  OBVIOUS
<1> DEFINE spur == [enabled |-> TRUE, vector |-> 255]
<1>1. spur \in SpuriousType
  BY 255 \in Int, Zenon DEF SpuriousType
<1>2. lapic = [c \in Ids |-> [spurious |-> spur, timer |-> 0, error |-> 0, div |-> 0,
                                   clocks |-> -1, slept |-> -1, behind |-> 0]]
  BY DEF Boot!Init, Boot!None
<1> HIDE DEF spur
<1>3. lapic \in [Ids -> ApicType]
  BY <1>1, <1>2 DEF ApicType
<1> QED BY <1>3, Zenon DEF Boot!Init, VectorInv, Counting, AfterDiv, After35, After34, After33,
       AfterVectors, AfterLoad

(* A processor does not move without doing what comes first, and what one   *)
(* has put into the table no other takes out.                               *)
LEMMA VectorStep == PlaceInv /\ VectorInv /\ [Boot!Next]_Boot!vars => VectorInv'
<1> SUFFICES ASSUME PlaceInv, VectorInv, [Boot!Next]_Boot!vars PROVE VectorInv'
  OBVIOUS
<1> USE DEF Counting, AfterDiv, After35, After34, After33, AfterVectors, AfterLoad
<1>1. at \in [Ids -> Places]
  BY DEF PlaceInv
<1>2. ASSUME NEW c \in Ids, \A d \in Ids : d # c => at'[d] = at[d],
             at'[c] \notin AfterLoad, idt \subseteq idt', lapic' = lapic,
             loaded' \in [Ids -> {"none", "init", "shared"}],
             \A d \in Ids : d # c => loaded'[d] = loaded[d]
      PROVE  VectorInv'
  BY <1>2 DEF VectorInv
<1>3. ASSUME NEW c \in Ids, \/ Boot!kmain_rs(c) \/ Boot!init(c) \/ Boot!hpet_init(c)
                                 \/ Boot!insert_timer(c) \/ Boot!ioapic_print(c)
                                 \/ Boot!index_cpus(c) \/ Boot!cpu_main(c) \/ Boot!panic(c)
      PROVE  VectorInv'
  <2>1. lapic' = lapic /\ idt \subseteq idt'
    BY <1>3 DEF Boot!kmain_rs, Boot!init, Boot!LoadShared, Boot!hpet_init, Boot!DeviceAccess,
                Boot!insert_timer, Boot!ioapic_print, Boot!index_cpus, Boot!cpu_main, Boot!panic
  <2>2. loaded' \in [Ids -> {"none", "init", "shared"}]
        /\ \A d \in Ids : d # c => loaded'[d] = loaded[d]
    BY <1>3 DEF Boot!kmain_rs, Boot!init, Boot!LoadShared, Boot!hpet_init, Boot!DeviceAccess,
                Boot!insert_timer, Boot!ioapic_print, Boot!index_cpus, Boot!cpu_main, Boot!panic, VectorInv
  <2>3. at'[c] \notin AfterLoad /\ \A d \in Ids : d # c => at'[d] = at[d]
    BY <1>1, <1>3 DEF Boot!kmain_rs, Boot!init, Boot!hpet_init, Boot!DeviceAccess,
                Boot!insert_timer, Boot!ioapic_print, Boot!index_cpus, Boot!cpu_main, Boot!panic, Boot!Step
  <2> QED BY <1>2, <2>1, <2>2, <2>3
<1>4. ASSUME NEW c \in Ids, Boot!cpu_main_rs(c) PROVE VectorInv'
  BY <1>1, <1>4 DEF Boot!cpu_main_rs, Boot!LoadShared, Boot!Step, VectorInv
<1>5. ASSUME NEW c \in Ids, Boot!set_vectors(c) PROVE VectorInv'
  <2> DEFINE spur == Boot!set_spurious_interrupt_irq(lapic[c].spurious, 33)
  <2> DEFINE new == [lapic[c] EXCEPT !.spurious = spur, !.timer = 34, !.error = 35]
  <2>1. lapic[c] \in ApicType
    BY DEF VectorInv
  <2>2. new \in ApicType
    <3>1. spur \in SpuriousType
      BY <2>1, SpuriousVector
    <3> HIDE DEF spur
    <3> QED BY <2>1, <3>1, VectorStore, Zenon
  <2>3. new.spurious.vector = 33 /\ new.timer = 34 /\ new.error = 35
    <3>1. new.spurious = Boot!set_spurious_interrupt_irq(lapic[c].spurious, 33)
          /\ new.timer = 34 /\ new.error = 35
      BY <2>1 DEF ApicType
    <3> QED BY <2>1, <3>1, SpuriousVector
  <2>4. /\ lapic' = [lapic EXCEPT ![c] = new]
        /\ at[c] = "local_apic_init" /\ at' = [at EXCEPT ![c] = "idt_lock"]
        /\ UNCHANGED <<loaded, idt>>
    BY <1>5 DEF Boot!set_vectors, Boot!ApicAccess, Boot!Step
  <2> HIDE DEF new
  <2> QED BY <1>1, <2>2, <2>3, <2>4 DEF VectorInv
<1>6. ASSUME NEW c \in Ids, Boot!idt_lock(c) PROVE VectorInv'
  BY <1>1, <1>6 DEF Boot!idt_lock, Boot!Step, VectorInv
<1>7. ASSUME NEW c \in Ids, Boot!insert(c) PROVE VectorInv'
  BY <1>1, <1>7 DEF Boot!insert, Boot!Step, VectorInv
<1>8. ASSUME NEW c \in Ids, NEW new \in ApicType,
             new.spurious = lapic[c].spurious, new.timer = lapic[c].timer,
             new.error = lapic[c].error, lapic' = [lapic EXCEPT ![c] = new],
             at[c] \in After35, at' = [at EXCEPT ![c] = at'[c]],
             at'[c] \in AfterDiv \cup Panicking, UNCHANGED <<loaded, idt>>
      PROVE  VectorInv'
  BY <1>1, <1>8 DEF VectorInv, Panicking
<1>9. ASSUME NEW c \in Ids, Boot!calibrate(c) \/ Boot!write_percpu(c) PROVE VectorInv'
  <2>1. lapic[c] \in ApicType
    BY DEF VectorInv
  <2>2. PICK new : /\ lapic' = [lapic EXCEPT ![c] = new]
                   /\ \/ new = [lapic[c] EXCEPT !.div = 1]
                      \/ new = [lapic[c] EXCEPT !.clocks = 0]
                      \/ new = [lapic[c] EXCEPT !.clocks = -1]
                      \/ \E b \in 0 .. ClocksPerTick - 1 : new = [lapic[c] EXCEPT !.slept = 0, !.behind = b]
                      \/ new = [lapic[c] EXCEPT !.slept = -1, !.behind = 0]
    BY <1>9, CalibrateSteps, Zenon DEF Stores, Boot!write_percpu, Boot!None
  <2>3. ASSUME NEW m \in Int, NEW n \in Int
        PROVE  LET r == [lapic[c] EXCEPT !.slept = m, !.behind = n] IN
               /\ r \in ApicType /\ r.spurious = lapic[c].spurious
               /\ r.timer = lapic[c].timer /\ r.error = lapic[c].error
    BY <2>1, Zenon DEF ApicType
  <2>4. new \in ApicType /\ new.spurious = lapic[c].spurious
        /\ new.timer = lapic[c].timer /\ new.error = lapic[c].error
    <3>1. CASE \E b \in 0 .. ClocksPerTick - 1 : new = [lapic[c] EXCEPT !.slept = 0, !.behind = b]
      <4>1. PICK b \in 0 .. ClocksPerTick - 1 : new = [lapic[c] EXCEPT !.slept = 0, !.behind = b]
        BY <3>1, Zenon
      <4>2. 0 \in Int /\ b \in Int
        OBVIOUS
      <4> QED BY <2>3, <4>1, <4>2, Zenon
    <3>2. CASE new = [lapic[c] EXCEPT !.slept = -1, !.behind = 0]
      <4>1. 0 \in Int /\ -1 \in Int
        OBVIOUS
      <4> QED BY <2>3, <3>2, <4>1, Zenon
    <3>3. CASE \/ new = [lapic[c] EXCEPT !.div = 1] \/ new = [lapic[c] EXCEPT !.clocks = 0]
               \/ new = [lapic[c] EXCEPT !.clocks = -1]
      BY <2>1, <3>3 DEF ApicType
    <3> QED BY <2>2, <3>1, <3>2, <3>3, Zenon
  <2>5. /\ at[c] \in After35 /\ at' = [at EXCEPT ![c] = at'[c]]
        /\ at'[c] \in AfterDiv \cup Panicking /\ UNCHANGED <<loaded, idt>>
    BY <1>1, <1>9, CalibratePlaces DEF Boot!write_percpu, Boot!Step, Panicking
  <2> QED BY <1>8, <2>2, <2>4, <2>5, Zenon
<1>10. CASE Boot!tick
  <2>2. \A n \in Int : Boot!Passed(n, TRUE) \in Int /\ Boot!Passed(n, dev.hpet.enable_cnf) \in Int
    BY DEF Boot!Passed
  <2>3. ASSUME NEW c \in Ids
        PROVE  /\ lapic'[c] = [lapic[c] EXCEPT !.clocks = Boot!Passed(lapic[c].clocks, TRUE),
                                  !.slept = Boot!Passed(lapic[c].slept, dev.hpet.enable_cnf)]
               /\ lapic[c] \in ApicType /\ lapic[c].clocks \in Int /\ lapic[c].slept \in Int
    BY <1>10, Zenon DEF Boot!tick, VectorInv, ApicType
  <2>4. ASSUME NEW c \in Ids
        PROVE  /\ lapic'[c] \in ApicType /\ lapic'[c].spurious = lapic[c].spurious
               /\ lapic'[c].timer = lapic[c].timer /\ lapic'[c].error = lapic[c].error
    <3>1. PICK m \in Int, n \in Int : lapic'[c] = [lapic[c] EXCEPT !.clocks = m, !.slept = n]
      BY <2>2, <2>3, Zenon
    <3>2. lapic'[c] \in ApicType
      BY <2>3, <3>1, Zenon DEF ApicType
    <3> QED BY <2>3, <3>1, <3>2, Zenon DEF ApicType
  <2>5. lapic' = [c \in Ids |-> lapic'[c]] /\ UNCHANGED <<at, loaded, idt>>
    BY <1>10, Zenon DEF Boot!tick
  <2> QED BY <2>4, <2>5 DEF VectorInv
<1>11. CASE (\E c \in Ids : Boot!start_cpu(c)) \/ UNCHANGED Boot!vars
  BY <1>11 DEF Boot!start_cpu, Boot!vars, VectorInv
<1>12. ASSUME NEW c \in Ids, Boot!cpu_main_rs_prints(c) PROVE VectorInv'
  BY <1>1, <1>12 DEF Boot!cpu_main_rs_prints, Boot!Printing, Boot!Step, VectorInv
<1> QED BY <1>3, <1>4, <1>5, <1>6, <1>7, <1>9, <1>10, <1>11, <1>12 DEF Boot!Next, Boot!Run

(* A processor that waits in hlt has loaded a table with a gate for every   *)
(* vector that its local APIC may send it.                                  *)
THEOREM VectorsInserted == Boot!Spec => []VectorsHandled
<1>1. PlaceInv /\ VectorInv => VectorsHandled
  BY DEF VectorInv, VectorsHandled, Boot!VectorsHandled, Counting, AfterDiv, After35, After34,
         After33, AfterVectors, AfterLoad
<1> QED BY <1>1, PlaceInit, PlaceStep, VectorInit, VectorStep, PTL DEF Boot!Spec
-----------------------------------------------------------------------------
(* What a sleep of a milli second lasts at least: the count that poll_sleep *)
(* reads first may be behind by less than a tick.                           *)
Least == ClocksPerMs - (ClocksPerTick - 1)

(* The counts of each processor, and what it has stored of them. *)
CountInv ==
  /\ percpus \in [0 .. MAX_CPU_COUNT - 1 -> Int]
  /\ \A c \in Ids :
       /\ at[c] \in AfterDiv => lapic[c].div = 1
       /\ at[c] = "begin_sleep" => lapic[c].clocks >= 0
       /\ at[c] = "poll_sleep" => /\ lapic[c].slept >= 0 /\ lapic[c].clocks >= lapic[c].slept
                                  /\ lapic[c].behind \in 0 .. ClocksPerTick - 1
       /\ at[c] = "current_count" => lapic[c].clocks >= Least
       /\ at[c] \in Boot!Done => c \in 0 .. MAX_CPU_COUNT - 1
  /\ \A i \in 0 .. MAX_CPU_COUNT - 1 :
       IF i \in Ids /\ at[i] \in Boot!Done THEN percpus[i] >= Least \div 4 ELSE percpus[i] = -1

(* A sleep that poll_sleep ends has lasted a milli second but for a tick. *)
LEMMA MilliSecondSlept ==
  ASSUME NEW t \in Nat \ {0}, NEW m \in Nat, NEW slept \in Nat, NEW behind \in 0 .. t - 1,
         t * ((slept + behind) \div t) > m
  PROVE  slept >= m - (t - 1)
<1> DEFINE q == (slept + behind) \div t
<1>1. slept + behind \in Int /\ slept + behind \in Nat
  OBVIOUS
<1>2. q \in Int /\ t * q <= slept + behind
  BY <1>1, DivBounds
<1>3. t * q \in Int
  BY <1>2
<1> HIDE DEF q
<1>4. t * q > m
  BY DEF q
<1> QED BY <1>2, <1>3, <1>4

(* No timer counts. *)
LEMMA CountInit == Boot!BootConstants /\ Boot!Init => CountInv
BY DEF Boot!BootConstants, Boot!Init, CountInv, Boot!Uninit, Counting, AfterDiv, Boot!Done

(* A count of a milli second that began before the sleep is no smaller than *)
(* the sleep, whatever happens in between.                                  *)
LEMMA CountStep ==
  Boot!BootConstants /\ PlaceInv /\ VectorInv /\ CountInv /\ [Boot!Next]_Boot!vars => CountInv'
<1> SUFFICES ASSUME Boot!BootConstants, PlaceInv, VectorInv, CountInv, [Boot!Next]_Boot!vars
             PROVE  CountInv'
  OBVIOUS
<1> USE DEF Counting, AfterDiv, Boot!Done
<1>1. at \in [Ids -> Places] /\ lapic \in [Ids -> ApicType]
  BY Zenon DEF PlaceInv, VectorInv
<1>2. ASSUME NEW c \in Ids
      PROVE  /\ c \in Nat /\ lapic[c].clocks \in Int /\ lapic[c].slept \in Int
             /\ lapic[c].div \in Int /\ lapic[c].behind \in Int
  <2>1. lapic[c] \in ApicType
    BY <1>1, Zenon
  <2>2. /\ lapic[c].clocks \in Int /\ lapic[c].slept \in Int /\ lapic[c].div \in Int
        /\ lapic[c].behind \in Int
    BY <2>1, Zenon DEF ApicType
  <2>3. c \in Nat
    BY Zenon DEF Boot!BootConstants
  <2> QED BY <2>2, <2>3, Zenon
<1>3. /\ ClocksPerMs \in Nat /\ MAX_CPU_COUNT \in Nat /\ MaxClocks \in Nat
      /\ ClocksPerTick \in Nat \ {0} /\ Least \in Int
  BY DEF Boot!BootConstants, Least
(* A step of one processor that is not at a place where it counts *)
<1>4. ASSUME NEW c \in Ids, at' = [at EXCEPT ![c] = at'[c]], at[c] \notin Boot!Done,
             at'[c] \notin AfterDiv, percpus' = percpus,
             \A d \in Ids : d # c => lapic'[d] = lapic[d]
      PROVE  CountInv'
  BY <1>1, <1>4 DEF CountInv
<1>5. ASSUME NEW c \in Ids, \/ Boot!kmain_rs(c) \/ Boot!init(c) \/ Boot!hpet_init(c)
                                 \/ Boot!insert_timer(c) \/ Boot!ioapic_print(c)
                                 \/ Boot!index_cpus(c) \/ Boot!cpu_main(c)
                                 \/ Boot!cpu_main_rs(c) \/ Boot!set_vectors(c)
                                 \/ Boot!idt_lock(c) \/ Boot!insert(c) \/ Boot!panic(c)
      PROVE  CountInv'
  <2>1. percpus' = percpus /\ \A d \in Ids : d # c => lapic'[d] = lapic[d]
    BY <1>1, <1>5 DEF Boot!kmain_rs, Boot!init, Boot!LoadShared, Boot!hpet_init, Boot!DeviceAccess,
                Boot!insert_timer, Boot!ioapic_print, Boot!index_cpus, Boot!cpu_main,
                Boot!cpu_main_rs, Boot!set_vectors, Boot!ApicAccess, Boot!idt_lock, Boot!insert, Boot!panic
  <2>2. at' = [at EXCEPT ![c] = at'[c]] /\ at[c] \notin Boot!Done /\ at'[c] \notin AfterDiv
    BY <1>1, <1>5 DEF Boot!kmain_rs, Boot!init, Boot!LoadShared, Boot!hpet_init, Boot!DeviceAccess,
                Boot!insert_timer, Boot!ioapic_print, Boot!index_cpus, Boot!cpu_main, Boot!Step,
                Boot!cpu_main_rs, Boot!set_vectors, Boot!ApicAccess, Boot!idt_lock, Boot!insert, Boot!panic
  <2> QED BY <1>4, <2>1, <2>2
<1>6. ASSUME NEW c \in Ids, Boot!calibrate(c) PROVE CountInv'
  <2>1. CASE at[c] = "set_timer_div"
    <3>1. lapic' = [lapic EXCEPT ![c] = [lapic[c] EXCEPT !.div = 1]]
          /\ at' = [at EXCEPT ![c] = "init_count"] /\ percpus' = percpus
      BY <1>6, <2>1, CalibrateSteps, Zenon DEF Stores
    <3>2. lapic'[c].div = 1 /\ \A d \in Ids : d # c => lapic'[d] = lapic[d]
      BY <1>1, <3>1 DEF ApicType
    <3> QED BY <1>1, <2>1, <3>1, <3>2 DEF CountInv
  <2>2. CASE at[c] = "init_count"
    <3>1. lapic' = [lapic EXCEPT ![c] = [lapic[c] EXCEPT !.clocks = 0]]
          /\ at' = [at EXCEPT ![c] = "begin_sleep"] /\ percpus' = percpus
      BY <1>6, <2>2, CalibrateSteps, Zenon DEF Stores
    <3>2. lapic'[c].div = lapic[c].div /\ lapic'[c].clocks = 0
          /\ \A d \in Ids : d # c => lapic'[d] = lapic[d]
      BY <1>1, <3>1 DEF ApicType
    <3> QED BY <1>1, <2>2, <3>1, <3>2 DEF CountInv
  <2>3. CASE at[c] = "begin_sleep"
    <3>1. PICK b \in 0 .. ClocksPerTick - 1 :
            /\ lapic' = [lapic EXCEPT ![c] = [lapic[c] EXCEPT !.slept = 0, !.behind = b]]
            /\ at' = [at EXCEPT ![c] = "poll_sleep"] /\ percpus' = percpus
      BY <1>6, <2>3, CalibrateSteps, Zenon DEF Stores
    <3>2. /\ lapic'[c].div = lapic[c].div /\ lapic'[c].clocks = lapic[c].clocks
          /\ lapic'[c].slept = 0 /\ lapic'[c].behind = b
          /\ \A d \in Ids : d # c => lapic'[d] = lapic[d]
      BY <1>1, <3>1 DEF ApicType
    <3> QED BY <1>1, <2>3, <3>1, <3>2 DEF CountInv
  <2>4. CASE at[c] = "poll_sleep"
    <3>1. lapic' = [lapic EXCEPT ![c] = [lapic[c] EXCEPT !.slept = -1, !.behind = 0]]
          /\ at' = [at EXCEPT ![c] = "current_count"] /\ percpus' = percpus
          /\ Boot!sleep_over(c)
      BY <1>6, <2>4, CalibrateSteps, Zenon DEF Stores
    <3>2. lapic'[c].div = lapic[c].div /\ lapic'[c].clocks = lapic[c].clocks
          /\ \A d \in Ids : d # c => lapic'[d] = lapic[d]
      BY <1>1, <3>1 DEF ApicType
    <3>3. lapic[c].slept \in Nat /\ lapic[c].clocks >= lapic[c].slept
          /\ lapic[c].behind \in 0 .. ClocksPerTick - 1
      BY <1>2, <2>4 DEF CountInv
    <3>4. lapic[c].slept >= Least
      BY <1>3, <3>1, <3>3, MilliSecondSlept, Zenon DEF Boot!sleep_over, Least
    <3>5. lapic[c].clocks >= Least
      BY <1>2, <1>3, <3>3, <3>4
    <3> QED BY <1>1, <2>4, <3>1, <3>2, <3>5 DEF CountInv
  <2> QED BY <1>6, <2>1, <2>2, <2>3, <2>4, CalibratePlaces
<1>7. ASSUME NEW c \in Ids, Boot!write_percpu(c) PROVE CountInv'
  <2>1. lapic' = [lapic EXCEPT ![c] = [lapic[c] EXCEPT !.clocks = -1]]
        /\ at[c] = "current_count"
        /\ at' = [at EXCEPT ![c] = IF c < MAX_CPU_COUNT THEN "init_done" ELSE "panic"]
        /\ percpus' = IF c < MAX_CPU_COUNT THEN [percpus EXCEPT ![c] = Boot!ticks_per_ms(c)]
                      ELSE percpus
    BY <1>7 DEF Boot!write_percpu, Boot!Step, Boot!None
  <2>2. lapic'[c].div = lapic[c].div /\ \A d \in Ids : d # c => lapic'[d] = lapic[d]
    BY <1>1, <2>1 DEF ApicType
  <2>3. lapic[c].div = 1 /\ lapic[c].clocks >= Least
    BY <2>1 DEF CountInv
  <2>4. Boot!ticks_per_ms(c) = lapic[c].clocks \div 4
    BY <2>3, DividedByFour DEF Boot!ticks_per_ms
  <2>5. Boot!ticks_per_ms(c) \in Int /\ Boot!ticks_per_ms(c) >= Least \div 4
    BY <1>2, <1>3, <2>3, <2>4
  <2>6. c \in 0 .. MAX_CPU_COUNT - 1 <=> c < MAX_CPU_COUNT
    BY <1>2, <1>3
  <2> HIDE DEF Boot!ticks_per_ms
  <2> QED BY <1>1, <2>1, <2>2, <2>3, <2>5, <2>6 DEF CountInv
<1>8. CASE Boot!tick
  <2>1. ASSUME NEW c \in Ids
        PROVE  /\ lapic'[c].div = lapic[c].div
               /\ lapic'[c].clocks = Boot!Passed(lapic[c].clocks, TRUE)
               /\ lapic'[c].slept = Boot!Passed(lapic[c].slept, dev.hpet.enable_cnf)
               /\ lapic'[c].behind = lapic[c].behind
    BY <1>1, <1>8, Zenon DEF Boot!tick, ApicType
  <2>2. ASSUME NEW c \in Ids
        PROVE  /\ lapic[c].clocks >= 0 => lapic'[c].clocks >= lapic[c].clocks
               /\ lapic[c].clocks >= Least => lapic'[c].clocks >= Least
               /\ lapic[c].slept >= 0 /\ lapic[c].clocks >= lapic[c].slept
                    => lapic'[c].slept >= 0 /\ lapic'[c].clocks >= lapic'[c].slept
               /\ lapic'[c].clocks \in Int
    BY <1>2, <1>3, <2>1 DEF Boot!Passed, Boot!None
  <2>3. UNCHANGED <<at, percpus>>
    BY <1>8, Zenon DEF Boot!tick
  <2>4. ASSUME NEW c \in Ids
        PROVE  /\ at[c] \in AfterDiv => lapic'[c].div = 1
               /\ at[c] = "begin_sleep" => lapic'[c].clocks >= 0
               /\ at[c] = "poll_sleep" =>
                    /\ lapic'[c].slept >= 0 /\ lapic'[c].clocks >= lapic'[c].slept
                    /\ lapic'[c].behind \in 0 .. ClocksPerTick - 1
               /\ at[c] = "current_count" => lapic'[c].clocks >= Least
    <3>1. /\ at[c] \in AfterDiv => lapic[c].div = 1
          /\ at[c] = "begin_sleep" => lapic[c].clocks >= 0
          /\ at[c] = "poll_sleep" => /\ lapic[c].slept >= 0 /\ lapic[c].clocks >= lapic[c].slept
                                     /\ lapic[c].behind \in 0 .. ClocksPerTick - 1
          /\ at[c] = "current_count" => lapic[c].clocks >= Least
      BY DEF CountInv
    <3>2. lapic[c].clocks \in Int /\ lapic'[c].clocks \in Int
      BY <1>2, <2>2
    <3>3. lapic'[c].div = lapic[c].div /\ lapic'[c].behind = lapic[c].behind
      BY <2>1, Zenon
    <3>4. lapic[c].clocks >= 0 => lapic'[c].clocks >= 0
      BY <2>2, <3>2
    <3> QED BY <2>2, <3>1, <3>3, <3>4
  <2> QED BY <2>3, <2>4 DEF CountInv
<1>9. CASE (\E c \in Ids : Boot!start_cpu(c)) \/ UNCHANGED Boot!vars
  BY <1>9, Zenon DEF Boot!start_cpu, Boot!vars, CountInv
<1>10. ASSUME NEW c \in Ids, Boot!cpu_main_rs_prints(c) PROVE CountInv'
  <2>1. lapic' = lapic /\ percpus' = percpus
    BY <1>10, Zenon DEF Boot!cpu_main_rs_prints, Boot!Printing
  <2>2. \/ at[c] \in {"online", "print_online"} /\ at' = [at EXCEPT ![c] = at'[c]] /\ at'[c] \notin AfterDiv
        \/ at[c] \in Boot!Done /\ at' = [at EXCEPT ![c] = at'[c]] /\ at'[c] \in Boot!Done
    BY <1>1, <1>10 DEF Boot!cpu_main_rs_prints, Boot!Printing, Boot!Step
  <2>3. CASE at[c] \in {"online", "print_online"}
    BY <1>4, <2>1, <2>2, <2>3
  <2>4. CASE at[c] \in Boot!Done /\ at' = [at EXCEPT ![c] = at'[c]] /\ at'[c] \in Boot!Done
    <3>1. \A d \in Ids : (at'[d] \in Boot!Done <=> at[d] \in Boot!Done) /\ (d # c => at'[d] = at[d])
      BY <1>1, <2>4
    <3> QED BY <1>1, <2>1, <2>4, <3>1 DEF CountInv
  <2> QED BY <2>2, <2>3, <2>4
<1> QED BY <1>5, <1>6, <1>7, <1>8, <1>9, <1>10 DEF Boot!Next, Boot!Run

(* PERCPUS holds for each processor that is done what its own local APIC    *)
(* counts in a milli second, or more, but for less than a tick, and nothing *)
(* for the others, for any list of local APIC ids, gaps and ids beyond      *)
(* MAX_CPU_COUNT included, and any length of a tick.                        *)
THEOREM MilliSecondsCounted == Boot!Spec => []Calibrated
<1>1. CountInv => Calibrated
  <2> SUFFICES ASSUME CountInv, NEW i \in DOMAIN percpus
               PROVE  IF i \in Ids /\ at[i] \in Boot!Done
                      THEN percpus[i] >= Least \div Boot!Divider[lapic[i].div]
                      ELSE percpus[i] = Boot!Uninit
    BY DEF Calibrated, Boot!Calibrated, Least
  <2>1. i \in 0 .. MAX_CPU_COUNT - 1
    BY DEF CountInv
  <2>2. i \in Ids /\ at[i] \in Boot!Done => lapic[i].div = 1
    BY DEF CountInv, AfterDiv, Counting, Boot!Done
  <2> QED BY <2>1, <2>2, DividedByFour DEF CountInv, Boot!Uninit
<1>2. Boot!Init => PlaceInv /\ VectorInv /\ CountInv
  BY PlaceInit, VectorInit, CountInit, BootAssumption
<1>3. PlaceInv /\ VectorInv /\ CountInv /\ [Boot!Next]_Boot!vars
        => PlaceInv' /\ VectorInv' /\ CountInv'
  BY PlaceStep, VectorStep, CountStep, BootAssumption
<1> QED BY <1>1, <1>2, <1>3, PTL DEF Boot!Spec
=============================================================================
