-------------------------------- MODULE Time --------------------------------
(***************************************************************************)
(* src/src/time.rs: sleeps that poll the main counter of the HPET, and its  *)
(* timer 0, started from several processors.  Time passes in femto seconds, *)
(* of which the counter shows whole ticks.                                  *)
(***************************************************************************)
EXTENDS Integers

CONSTANTS
  Cpu,
  FsPerTick,    \* fs_per_tick()
  FsPerNs,      \* 1_000_000
  Durations,    \* in nano seconds
  MaxFs,        \* u64::MAX
  LastCall,     \* bound: no call begins later
  MaxClock      \* bound on the clock

(* A tick and a nano second take time. *)
TimeConstants ==
  /\ FsPerTick \in Nat \ {0} /\ FsPerNs \in Nat \ {0}
  /\ Durations \subseteq Nat
  /\ MaxFs \in Nat /\ LastCall \in Nat /\ MaxClock \in Nat

VARIABLES
  clock,        \* femto seconds since the counter was enabled
  comparator,   \* of timer 0
  fired,        \* the interrupt for this comparator has been thrown
  pc,           \* "idle", "sleeping", "woken" or "starting"
  nanos,        \* the argument of the call
  seen,         \* the counter, as the call first read it
  start,        \* history: the clock at that read
  asked         \* history: start and nanos of the call that set the comparator

vars == <<clock, comparator, fired, pc, nanos, seen, start, asked>>

Init ==
  /\ clock = 0
  /\ comparator = 0 /\ fired = FALSE
  /\ pc = [c \in Cpu |-> "idle"]
  /\ nanos = [c \in Cpu |-> 0] /\ seen = [c \in Cpu |-> 0] /\ start = [c \in Cpu |-> 0]
  /\ asked = [start |-> 0, nanos |-> 0]

-----------------------------------------------------------------------------
read_main_counter(t) == t \div FsPerTick
elapsed_fs(ticks) == ticks * FsPerTick
femto_seconds(n) == n * FsPerNs

(* The clock goes on, and a tick that makes counter and comparator equal throws the interrupt. *)
advance ==
  /\ clock < MaxClock
  /\ clock' = clock + 1
  /\ fired' = (fired \/ /\ read_main_counter(clock + 1) # read_main_counter(clock)
                        /\ read_main_counter(clock + 1) = comparator)
  /\ UNCHANGED <<comparator, pc, nanos, seen, start, asked>>

Begin(c, n, where) ==
  /\ pc[c] \in {"idle", "woken"} /\ clock <= LastCall
  /\ pc' = [pc EXCEPT ![c] = where]
  /\ nanos' = [nanos EXCEPT ![c] = n]
  /\ seen' = [seen EXCEPT ![c] = read_main_counter(clock)]
  /\ start' = [start EXCEPT ![c] = clock]
  /\ UNCHANGED <<clock, comparator, fired, asked>>

poll_sleep(c, n) == Begin(c, n, "sleeping")

(* Mutant: the time since boot is compared, not the time since the call. *)
sleep_over_absolute(c) ==
  elapsed_fs(read_main_counter(clock)) \div FsPerNs > nanos[c]

sleep_over(c) ==
  (elapsed_fs(read_main_counter(clock)) - elapsed_fs(seen[c])) \div FsPerNs > nanos[c]

poll(c) ==
  /\ pc[c] = "sleeping"
  /\ pc' = [pc EXCEPT ![c] = IF sleep_over(c) THEN "woken" ELSE @]
  /\ UNCHANGED <<clock, comparator, fired, nanos, seen, start, asked>>

(* A duration that SmallDuration::new accepts; the counter is read. *)
start_timer(c, n) == femto_seconds(n) <= MaxFs /\ Begin(c, n, "starting")

(* Mutant: the comparator is set to the length of the wait. *)
comparator_relative(c) == femto_seconds(nanos[c]) \div FsPerTick

comparator_value(c) == seen[c] + femto_seconds(nanos[c]) \div FsPerTick

set_counter_raw(c) ==
  /\ pc[c] = "starting"
  /\ comparator' = comparator_value(c) /\ fired' = FALSE
  /\ asked' = [start |-> start[c], nanos |-> nanos[c]]
  /\ pc' = [pc EXCEPT ![c] = "idle"]
  /\ UNCHANGED <<clock, nanos, seen, start>>

Next ==
  \/ advance
  \/ \E c \in Cpu :
       \/ \E n \in Durations : poll_sleep(c, n) \/ start_timer(c, n)
       \/ poll(c) \/ set_counter_raw(c)

Spec == Init /\ [][Next]_vars

-----------------------------------------------------------------------------
(* poll_sleep returns when the whole duration has passed but for less than  *)
(* the one tick by which the counter it read first may have been behind.    *)
SleptEnough ==
  \A c \in Cpu : pc[c] = "woken" => clock - start[c] > femto_seconds(nanos[c]) - FsPerTick

(* The interrupt of start_timer comes less than two ticks early, one for    *)
(* the rounding of the division and one for the counter it read, whoever    *)
(* else starts the timer between its read and its store.                    *)
TimerNotEarly ==
  fired => clock - asked.start > femto_seconds(asked.nanos) - 2 * FsPerTick
=============================================================================
