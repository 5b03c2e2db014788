--------------------------- MODULE InterruptGuard ---------------------------
(***************************************************************************)
(* src/src/interrupts.rs: every processor calls irq_enable and irq_disable, *)
(* runs guards inside each other, and in a guard locks and changes          *)
(* SHARED_IDT; interrupts come whenever the processor's flag lets them.     *)
(***************************************************************************)
EXTENDS Integers, SequencesExt

CONSTANTS
  Cpu,
  MaxDepth    \* bound: guards inside each other

None == "none"

VARIABLES
  flag,       \* bit 9 of each processor's RFLAGS
  guards,     \* interrupts_enabled of each guard a processor is in, outermost first
  locked,     \* who holds the Mutex of SHARED_IDT
  handling    \* the processors that run an interrupt handler

vars == <<flag, guards, locked, handling>>

(* The boot loader enters the kernel with the flag clear. *)
Init ==
  /\ flag = [c \in Cpu |-> FALSE]
  /\ guards = [c \in Cpu |-> <<>>]
  /\ locked = None /\ handling = {}

(* rflags() with the other flags clear *)
rflags(c) == IF flag[c] THEN 512 ELSE 0

(* rflags() & 0x0200 == 1 compares the masked bit, 0 or 512, with 1. *)
irq_is_enabled(c) == rflags(c) = 1

-----------------------------------------------------------------------------
(* The processor executes code that is no handler and does not change the table. *)
Free(c) == c \notin handling /\ locked # c

irq_enable(c) ==
  /\ Free(c) /\ guards[c] = <<>>
  /\ flag' = [flag EXCEPT ![c] = TRUE]
  /\ UNCHANGED <<guards, locked, handling>>

irq_disable(c) ==
  /\ Free(c) /\ guards[c] = <<>>
  /\ flag' = [flag EXCEPT ![c] = FALSE]
  /\ UNCHANGED <<guards, locked, handling>>

(* interrupt_guard up to its call of func *)
guard_enter(c) ==
  /\ Free(c) /\ Len(guards[c]) < MaxDepth
  /\ guards' = [guards EXCEPT ![c] = Append(@, irq_is_enabled(c))]
  /\ flag' = [flag EXCEPT ![c] = @ /\ ~ irq_is_enabled(c)]
  /\ UNCHANGED <<locked, handling>>

(* func of a guard: idt.lock(), stores into the table, end of the lock *)
idt_lock(c) ==
  /\ Free(c) /\ guards[c] # <<>> /\ locked = None
  /\ locked' = c
  /\ UNCHANGED <<flag, guards, handling>>

idt_unlock(c) ==
  /\ locked = c /\ c \notin handling
  /\ locked' = None
  /\ UNCHANGED <<flag, guards, handling>>

(* interrupt_guard after func *)
guard_leave(c) ==
  /\ Free(c) /\ guards[c] # <<>>
  /\ flag' = [flag EXCEPT ![c] = @ \/ Last(guards[c])]
  /\ guards' = [guards EXCEPT ![c] = Front(@)]
  /\ UNCHANGED <<locked, handling>>

interrupt(c) ==
  /\ flag[c]
  /\ handling' = handling \cup {c} /\ flag' = [flag EXCEPT ![c] = FALSE]
  /\ UNCHANGED <<guards, locked>>

(* An interrupt is taken only with the flag set, and iretq restores it. *)
interrupt_return(c) ==
  /\ c \in handling
  /\ handling' = handling \ {c} /\ flag' = [flag EXCEPT ![c] = TRUE]
  /\ UNCHANGED <<guards, locked>>

Next ==
  \E c \in Cpu :
    \/ irq_enable(c) \/ irq_disable(c)
    \/ guard_enter(c) \/ idt_lock(c) \/ idt_unlock(c) \/ guard_leave(c)
    \/ interrupt(c) \/ interrupt_return(c)

Spec == Init /\ [][Next]_vars

-----------------------------------------------------------------------------
(* "Temporarily stop interrupts in the given function": no interrupt is     *)
(* handled on a processor that is in a guard, as the changes of SHARED_IDT  *)
(* are.  It does not hold: irq_is_enabled never finds the flag set, and     *)
(* interrupt_guard does not clear it.                                       *)
InterruptsStopped == \A c \in Cpu : guards[c] # <<>> => c \notin handling
=============================================================================
