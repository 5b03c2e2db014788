------------------------------ MODULE Devices ------------------------------
(***************************************************************************)
(* What the functions of src/src/dev write into a register, given what they *)
(* read from it: a register is the record of the bit fields that the code   *)
(* tells apart.                                                             *)
(***************************************************************************)
EXTENDS Integers

(* The HPET: general configuration, and configuration of a timer *)
ConfigAtReset == [enable_cnf |-> FALSE, leg_rt_cnf |-> FALSE]

enable(old) == [old EXCEPT !.enable_cnf = TRUE]
enable_legacy_mapping(old) == [old EXCEPT !.leg_rt_cnf = TRUE]

timer_enable(old) == [old EXCEPT !.int_enb = TRUE]

-----------------------------------------------------------------------------
(* The IO APIC: the two halves of an entry of its redirection table.  The   *)
(* destination is made of destination_mode, Physical (0) or Logical (1).    *)
as_raw_low(entry) ==
  [vector |-> entry.redirected_irq_num, mask |-> entry.mask, trigger |-> entry.trigger_mode]

as_raw_high(entry) == IF entry.destination_mode = "Physical" THEN 0 ELSE 1

(* redirect_irq: the number of the register with the low half *)
reg_num(irq_num) == irq_num * 2 + 16

-----------------------------------------------------------------------------
(* The local APIC: the processor divides its bus clock by this for each     *)
(* value of the divide configuration register.                              *)
Divider == [div \in {0, 1, 2, 3, 8, 9, 10, 11} |->
  CASE div = 0 -> 2 [] div = 1 -> 4 [] div = 2 -> 8 [] div = 3 -> 16
    [] div = 8 -> 32 [] div = 9 -> 64 [] div = 10 -> 128 [] div = 11 -> 1]

(* set_spurious_interrupt_irq keeps the enable bit. *)
set_spurious_interrupt_irq(old, irq) == [old EXCEPT !.vector = irq]
=============================================================================
