-------------------------------- MODULE Idt --------------------------------
(***************************************************************************)
(* src/src/idt.rs and create_init_idt of src/src/lib.rs: the handlers that  *)
(* the three macros assemble, the gates of the table, and which handler     *)
(* stands at which vector.  A handler is the sequence of its instructions;  *)
(* one body word stands for the Rust function it calls.                     *)
(***************************************************************************)
EXTENDS Integers, Sequences

(* The registers that a C function may change, in the order of the pushes *)
saved_regs == <<"rdi", "rsi", "rdx", "rcx", "rax", "r8", "r9", "r10", "r11">>

Op(name, arg) == [op |-> name, arg |-> arg]
Pushes == [i \in DOMAIN saved_regs |-> Op("push", saved_regs[i])]

(* Mutant: the registers are popped in the order they were pushed. *)
Pops_unreversed == [i \in DOMAIN saved_regs |-> Op("pop", saved_regs[i])]

Pops == [i \in DOMAIN saved_regs |-> Op("pop", saved_regs[Len(saved_regs) + 1 - i])]

interrupt_handler_fn(body) ==
  Pushes \o <<Op("sub", 1), Op("call", body), Op("add", 1)>> \o Pops \o <<Op("iretq", 0)>>

trap_handler_fn(body) == Pushes \o <<Op("sub", 1), Op("call", body)>>

trap_handler_fn_with_error(body) == Pushes \o <<Op("load_rdi", 9), Op("call", body)>>

Interrupt(handler) == [type |-> "interrupt", handler |-> handler]
Trap(handler) == [type |-> "trap", handler |-> handler]

-----------------------------------------------------------------------------
to_raw(entry, addr) ==
  [fn_ptr_low |-> addr[1], fn_ptr_mid |-> addr[2], fn_ptr_high |-> SubSeq(addr, 3, 4),
   options |-> IF entry.type = "interrupt" THEN "8E00" ELSE "8F00"]

(* What the processor takes from a gate: 8E00 clears the interrupt flag. *)
GateAddress(raw) == <<raw.fn_ptr_low, raw.fn_ptr_mid>> \o raw.fn_ptr_high
GateClearsIf(raw) == raw.options = "8E00"

-----------------------------------------------------------------------------
(* Vectors 0 to 13 and 14 to 31 of create_init_idt *)
init_idt_low ==
  [v \in 0 .. 13 |->
     IF v = 2 THEN Interrupt(interrupt_handler_fn("panic"))
     ELSE IF v \in {8, 10, 11, 12, 13} THEN Trap(trap_handler_fn_with_error("panic"))
     ELSE Trap(trap_handler_fn("panic"))]

(* Mutant: the page fault handler takes no error code. *)
init_idt_high_14 ==
  [v \in 14 .. 31 |->
     IF v \in {17, 21, 29, 30} THEN Trap(trap_handler_fn_with_error("panic"))
     ELSE Trap(trap_handler_fn("panic"))]

init_idt_high ==
  [v \in 14 .. 31 |->
     IF v \in {14, 17, 21, 29, 30} THEN Trap(trap_handler_fn_with_error("panic"))
     ELSE Trap(trap_handler_fn("panic"))]

create_init_idt ==
  [v \in 0 .. 31 |-> IF v \in DOMAIN init_idt_low THEN init_idt_low[v] ELSE init_idt_high[v]]

(* Idt::insert replaces one gate. *)
insert(idt, v, entry) == [w \in DOMAIN idt \cup {v} |-> IF w = v THEN entry ELSE idt[w]]

(* hpet_init *)
timer_entry == Interrupt(interrupt_handler_fn("eoi"))
=============================================================================
