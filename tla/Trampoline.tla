----------------------------- MODULE Trampoline -----------------------------
(***************************************************************************)
(* The handlers of Idt as the processor runs them: an interrupt or an       *)
(* exception pushes its frame on a stack it aligned, the instructions run   *)
(* one by one, an exception or the timer may come between any two of them,  *)
(* and iretq goes back.                                                     *)
(***************************************************************************)
EXTENDS Idt

CONSTANTS
  Vectors,      \* what may be raised
  MaxNesting    \* bound: handlers inside each other

(* Exceptions for which the processor pushes an error code *)
ErrorVectors == {8, 10, 11, 12, 13, 14, 17, 21, 29, 30}
TimerVector == 32

ASSUME VectorsAssumption == Vectors \subseteq 0 .. 31 \cup {TimerVector} /\ MaxNesting \in Nat

Last(s) == s[Len(s)]
Front(s) == SubSeq(s, 1, Len(s) - 1)

shared_idt == insert(create_init_idt, TimerVector, timer_entry)

(* Where the linker puts the handler of each vector *)
Address(v) == <<v, v + 1, v + 2, v + 3>>

VARIABLES
  regs,       \* the registers a C function may change
  stack,      \* words pushed since the boot stack's last 16-byte boundary
  flag,       \* the interrupt flag
  pc,         \* [vector, at]: the handler that runs, and its next instruction
  frames      \* history: what each delivery that has not returned interrupted

vars == <<regs, stack, flag, pc, frames>>

Main == [vector |-> -1, at |-> 0]
Halted == [vector |-> -1, at |-> 1]
Wild == [vector |-> -1, at |-> 2]     \* a gate that leads to no handler

(* Code of the kernel, with a stack at any depth; irq_enable may have been called. *)
Init ==
  /\ regs = [r \in {saved_regs[i] : i \in DOMAIN saved_regs} |-> [from |-> "main", reg |-> r]]
  /\ stack \in {<<>>, <<"local">>}
  /\ flag \in BOOLEAN
  /\ pc = Main /\ frames = <<>>

-----------------------------------------------------------------------------
Raw(v) == to_raw(shared_idt[v], Address(v))

HandlerAt(addr) ==
  LET fits == {v \in DOMAIN shared_idt : Address(v) = addr} IN
  IF fits = {} THEN Wild ELSE [vector |-> CHOOSE v \in fits : TRUE, at |-> 1]

(* SS, RSP, RFLAGS, CS and RIP, after a word that aligns the stack *)
FrameOf(v) ==
  (IF Len(stack) % 2 = 1 THEN <<"align">> ELSE <<>>) \o
  <<"ss", [rsp |-> Len(stack)], [rflags |-> flag], "cs", [rip |-> pc]>> \o
  (IF v \in ErrorVectors THEN <<[error |-> v]>> ELSE <<>>)

deliver(v) ==
  /\ pc \notin {Halted, Wild} /\ Len(frames) < MaxNesting
  /\ v = TimerVector => flag
  /\ frames' = Append(frames, [vector |-> v, regs |-> regs, stack |-> stack, flag |-> flag, pc |-> pc])
  /\ stack' = stack \o FrameOf(v)
  /\ pc' = HandlerAt(GateAddress(Raw(v)))
  /\ flag' = (flag /\ ~ GateClearsIf(Raw(v)))
  /\ UNCHANGED regs

Running(op) ==
  pc \notin {Main, Halted, Wild} /\ shared_idt[pc.vector].handler[pc.at].op = op

Arg == shared_idt[pc.vector].handler[pc.at].arg
Advance == pc' = [pc EXCEPT !.at = @ + 1]

push ==
  /\ Running("push")
  /\ stack' = Append(stack, regs[Arg])
  /\ Advance /\ UNCHANGED <<regs, flag, frames>>

pop ==
  /\ Running("pop")
  /\ regs' = [regs EXCEPT ![Arg] = Last(stack)]
  /\ stack' = Front(stack)
  /\ Advance /\ UNCHANGED <<flag, frames>>

sub ==
  /\ Running("sub")
  /\ stack' = Append(stack, "junk")
  /\ Advance /\ UNCHANGED <<regs, flag, frames>>

add ==
  /\ Running("add")
  /\ stack' = Front(stack)
  /\ Advance /\ UNCHANGED <<regs, flag, frames>>

load_rdi ==
  /\ Running("load_rdi")
  /\ regs' = [regs EXCEPT !["rdi"] = stack[Len(stack) - Arg]]
  /\ Advance /\ UNCHANGED <<stack, flag, frames>>

(* The body returns with all of saved_regs changed, or panics. *)
call ==
  /\ Running("call")
  /\ IF Arg = "panic" THEN pc' = Halted /\ UNCHANGED regs
     ELSE Advance /\ regs' = [r \in DOMAIN regs |-> [from |-> Arg, reg |-> r]]
  /\ UNCHANGED <<stack, flag, frames>>

(* RIP, CS, RFLAGS, RSP and SS from the top of the stack *)
iretq ==
  /\ Running("iretq")
  /\ LET top(i) == stack[Len(stack) - i] IN
     /\ pc' = top(0).rip
     /\ flag' = top(2).rflags
     /\ stack' = SubSeq(stack, 1, top(3).rsp)
  /\ frames' = Front(frames)
  /\ UNCHANGED regs

Next ==
  \/ \E v \in Vectors : deliver(v)
  \/ push \/ pop \/ sub \/ add \/ load_rdi \/ call \/ iretq

Spec == Init /\ [][Next]_vars

-----------------------------------------------------------------------------
(* A handler that returns leaves registers, stack and flag of what it       *)
(* interrupted as they were, main code or another handler between any two   *)
(* of its instructions: the macro saves what the C function may change.     *)
InterruptTransparent ==
  [][iretq => LET f == Last(frames) IN
       regs' = f.regs /\ stack' = f.stack /\ flag' = f.flag /\ pc' = f.pc]_vars

(* Every delivery reaches the handler inserted at its vector: the address   *)
(* that to_raw splits is the one the processor puts together.  And the      *)
(* macro used for each vector fits what the processor pushes: a body that   *)
(* takes an error code is called with the one its exception pushed.         *)
HandlerFits ==
  /\ pc # Wild
  /\ frames # <<>> /\ pc \notin {Main, Halted} => pc.vector = Last(frames).vector
  /\ (\E v \in DOMAIN shared_idt : pc.vector = v /\ Running("call")) =>
       LET takes == \E i \in 1 .. pc.at : shared_idt[pc.vector].handler[i].op = "load_rdi" IN
       /\ takes <=> pc.vector \in ErrorVectors
       /\ takes => regs["rdi"] = [error |-> pc.vector]

(* "c abi requires stack alignment of 16 bytes": the body of a handler is   *)
(* called with the stack on a 16-byte boundary.  It does not hold: with the *)
(* five words of the processor's frame, or six, the pushes and the word     *)
(* below them leave it 8 bytes off.                                         *)
BodyAligned == Running("call") => Len(stack) % 2 = 0
=============================================================================
