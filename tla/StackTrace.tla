----------------------------- MODULE StackTrace -----------------------------
(***************************************************************************)
(* src/src/stack_trace.rs and the loop of the panic handler that prints a   *)
(* trace.  `nm -n` sorts the symbol file by address.  kmain and cpu_main    *)
(* clear rbp, so that the function they call saves 0 in its frame; they and *)
(* the handlers that the macros of src/src/idt.rs assemble make no frame.   *)
(***************************************************************************)
EXTENDS Integers, Sequences

CONSTANTS
  Begin, End,  \* kernel_virt_begin() and the last byte of the kernel
  Symbols,     \* lines of the symbol file, [addr, name]
  Functions,   \* first and last byte of each function, [start, end]
  Entries,     \* kmain and cpu_main
  Wrappers,    \* the handlers, entered by an exception or interrupt
  MaxDepth     \* bound: functions on the stack

NoName == "none"

(* `nm -n` sorts by address; a function has a name at its first byte, and   *)
(* no named line inside.                                                    *)
SymbolsOK ==
  /\ Begin \in Int /\ End \in Int
  /\ Entries \subseteq Functions /\ Wrappers \subseteq Functions /\ Entries \cap Wrappers = {}
  /\ Symbols \in Seq([addr : Int, name : STRING])
  /\ \A i, j \in DOMAIN Symbols : i < j => Symbols[i].addr <= Symbols[j].addr
  /\ \A f \in Functions :
       /\ f.start \in Int /\ f.end \in Int
       /\ Begin <= f.start /\ f.start <= f.end /\ f.end <= End
       /\ \E i \in DOMAIN Symbols : Symbols[i].addr = f.start /\ Symbols[i].name # NoName
       /\ \A i \in DOMAIN Symbols :
            Symbols[i].addr \in f.start + 1 .. f.end => Symbols[i].name = NoName

VARIABLES
  stack,       \* [func, at, framed]: functions on the stack, the panicking one first,
               \* where they are or will be returned to, and if they made a frame
  rbp,         \* the frame to look at, 0 for None
  func_name, printed, done,
  walked       \* history: whose name func_name is, and before it those of printed

vars == <<stack, rbp, func_name, printed, done, walked>>

-----------------------------------------------------------------------------
(* The first line for addr with a name, if no line before has a larger one. *)
lookup_symbol ==
  [addr \in Begin .. End |->
     LET hit(i) == Symbols[i].addr = addr /\ Symbols[i].name # NoName
         hits == {i \in DOMAIN Symbols : hit(i) /\ \A j \in 1 .. i - 1 : ~ hit(j) /\ Symbols[j].addr <= addr}
     IN IF hits = {} THEN NoName ELSE Symbols[CHOOSE i \in hits : TRUE].name]

(* The name at the last address of a set that has one *)
LastNamed(addrs) ==
  LET named == {a \in addrs : lookup_symbol[a] # NoName} IN
  IF named = {} THEN NoName ELSE lookup_symbol[CHOOSE a \in named : \A b \in named : b <= a]

(* Mutant: the return address itself is looked up too. *)
lookup_symbol_at_return_addr ==
  [ret_addr \in Begin .. End + 1 |-> LastNamed((Begin .. ret_addr) \cap (Begin .. End))]

(* Every address from the one before ret_addr down *)
lookup_symbol_from_return_addr ==
  [ret_addr \in Begin .. End + 1 |-> LastNamed(Begin .. ret_addr - 1)]

(* A call instruction of f ends at one of these addresses, the next         *)
(* function's first byte among them.                                        *)
AfterCall(f) == f.start + 1 .. f.end + 1

Activations ==
  UNION {[func : {f}, at : AfterCall(f), framed : BOOLEAN] : f \in Functions}

(* The entry is at the bottom.  What an exception interrupted has its handler above it, and    *)
(* may not have made its frame yet; everyone else who is no handler or entry has.              *)
StackOK(s) ==
  /\ s[1].framed
  /\ \A i \in DOMAIN s :
       /\ s[i].func \in Entries <=> i = Len(s)
       /\ s[i].func \in Wrappers => i \in 2 .. Len(s) - 2
       /\ s[i].framed => s[i].func \notin Entries \cup Wrappers
       /\ ~ s[i].framed => \/ s[i].func \in Entries \cup Wrappers
                           \/ i > 1 /\ s[i - 1].func \in Wrappers

(* The return address in a frame is where its caller goes on. *)
ret_addr_in(frame) == stack[frame + 1].at

Stacks == {s \in UNION {[1 .. n -> Activations] : n \in 2 .. MaxDepth} : StackOK(s)}

InitAt(stacks) ==
  /\ stack \in stacks
  /\ rbp = 1
  /\ func_name = lookup_symbol_from_return_addr[stack[1].at]
  /\ printed = <<>> /\ done = FALSE
  /\ walked = <<1>>

Init == InitAt(Stacks)

(* The rbp that a frame saves, of the next frame on the stack, or 0 *)
saved_rbp ==
  LET older == {i \in rbp + 1 .. Len(stack) : stack[i].framed} IN
  IF older = {} THEN 0 ELSE CHOOSE i \in older : \A j \in older : i <= j

(* One turn of the loop: next() and the lookup of what it returns *)
trace_next ==
  /\ rbp # 0
  /\ LET sym == lookup_symbol_from_return_addr[ret_addr_in(rbp)] IN
     func_name' = IF sym = NoName THEN "unknown_func" ELSE sym
  /\ printed' = Append(printed, func_name)
  /\ rbp' = saved_rbp
  /\ walked' = Append(walked, rbp + 1)
  /\ UNCHANGED <<stack, done>>

trace_end ==
  /\ rbp = 0 /\ ~ done
  /\ printed' = Append(printed, func_name)
  /\ done' = TRUE
  /\ UNCHANGED <<stack, rbp, func_name, walked>>

Next == trace_next \/ trace_end

Spec == Init /\ [][Next]_vars

-----------------------------------------------------------------------------
NamesAt(addr) == {Symbols[i].name : i \in {j \in DOMAIN Symbols : Symbols[j].addr = addr}} \ {NoName}

(* What the trace can know of: the panicking function, and the callers of   *)
(* functions with a frame.  It is all of the stack but what an exception    *)
(* interrupted, and the caller of that if its frame was not made yet.       *)
Known == {1} \cup {i + 1 : i \in {j \in DOMAIN stack : stack[j].framed}}

(* The trace names all of those, once each and in their order, up to kmain  *)
(* or cpu_main, also one whose last instruction is the call, as in kmain    *)
(* and the handlers of traps: its return address is the first byte of       *)
(* another function.                                                        *)
TraceFaithful ==
  /\ \A i, j \in DOMAIN walked : i < j => walked[i] < walked[j]
  /\ \A i \in DOMAIN printed : printed[i] \in NamesAt(stack[walked[i]].func.start)
  /\ done => /\ Len(printed) = Len(walked)
             /\ {walked[i] : i \in DOMAIN walked} = Known
=============================================================================
