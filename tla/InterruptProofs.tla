-------------------------- MODULE InterruptProofs --------------------------
(***************************************************************************)
(* Theorems about the interrupt handlers (Trampoline), for any set of      *)
(* vectors and handlers inside each other to any depth.                    *)
(***************************************************************************)
EXTENDS Trampoline, TLAPS

(* The nine saved registers, as the proofs use them *)
Regs == {saved_regs[i] : i \in DOMAIN saved_regs}

(* The list has no register twice, and begins with rdi. *)
LEMMA RegsAre ==
  /\ DOMAIN saved_regs = 1 .. 9 /\ Len(saved_regs) = 9
  /\ saved_regs[1] = "rdi" /\ "rdi" \in Regs
  /\ \A i, j \in 1 .. 9 : saved_regs[i] = saved_regs[j] => i = j
  /\ \A r \in Regs : \E i \in 1 .. 9 : r = saved_regs[i]
  /\ \A i \in 1 .. 9 : saved_regs[i] \in Regs
<1>1. DOMAIN saved_regs = 1 .. 9 /\ Len(saved_regs) = 9 /\ saved_regs[1] = "rdi"
  BY DEF saved_regs
<1>2. \A i, j \in 1 .. 9 : saved_regs[i] = saved_regs[j] => i = j
  BY DEF saved_regs
<1> QED BY <1>1, <1>2 DEF Regs

-----------------------------------------------------------------------------
(* h is s, of length m, with t, of length n, after it. *)
IsJoin(h, s, t, m, n) ==
  /\ Len(h) = m + n
  /\ \A k \in 1 .. m : h[k] = s[k]
  /\ \A k \in 1 .. n : h[m + k] = t[k]

(* What stands where in two sequences joined *)
LEMMA Joined ==
  ASSUME NEW P, NEW s \in Seq(P), NEW t \in Seq(P), NEW m, NEW n, Len(s) = m, Len(t) = n,
         NEW h, h = s \o t
  PROVE  h \in Seq(P) /\ IsJoin(h, s, t, m, n)
<1>1. ASSUME NEW f \in Seq(P), NEW g \in Seq(P)
      PROVE  f \o g \in Seq(P) /\ IsJoin(f \o g, f, g, Len(f), Len(g))
  BY DEF IsJoin
<1>2. s \o t \in Seq(P) /\ IsJoin(s \o t, s, t, Len(s), Len(t))
  BY <1>1, Zenon
<1> QED BY <1>2, Zenon

(* t is what s has from m to n. *)
IsPart(t, s, m, n) ==
  Len(t) = n - m + 1 /\ \A k \in 1 .. n - m + 1 : t[k] = s[m + k - 1]

(* What a part of a sequence has *)
LEMMA PartOf ==
  ASSUME NEW P, NEW s \in Seq(P), NEW m \in 1 .. Len(s), NEW n \in m .. Len(s),
         NEW t, t = SubSeq(s, m, n)
  PROVE  t \in Seq(P) /\ IsPart(t, s, m, n)
BY DEF IsPart

(* Sequences are equal when they have the same length and elements. *)
LEMMA SameSequence ==
  ASSUME NEW P, NEW s \in Seq(P), NEW t \in Seq(P), Len(s) = Len(t),
         \A k \in 1 .. Len(s) : s[k] = t[k]
  PROVE  s = t
OBVIOUS

(* Nine instructions and two more *)
IsTwoMore(h, p, x, y) == (\A k \in 1 .. 9 : h[k] = p[k]) /\ h[10] = x /\ h[11] = y

(* ... are what the concatenation has. *)
LEMMA TwoMore ==
  ASSUME NEW P, NEW p \in Seq(P), Len(p) = 9, NEW x \in P, NEW y \in P
  PROVE  IsTwoMore(p \o <<x, y>>, p, x, y)
<1>1. PICK q : q = <<x, y>>
  OBVIOUS
<1>2. q \in Seq(P) /\ Len(q) = 2 /\ q[1] = x /\ q[2] = y
  BY <1>1
<1>3. PICK h : h = p \o q
  OBVIOUS
<1>4. IsJoin(h, p, q, 9, 2)
  BY <1>2, <1>3, Joined, Zenon
<1>5. /\ \A k \in 1 .. 9 : h[k] = p[k]
      /\ \A k \in 1 .. 2 : h[9 + k] = q[k]
  BY <1>4, Zenon DEF IsJoin
<1>6. h[10] = x /\ h[11] = y
  BY <1>2, <1>5
<1>7. IsTwoMore(h, p, x, y)
  BY <1>5, <1>6, Zenon DEF IsTwoMore
<1> QED BY <1>1, <1>3, <1>7, Zenon

(* Nine instructions, three, nine others and a last one *)
IsFourParts(h, p, q, x, y, z, w) ==
  /\ \A k \in 1 .. 9 : h[k] = p[k] /\ h[12 + k] = q[k]
  /\ h[10] = x /\ h[11] = y /\ h[12] = z /\ h[22] = w

(* ... are what the concatenation has. *)
LEMMA FourParts ==
  ASSUME NEW P, NEW p \in Seq(P), Len(p) = 9, NEW q \in Seq(P), Len(q) = 9,
         NEW x \in P, NEW y \in P, NEW z \in P, NEW w \in P
  PROVE  IsFourParts(p \o <<x, y, z>> \o q \o <<w>>, p, q, x, y, z, w)
<1>1. PICK m, e : m = <<x, y, z>> /\ e = <<w>>
  OBVIOUS
<1>2. /\ m \in Seq(P) /\ Len(m) = 3 /\ m[1] = x /\ m[2] = y /\ m[3] = z
      /\ e \in Seq(P) /\ Len(e) = 1 /\ e[1] = w
  BY <1>1
<1>3. PICK s, t, h : s = p \o m /\ t = s \o q /\ h = t \o e
  OBVIOUS
<1>4. h = p \o <<x, y, z>> \o q \o <<w>>
  BY <1>1, <1>3, Zenon
<1>5. s \in Seq(P) /\ IsJoin(s, p, m, 9, 3)
  BY <1>2, <1>3, Joined, Zenon
<1>6. Len(s) = 12
  BY <1>5 DEF IsJoin
<1>7. t \in Seq(P) /\ IsJoin(t, s, q, 12, 9)
  BY <1>3, <1>5, <1>6, Joined, Zenon
<1>8. Len(t) = 21
  BY <1>7 DEF IsJoin
<1>9. IsJoin(h, t, e, 21, 1)
  BY <1>2, <1>3, <1>7, <1>8, Joined, Zenon
<1>10. /\ \A k \in 1 .. 21 : h[k] = t[k]
       /\ \A k \in 1 .. 12 : t[k] = s[k]
       /\ \A k \in 1 .. 9 : s[k] = p[k]
       /\ \A k \in 1 .. 3 : s[9 + k] = m[k]
       /\ \A k \in 1 .. 9 : t[12 + k] = q[k]
       /\ h[21 + 1] = e[1]
  <2>1. 1 \in 1 .. 1
    OBVIOUS
  <2> QED BY <1>5, <1>7, <1>9, <2>1, Zenon DEF IsJoin
<1>11. h[10] = x /\ h[11] = y /\ h[12] = z /\ h[22] = w
  <2>1. h[10] = s[10] /\ h[11] = s[11] /\ h[12] = s[12] /\ h[22] = e[1]
    BY <1>10
  <2>2. s[10] = m[1] /\ s[11] = m[2] /\ s[12] = m[3]
    BY <1>10
  <2> QED BY <1>2, <2>1, <2>2, Zenon
<1>12. \A k \in 1 .. 9 : h[k] = p[k] /\ h[12 + k] = q[k]
  BY <1>10
<1>13. IsFourParts(h, p, q, x, y, z, w)
  BY <1>11, <1>12, Zenon DEF IsFourParts
<1> QED BY <1>4, <1>13, Zenon
-----------------------------------------------------------------------------
(* The instructions of the handlers *)
Instructions == {Op("push", r) : r \in Regs} \cup {Op("pop", r) : r \in Regs}
                  \cup {Op("sub", 1), Op("add", 1), Op("load_rdi", 9), Op("iretq", 0)}
                  \cup {Op("call", "panic"), Op("call", "eoi")}

(* Pushes and Pops have one instruction for each register. *)
LEMMA PushesPops ==
  /\ Pushes \in Seq(Instructions) /\ Len(Pushes) = 9
  /\ \A k \in 1 .. 9 : Pushes[k] = Op("push", saved_regs[k])
  /\ Pops \in Seq(Instructions) /\ Len(Pops) = 9
  /\ \A k \in 1 .. 9 : Pops[k] = Op("pop", saved_regs[10 - k])
<1>1. DOMAIN saved_regs = 1 .. 9 /\ Len(saved_regs) = 9 /\ \A i \in 1 .. 9 : saved_regs[i] \in Regs
  BY RegsAre
<1>2. Pushes = [i \in 1 .. 9 |-> Op("push", saved_regs[i])]
  BY <1>1 DEF Pushes
<1>3. Pops = [i \in 1 .. 9 |-> Op("pop", saved_regs[10 - i])]
  BY <1>1 DEF Pops
<1>4. \A r \in Regs : Op("push", r) \in Instructions /\ Op("pop", r) \in Instructions
  BY Zenon DEF Instructions
<1>5. \A i \in 1 .. 9 : 10 - i \in 1 .. 9
  OBVIOUS
<1>6. Pushes \in [1 .. 9 -> Instructions] /\ Pops \in [1 .. 9 -> Instructions]
  BY <1>1, <1>2, <1>3, <1>4, <1>5
<1> QED BY <1>2, <1>3, <1>6

(* The text of a handler: the pushes, what makes room or takes the error    *)
(* code, the call; in the timer's, what undoes them in the other order.     *)
Spelt(h, tenth, body) ==
  /\ \A k \in 1 .. 9 : h[k] = Op("push", saved_regs[k])
  /\ h[10] = tenth
  /\ h[11] = Op("call", body)

SpeltBack(h) ==
  /\ h[12] = Op("add", 1)
  /\ \A k \in 1 .. 9 : h[12 + k] = Op("pop", saved_regs[10 - k])
  /\ h[22] = Op("iretq", 0)

(* What the three macros assemble *)
LEMMA MacroTexts ==
  ASSUME NEW b \in {"panic", "eoi"}
  PROVE  /\ Spelt(trap_handler_fn(b), Op("sub", 1), b)
         /\ Spelt(trap_handler_fn_with_error(b), Op("load_rdi", 9), b)
         /\ Spelt(interrupt_handler_fn(b), Op("sub", 1), b)
         /\ SpeltBack(interrupt_handler_fn(b))
<1>1. /\ Op("sub", 1) \in Instructions /\ Op("load_rdi", 9) \in Instructions
      /\ Op("add", 1) \in Instructions /\ Op("iretq", 0) \in Instructions
  BY Zenon DEF Instructions
<1>2. Op("call", b) \in Instructions
  BY Zenon DEF Instructions
<1>3. Pushes \in Seq(Instructions) /\ Len(Pushes) = 9 /\ Pops \in Seq(Instructions) /\ Len(Pops) = 9
  BY PushesPops, Zenon
<1>4. ASSUME NEW x \in Instructions
      PROVE  Spelt(Pushes \o <<x, Op("call", b)>>, x, b)
  <2>1. IsTwoMore(Pushes \o <<x, Op("call", b)>>, Pushes, x, Op("call", b))
    BY <1>2, <1>3, TwoMore, Zenon
  <2> QED BY <2>1, PushesPops, Zenon DEF Spelt, IsTwoMore
<1>5. IsFourParts(interrupt_handler_fn(b), Pushes, Pops, Op("sub", 1), Op("call", b),
                  Op("add", 1), Op("iretq", 0))
  BY <1>1, <1>2, <1>3, FourParts, Zenon DEF interrupt_handler_fn
<1>6. Spelt(interrupt_handler_fn(b), Op("sub", 1), b) /\ SpeltBack(interrupt_handler_fn(b))
  BY <1>5, PushesPops, Zenon DEF Spelt, SpeltBack, IsFourParts
<1> QED BY <1>1, <1>4, <1>6, Zenon DEF trap_handler_fn, trap_handler_fn_with_error

(* What stands at each vector: the handlers of exceptions that come with an *)
(* error code load it, and only the timer's returns.                        *)
LEMMA TableText ==
  ASSUME NEW v \in 0 .. 31 \cup {TimerVector}
  PROVE  LET h == shared_idt[v].handler IN
         /\ v \in DOMAIN shared_idt
         /\ v \in ErrorVectors => Spelt(h, Op("load_rdi", 9), "panic")
         /\ v \notin ErrorVectors /\ v # TimerVector => Spelt(h, Op("sub", 1), "panic")
         /\ v = TimerVector => Spelt(h, Op("sub", 1), "eoi") /\ SpeltBack(h)
<1>1. PICK t, e, n, c : /\ t = Trap(trap_handler_fn("panic")) /\ e = Trap(trap_handler_fn_with_error("panic"))
                        /\ n = Interrupt(interrupt_handler_fn("panic")) /\ c = timer_entry
  OBVIOUS
<1>2. PICK T, E, N, C : T = t.handler /\ E = e.handler /\ N = n.handler /\ C = c.handler
  OBVIOUS
<1>3. /\ Spelt(T, Op("sub", 1), "panic") /\ Spelt(E, Op("load_rdi", 9), "panic")
      /\ Spelt(N, Op("sub", 1), "panic") /\ Spelt(C, Op("sub", 1), "eoi") /\ SpeltBack(C)
  <2>1. /\ T = trap_handler_fn("panic") /\ E = trap_handler_fn_with_error("panic")
        /\ N = interrupt_handler_fn("panic") /\ C = interrupt_handler_fn("eoi")
    BY <1>1, <1>2 DEF Trap, Interrupt, timer_entry
  <2> QED BY <2>1, MacroTexts, Zenon
<1>4. DOMAIN create_init_idt = 0 .. 31 /\ DOMAIN shared_idt = 0 .. 31 \cup {TimerVector}
  BY DEF create_init_idt, shared_idt, insert
<1>5. v = TimerVector => shared_idt[v] = c
  BY <1>1, <1>4 DEF shared_idt, insert
<1>6. ASSUME v # TimerVector
      PROVE  shared_idt[v] = IF v = 2 THEN n ELSE IF v \in ErrorVectors THEN e ELSE t
  <2>1. v \in 0 .. 31
    BY <1>6
  <2>2. shared_idt[v] = create_init_idt[v]
    BY <1>4, <1>6, <2>1 DEF shared_idt, insert
  <2>3. v \in 0 .. 13 => create_init_idt[v] = IF v = 2 THEN n ELSE IF v \in {8, 10, 11, 12, 13} THEN e ELSE t
    BY <1>1, <2>1 DEF create_init_idt, init_idt_low
  <2>4. v \in 14 .. 31 => create_init_idt[v] = IF v \in {14, 17, 21, 29, 30} THEN e ELSE t
    BY <1>1, <2>1 DEF create_init_idt, init_idt_low, init_idt_high
  <2> QED BY <2>1, <2>2, <2>3, <2>4 DEF ErrorVectors
<1>7. TimerVector \notin ErrorVectors /\ 2 \notin ErrorVectors /\ 2 # TimerVector
  BY DEF TimerVector, ErrorVectors
<1>8. v \in DOMAIN shared_idt
  BY <1>4
<1>9. v = TimerVector => shared_idt[v].handler = C
  BY <1>2, <1>5, Zenon
<1>10. v # TimerVector => shared_idt[v].handler = IF v = 2 THEN N ELSE IF v \in ErrorVectors THEN E ELSE T
  BY <1>2, <1>6, Zenon
<1> QED BY <1>3, <1>7, <1>8, <1>9, <1>10, Zenon

-----------------------------------------------------------------------------
Handled == 0 .. 31 \cup {TimerVector}

(* What a handler of v does at k, for the instructions that it reaches *)
Reached(v, k) == k \in 1 .. 11 \/ (v = TimerVector /\ k \in 1 .. 22)

(* Which instruction it is tells where the handler stands. *)
LEMMA InstructionAt ==
  ASSUME NEW v \in Handled, NEW k, Reached(v, k)
  PROVE  LET i == shared_idt[v].handler[k] IN
         /\ i.op = "push" => k \in 1 .. 9 /\ i.arg = saved_regs[k]
         /\ i.op = "sub" => k = 10 /\ v \notin ErrorVectors
         /\ i.op = "load_rdi" => k = 10 /\ v \in ErrorVectors /\ i.arg = 9
         /\ i.op = "call" => k = 11 /\ (i.arg # "panic" => v = TimerVector)
         /\ i.op = "add" => v = TimerVector /\ k = 12
         /\ i.op = "pop" => v = TimerVector /\ k \in 13 .. 21 /\ i.arg = saved_regs[22 - k]
         /\ i.op = "iretq" => v = TimerVector /\ k = 22
<1>1. PICK h : h = shared_idt[v].handler
  OBVIOUS
<1>2. /\ v \in ErrorVectors => Spelt(h, Op("load_rdi", 9), "panic")
      /\ v \notin ErrorVectors /\ v # TimerVector => Spelt(h, Op("sub", 1), "panic")
      /\ v = TimerVector => Spelt(h, Op("sub", 1), "eoi") /\ SpeltBack(h)
  BY <1>1, TableText, Zenon DEF Handled
<1>3. PICK o, a : o = h[k].op /\ a = h[k].arg
  OBVIOUS
<1>4. ASSUME NEW p, NEW r, h[k] = Op(p, r) PROVE o = p /\ a = r
  <2>1. Op(p, r).op = p /\ Op(p, r).arg = r
    BY DEF Op
  <2> QED BY <1>3, <1>4, <2>1, Zenon
<1>5. \/ k \in 1 .. 9 \/ k = 10 \/ k = 11
      \/ v = TimerVector /\ (k = 12 \/ k \in 13 .. 21 \/ k = 22)
  BY DEF Reached
<1>6. CASE k \in 1 .. 9
  <2>1. h[k] = Op("push", saved_regs[k])
    BY <1>2, <1>6, Zenon DEF Spelt
  <2>2. o = "push" /\ a = saved_regs[k]
    BY <1>4, <2>1, Zenon
  <2> QED BY <1>1, <1>3, <1>6, <2>2
<1>7. CASE k = 10
  <2>1. h[k] = IF v \in ErrorVectors THEN Op("load_rdi", 9) ELSE Op("sub", 1)
    BY <1>2, <1>7, Zenon DEF Spelt
  <2>2. v \in ErrorVectors => o = "load_rdi" /\ a = 9
    BY <1>4, <2>1, Zenon
  <2>3. v \notin ErrorVectors => o = "sub"
    BY <1>4, <2>1, Zenon
  <2> QED BY <1>1, <1>3, <1>7, <2>2, <2>3
<1>8. CASE k = 11
  <2>1. h[k] = Op("call", IF v = TimerVector THEN "eoi" ELSE "panic")
    <3>1. TimerVector \notin ErrorVectors
      BY DEF TimerVector, ErrorVectors
    <3> QED BY <1>2, <1>8, <3>1, Zenon DEF Spelt
  <2>2. o = "call" /\ (v # TimerVector => a = "panic")
    BY <1>4, <2>1, Zenon
  <2> QED BY <1>1, <1>3, <1>8, <2>2
<1>9. CASE v = TimerVector /\ k = 12
  <2>1. h[k] = Op("add", 1)
    BY <1>2, <1>9, Zenon DEF SpeltBack
  <2>2. o = "add"
    BY <1>4, <2>1, Zenon
  <2> QED BY <1>1, <1>3, <1>9, <2>2
<1>10. CASE v = TimerVector /\ k \in 13 .. 21
  <2>1. k - 12 \in 1 .. 9 /\ 12 + (k - 12) = k /\ 10 - (k - 12) = 22 - k
    BY <1>10
  <2>2. h[12 + (k - 12)] = Op("pop", saved_regs[10 - (k - 12)])
    BY <1>2, <1>10, <2>1, Zenon DEF SpeltBack
  <2>3. h[k] = Op("pop", saved_regs[22 - k])
    BY <2>1, <2>2, Zenon
  <2>4. o = "pop" /\ a = saved_regs[22 - k]
    BY <1>4, <2>3, Zenon
  <2> QED BY <1>1, <1>3, <1>10, <2>4
<1>11. CASE v = TimerVector /\ k = 22
  <2>1. h[k] = Op("iretq", 0)
    BY <1>2, <1>11, Zenon DEF SpeltBack
  <2>2. o = "iretq"
    BY <1>4, <2>1, Zenon
  <2> QED BY <1>1, <1>3, <1>11, <2>2
<1> QED BY <1>5, <1>6, <1>7, <1>8, <1>9, <1>10, <1>11

(* A body is called with an error code exactly at the vectors that have one. *)
LEMMA TakesAt ==
  ASSUME NEW v \in Handled
  PROVE  (\E i \in 1 .. 11 : shared_idt[v].handler[i].op = "load_rdi") <=> v \in ErrorVectors
<1>1. \A i \in 1 .. 11 : Reached(v, i)
  BY DEF Reached
<1>2. ASSUME NEW i \in 1 .. 11, shared_idt[v].handler[i].op = "load_rdi" PROVE v \in ErrorVectors
  BY <1>1, <1>2, InstructionAt
<1>3. ASSUME v \in ErrorVectors PROVE shared_idt[v].handler[10].op = "load_rdi"
  <2>1. shared_idt[v].handler[10] = Op("load_rdi", 9)
    BY <1>3, TableText, Zenon DEF Handled, Spelt
  <2>2. Op("load_rdi", 9).op = "load_rdi"
    BY DEF Op
  <2> QED BY <2>1, <2>2, Zenon
<1>4. 10 \in 1 .. 11
  OBVIOUS
<1> QED BY <1>2, <1>3, <1>4, Zenon

(* A gate leads to the handler of its vector: to_raw loses nothing of the   *)
(* address, and no two vectors share one.                                   *)
LEMMA GateLeads ==
  ASSUME NEW v \in Handled
  PROVE  HandlerAt(GateAddress(Raw(v))) = [vector |-> v, at |-> 1]
<1>1. GateAddress(Raw(v)) = Address(v)
  <2>1. PICK r : r = Raw(v)
    OBVIOUS
  <2>2. /\ r.fn_ptr_low = Address(v)[1] /\ r.fn_ptr_mid = Address(v)[2]
        /\ r.fn_ptr_high = SubSeq(Address(v), 3, 4)
    BY <2>1 DEF Raw, to_raw
  <2>3. /\ Address(v) \in Seq(Nat) /\ Len(Address(v)) = 4
        /\ Address(v)[1] = v /\ Address(v)[2] = v + 1
    BY DEF Address, Handled, TimerVector
  <2>4. PICK s : s = Address(v)
    OBVIOUS
  <2>5. PICK t : t = SubSeq(s, 3, 4)
    OBVIOUS
  <2>6. t \in Seq(Nat) /\ Len(t) = 2 /\ t[1] = s[3] /\ t[2] = s[4]
    <3>0. Len(s) = 4 /\ s \in Seq(Nat)
      BY <2>3, <2>4, Zenon
    <3>1. 3 \in 1 .. Len(s) /\ 4 \in 3 .. Len(s)
      BY <3>0
    <3>2. t \in Seq(Nat) /\ IsPart(t, s, 3, 4)
      BY <2>5, <3>0, <3>1, PartOf, Zenon
    <3> QED BY <3>2 DEF IsPart
  <2>7. PICK g, u : g = <<v, v + 1>> /\ u = g \o t
    OBVIOUS
  <2>8. g \in Seq(Nat) /\ Len(g) = 2 /\ g[1] = s[1] /\ g[2] = s[2]
    BY <2>3, <2>4, <2>7 DEF Handled, TimerVector
  <2>9. u \in Seq(Nat) /\ IsJoin(u, g, t, 2, 2)
    BY <2>6, <2>7, <2>8, Joined, Zenon
  <2>10. Len(u) = 4 /\ \A k \in 1 .. 2 : u[k] = g[k] /\ u[2 + k] = t[k]
    BY <2>9 DEF IsJoin
  <2>11. \A k \in 1 .. 4 : u[k] = s[k]
    BY <2>6, <2>8, <2>10
  <2>12. u = s
    BY <2>3, <2>4, <2>9, <2>10, <2>11, SameSequence
  <2>13. GateAddress(r) = u
    BY <2>2, <2>3, <2>4, <2>5, <2>7, Zenon DEF GateAddress
  <2> QED BY <2>1, <2>4, <2>12, <2>13, Zenon
<1>2. {w \in DOMAIN shared_idt : Address(w) = Address(v)} = {v}
  <2>1. v \in DOMAIN shared_idt
    BY TableText, Zenon DEF Handled
  <2>2. ASSUME NEW w, Address(w) = Address(v) PROVE w = v
    <3>1. Address(w)[1] = w /\ Address(v)[1] = v
      BY DEF Address
    <3> QED BY <2>2, <3>1, Zenon
  <2> QED BY <2>1, <2>2
<1>3. HandlerAt(Address(v)) = [vector |-> CHOOSE w \in {v} : TRUE, at |-> 1]
  <2>1. {v} # {}
    OBVIOUS
  <2> QED BY <1>2, <2>1, Zenon DEF HandlerAt
<1>4. (CHOOSE w \in {v} : TRUE) = v
  OBVIOUS
<1> QED BY <1>1, <1>3, <1>4, Zenon

-----------------------------------------------------------------------------
(* Where the processor may be, what a word may hold, and what is kept of an *)
(* interrupted context                                                      *)
Places == [vector : Int, at : Int]
SavedRsp(n) == [rsp |-> n]
SavedFlags(b) == [rflags |-> b]
SavedRip(p) == [rip |-> p]
ErrorCode(v) == [error |-> v]
Value(b, r) == [from |-> b, reg |-> r]
Words == {"local", "align", "ss", "cs", "junk"}
           \cup {SavedRsp(n) : n \in Nat} \cup {SavedFlags(b) : b \in BOOLEAN}
           \cup {SavedRip(p) : p \in Places} \cup {ErrorCode(v) : v \in Handled}
           \cup {Value("main", r) : r \in Regs} \cup {Value("eoi", r) : r \in Regs}
Frames == [vector : Handled, regs : [Regs -> Words], stack : Seq(Words), flag : BOOLEAN, pc : Places]

TypeOK ==
  /\ regs \in [Regs -> Words] /\ stack \in Seq(Words) /\ flag \in BOOLEAN
  /\ pc \in Places /\ frames \in Seq(Frames)

(* The words of the frame that the processor pushed, and where they end *)
Pad(s) == IF Len(s) % 2 = 1 THEN 1 ELSE 0
CodeLen(v) == IF v \in ErrorVectors THEN 1 ELSE 0
Base(f) == Len(f.stack) + Pad(f.stack) + 5 + CodeLen(f.vector)

KeptFrame(f, s) ==
  LET n == Len(f.stack) + Pad(f.stack) IN
  /\ Len(s) >= Base(f)
  /\ \A i \in 1 .. Len(f.stack) : s[i] = f.stack[i]
  /\ s[n + 2] = SavedRsp(Len(f.stack)) /\ s[n + 3] = SavedFlags(f.flag) /\ s[n + 5] = SavedRip(f.pc)
  /\ f.vector \in ErrorVectors => s[n + 6] = ErrorCode(f.vector)

(* How many registers are on the stack before instruction k, and whether    *)
(* there is a word that aligns the stack above them                         *)
Depth(k) == IF k <= 10 THEN k - 1 ELSE IF k <= 12 THEN 9 ELSE 22 - k
Room(v, k) == IF k \in {11, 12} /\ v \notin ErrorVectors THEN 1 ELSE 0

(* Each register of the interrupted context is in its place, on the stack   *)
(* or already back.                                                         *)
KeptRegs(f, r, s, k) ==
  /\ Len(s) = Base(f) + Depth(k) + Room(f.vector, k)
  /\ \A j \in 1 .. 9 : j <= Depth(k) => s[Base(f) + j] = f.regs[saved_regs[j]]
  /\ k <= 10 => r = f.regs
  /\ k = 11 /\ f.vector \in ErrorVectors => r["rdi"] = ErrorCode(f.vector)
  /\ k >= 13 => \A j \in 1 .. 9 : j > Depth(k) => r[saved_regs[j]] = f.regs[saved_regs[j]]

(* What a handler keeps of the context f that its delivery interrupted, at  *)
(* a place p of it, with registers r and stack s                            *)
Kept(f, r, s, p) ==
  /\ p.vector = f.vector /\ Reached(f.vector, p.at)
  /\ KeptFrame(f, s) /\ KeptRegs(f, r, s, p.at)

(* The inductive invariant: every handler keeps the context below it, the   *)
(* running one in the processor's state and the others in the context that  *)
(* interrupted them.                                                        *)
Chain == \A i \in 1 .. Len(frames) - 1 :
           Kept(frames[i], frames[i + 1].regs, frames[i + 1].stack, frames[i + 1].pc)

Nested ==
  /\ pc # Wild
  /\ Len(frames) = 0 => pc = Main
  /\ Len(frames) > 0 => /\ frames[1].pc = Main
                        /\ pc # Halted => Kept(frames[Len(frames)], regs, stack, pc)

Inv == TypeOK /\ Chain /\ Nested

-----------------------------------------------------------------------------
(* What may stand on the stack *)
LEMMA WordsHold ==
  /\ \A w \in {"local", "align", "ss", "cs", "junk"} : w \in Words
  /\ \A n \in Nat : SavedRsp(n) \in Words
  /\ \A b \in BOOLEAN : SavedFlags(b) \in Words
  /\ \A p \in Places : SavedRip(p) \in Words
  /\ \A v \in Handled : ErrorCode(v) \in Words
  /\ \A r \in Regs : Value("main", r) \in Words /\ Value("eoi", r) \in Words
BY Zenon DEF Words

(* What is used of a context *)
LEMMA FrameFacts ==
  ASSUME NEW f \in Frames
  PROVE  /\ f.vector \in Handled /\ f.regs \in [Regs -> Words] /\ f.stack \in Seq(Words)
         /\ f.flag \in BOOLEAN /\ f.pc \in Places /\ Len(f.stack) \in Nat
         /\ Pad(f.stack) \in 0 .. 1 /\ CodeLen(f.vector) \in 0 .. 1 /\ Base(f) \in Nat
         /\ Base(f) = Len(f.stack) + Pad(f.stack) + 5 + CodeLen(f.vector)
         /\ f.vector \in Int /\ f.vector >= 0
<1>1. /\ f.vector \in Handled /\ f.regs \in [Regs -> Words] /\ f.stack \in Seq(Words)
      /\ f.flag \in BOOLEAN /\ f.pc \in Places
  BY DEF Frames
<1>2. Len(f.stack) \in Nat
  BY <1>1
<1>3. Pad(f.stack) \in 0 .. 1 /\ CodeLen(f.vector) \in 0 .. 1
  BY DEF Pad, CodeLen
<1>4. Base(f) = Len(f.stack) + Pad(f.stack) + 5 + CodeLen(f.vector)
  BY DEF Base
<1>5. Base(f) \in Nat
  BY <1>2, <1>3, <1>4
<1>6. f.vector \in Int /\ f.vector >= 0
  <2>1. \A v \in Handled : v \in Int /\ v >= 0
    BY DEF Handled, TimerVector
  <2> QED BY <1>1, <2>1, Zenon
<1> QED BY <1>1, <1>2, <1>3, <1>4, <1>5, <1>6

(* A frame is kept by whatever leaves the words up to its end alone. *)
LEMMA FrameStays ==
  ASSUME NEW f \in Frames, NEW s, NEW t, KeptFrame(f, s), Len(t) \in Nat, Len(t) >= Base(f),
         \A i \in 1 .. Base(f) : t[i] = s[i]
  PROVE  KeptFrame(f, t)
<1>1. PICK n, b, l \in Nat : n = Len(f.stack) + Pad(f.stack) /\ b = Base(f) /\ l = Len(f.stack)
  BY FrameFacts
<1>2. n >= l /\ b >= n + 5 /\ (f.vector \in ErrorVectors => b >= n + 6)
  BY <1>1, FrameFacts DEF CodeLen
<1>3. /\ t[n + 2] = s[n + 2] /\ t[n + 3] = s[n + 3] /\ t[n + 5] = s[n + 5]
      /\ f.vector \in ErrorVectors => t[n + 6] = s[n + 6]
      /\ \A i \in 1 .. l : t[i] = s[i]
  <2>1. \A i \in 1 .. b : t[i] = s[i]
    BY <1>1, Zenon
  <2> QED BY <1>2, <2>1
<1>4. /\ s[n + 2] = SavedRsp(l) /\ s[n + 3] = SavedFlags(f.flag) /\ s[n + 5] = SavedRip(f.pc)
      /\ f.vector \in ErrorVectors => s[n + 6] = ErrorCode(f.vector)
      /\ \A i \in 1 .. l : s[i] = f.stack[i]
  BY <1>1, Zenon DEF KeptFrame
<1>5. /\ t[n + 2] = SavedRsp(l) /\ t[n + 3] = SavedFlags(f.flag) /\ t[n + 5] = SavedRip(f.pc)
      /\ f.vector \in ErrorVectors => t[n + 6] = ErrorCode(f.vector)
      /\ \A i \in 1 .. l : t[i] = f.stack[i]
  BY <1>3, <1>4, Zenon
<1> QED BY <1>1, <1>5, Zenon DEF KeptFrame

(* The context of the handler that runs *)
LEMMA InHandler ==
  ASSUME Inv, pc \notin {Main, Halted, Wild}
  PROVE  /\ Len(frames) \in Nat /\ Len(frames) > 0
         /\ frames[Len(frames)] \in Frames
         /\ Kept(frames[Len(frames)], regs, stack, pc)
<1>1. frames \in Seq(Frames) /\ pc # Main /\ pc # Halted
  BY Zenon DEF Inv, TypeOK
<1>2. Len(frames) \in Nat /\ (Len(frames) > 0 => frames[Len(frames)] \in Frames)
  BY <1>1
<1>3. Len(frames) # 0 /\ (Len(frames) > 0 => Kept(frames[Len(frames)], regs, stack, pc))
  BY <1>1, Zenon DEF Inv, Nested
<1>4. Len(frames) > 0
  BY <1>2, <1>3
<1> QED BY <1>2, <1>3, <1>4, Zenon

(* A place in a handler is not one of the others. *)
LEMMA PlaceOf ==
  ASSUME NEW f \in Frames, NEW r, NEW s, NEW p, Kept(f, r, s, p)
  PROVE  p \notin {Main, Halted, Wild}
<1>1. p.vector = f.vector /\ f.vector # -1
  BY FrameFacts DEF Kept
<1>2. Main.vector = -1 /\ Halted.vector = -1 /\ Wild.vector = -1
  BY DEF Main, Halted, Wild
<1> QED BY <1>1, <1>2, Zenon

(* A step of the handler that runs keeps the invariant when the handler     *)
(* still keeps its context.                                                 *)
LEMMA HandlerSteps ==
  ASSUME Inv, pc \notin {Main, Halted, Wild}, TypeOK', frames' = frames,
         Kept(frames[Len(frames)], regs', stack', pc')
  PROVE  Inv'
<1>1. Len(frames) \in Nat /\ Len(frames) > 0 /\ frames[Len(frames)] \in Frames
  BY InHandler, Zenon
<1>2. pc' \notin {Main, Halted, Wild}
  BY <1>1, PlaceOf, Zenon
<1>3. Chain' /\ frames[1].pc = Main
  BY <1>1, Zenon DEF Inv, Chain, Nested
<1>4. Len(frames) # 0
  BY <1>1
<1>5. Nested'
  BY <1>1, <1>2, <1>3, <1>4, Zenon DEF Nested
<1> QED BY <1>3, <1>5, Zenon DEF Inv

-----------------------------------------------------------------------------
(* The running handler, of the delivery that interrupted f, is at           *)
(* instruction k, which is an o.                                            *)
StandsAt(f, k, o) ==
  /\ f \in Frames /\ k \in Int
  /\ f = frames[Len(frames)] /\ k = pc.at /\ pc.vector = f.vector /\ Reached(f.vector, k)
  /\ KeptFrame(f, stack) /\ KeptRegs(f, regs, stack, k)
  /\ shared_idt[f.vector].handler[k].op = o
  /\ Arg = shared_idt[f.vector].handler[k].arg

(* Some handler is, when an instruction runs. *)
LEMMA Standing ==
  ASSUME Inv, NEW o, Running(o)
  PROVE  \E f, k : StandsAt(f, k, o)
<1>1. pc \notin {Main, Halted, Wild} /\ shared_idt[pc.vector].handler[pc.at].op = o
  BY Zenon DEF Running
<1>2. PICK f \in Frames : f = frames[Len(frames)] /\ Kept(f, regs, stack, pc)
  BY <1>1, InHandler, Zenon
<1>3. /\ pc.vector = f.vector /\ Reached(f.vector, pc.at)
      /\ KeptFrame(f, stack) /\ KeptRegs(f, regs, stack, pc.at)
  BY <1>2, Zenon DEF Kept
<1>4. pc.at \in Int
  BY DEF Inv, TypeOK, Places
<1>5. StandsAt(f, pc.at, o)
  BY <1>1, <1>2, <1>3, <1>4, Zenon DEF StandsAt, Arg
<1> QED BY <1>5, Zenon

(* The next place of the handler *)
LEMMA NextPlace ==
  ASSUME Inv, Advance
  PROVE  pc' \in Places /\ pc'.vector = pc.vector /\ pc'.at = pc.at + 1
BY DEF Inv, TypeOK, Places, Advance

(* t is s with w after it. *)
IsMore(t, s, w) ==
  /\ Len(t) = Len(s) + 1 /\ Len(s) \in Nat
  /\ \A i \in 1 .. Len(s) : t[i] = s[i]
  /\ t[Len(s) + 1] = w

(* One element more at the end of a sequence *)
LEMMA OneMore ==
  ASSUME NEW P, NEW s \in Seq(P), NEW w \in P, NEW t, t = Append(s, w)
  PROVE  t \in Seq(P) /\ IsMore(t, s, w)
BY DEF IsMore

(* ... and one less *)
LEMMA OneLess ==
  ASSUME NEW P, NEW s \in Seq(P), Len(s) > 0
  PROVE  /\ Last(s) = s[Len(s)] /\ Last(s) \in P
         /\ Front(s) \in Seq(P) /\ Len(Front(s)) = Len(s) - 1
         /\ \A i \in 1 .. Len(s) - 1 : Front(s)[i] = s[i]
<1> USE DEF Last, Front
<1>1. Last(s) = s[Len(s)] /\ Last(s) \in P /\ Len(s) \in Nat
  OBVIOUS
<1>2. CASE Len(s) = 1
  <2>1. Front(s) = << >>
    BY <1>2
  <2> QED BY <1>1, <1>2, <2>1
<1>3. CASE Len(s) > 1
  BY <1>1, <1>3
<1>4. \A n \in Nat : n > 0 => n = 1 \/ n > 1
  OBVIOUS
<1> QED BY <1>1, <1>2, <1>3, <1>4, Zenon

(* push: one register more is on the stack. *)
LEMMA PushKeeps ==
  ASSUME Inv, push
  PROVE  Inv'
<1>0. Running("push") /\ stack' = Append(stack, regs[Arg]) /\ Advance /\ UNCHANGED <<regs, flag, frames>>
  BY Zenon DEF push
<1>1. PICK f, k : StandsAt(f, k, "push")
  BY <1>0, Standing, Zenon
<1>2. f \in Frames /\ f.vector \in Handled /\ k \in Int
  BY <1>1, FrameFacts, Zenon DEF StandsAt
<1>3. k \in 1 .. 9 /\ Arg = saved_regs[k]
  BY <1>1, <1>2, InstructionAt DEF StandsAt
<1>4. PICK b \in Nat : b = Base(f)
  BY <1>2, FrameFacts
<1>3a. PICK t, w : t = stack' /\ w = regs[saved_regs[k]]
  OBVIOUS
<1>5. /\ stack \in Seq(Words) /\ regs \in [Regs -> Words] /\ flag \in BOOLEAN /\ frames \in Seq(Frames)
      /\ saved_regs[k] \in Regs
  BY <1>3, RegsAre, Zenon DEF Inv, TypeOK
<1>6. w \in Words
  BY <1>3a, <1>5
<1>7. /\ t \in Seq(Words) /\ Len(t) = Len(stack) + 1 /\ Len(stack) \in Nat
      /\ (\A i \in 1 .. Len(stack) : t[i] = stack[i]) /\ t[Len(stack) + 1] = w
  <2>1. t = Append(stack, w)
    BY <1>0, <1>3, <1>3a, Zenon
  <2>2. t \in Seq(Words) /\ IsMore(t, stack, w)
    BY <2>1, <1>5, <1>6, OneMore, Zenon
  <2> QED BY <2>2, Zenon DEF IsMore
<1>8. /\ Len(stack) = b + Depth(k) + Room(f.vector, k)
      /\ \A j \in 1 .. 9 : j <= Depth(k) => stack[b + j] = f.regs[saved_regs[j]]
      /\ k <= 10 => regs = f.regs
  BY <1>1, <1>4, Zenon DEF StandsAt, KeptRegs
<1>9. /\ Depth(k) = k - 1 /\ Room(f.vector, k) = 0
      /\ Depth(k + 1) = k /\ Room(f.vector, k + 1) = 0 /\ Reached(f.vector, k + 1)
  BY <1>3 DEF Depth, Room, Reached
<1>10. Len(stack) = b + (k - 1) /\ regs = f.regs
  <2>1. k <= 10 /\ b + (k - 1) + 0 = b + (k - 1)
    BY <1>3, <1>4
  <2> QED BY <1>8, <1>9, <2>1, Zenon
<1>11. KeptRegs(f, regs, t, k + 1)
  <2>1. Len(t) = b + Depth(k + 1) + Room(f.vector, k + 1)
    BY <1>3, <1>7, <1>9, <1>10
  <2>2. ASSUME NEW j \in 1 .. 9, j <= k PROVE t[b + j] = f.regs[saved_regs[j]]
    <3>1. CASE j = k
      <4>1. t[b + k] = w
        BY <1>3, <1>7, <1>10
      <4> QED BY <3>1, <4>1, <1>3a, <1>10, Zenon
    <3>2. CASE j # k
      <4>1. b + j \in 1 .. Len(stack) /\ j <= Depth(k)
        BY <1>3, <1>9, <1>10, <2>2, <3>2
      <4> QED BY <4>1, <1>7, <1>8, Zenon
    <3> QED BY <3>1, <3>2
  <2>3. k + 1 # 11 /\ ~(k + 1 >= 13)
    BY <1>3
  <2> QED BY <1>4, <1>9, <1>10, <2>1, <2>2, <2>3, Zenon DEF KeptRegs
<1>12. KeptFrame(f, t)
  <2>1. KeptFrame(f, stack) /\ Len(t) \in Nat /\ Len(t) >= b /\ \A i \in 1 .. b : t[i] = stack[i]
    <3>1. KeptFrame(f, stack)
      BY <1>1, Zenon DEF StandsAt
    <3> QED BY <3>1, <1>3, <1>7, <1>10
  <2> QED BY <2>1, <1>2, <1>4, FrameStays, Zenon
<1>13. pc' \in Places /\ pc'.vector = f.vector /\ pc'.at = k + 1
  BY <1>0, <1>1, NextPlace, Zenon DEF StandsAt
<1>14. Kept(f, regs', stack', pc')
  BY <1>0, <1>3a, <1>9, <1>11, <1>12, <1>13, Zenon DEF Kept
<1>15. TypeOK'
  BY <1>0, <1>3a, <1>5, <1>7, <1>13, Zenon DEF TypeOK
<1> QED BY <1>0, <1>1, <1>14, <1>15, HandlerSteps, Zenon DEF Running, StandsAt

(* pop: one register less is on the stack, and it is back. *)
LEMMA PopKeeps ==
  ASSUME Inv, pop
  PROVE  Inv'
<1>0. /\ Running("pop") /\ regs' = [regs EXCEPT ![Arg] = Last(stack)] /\ stack' = Front(stack)
      /\ Advance /\ UNCHANGED <<flag, frames>>
  BY Zenon DEF pop
<1>1. PICK f, k : StandsAt(f, k, "pop")
  BY <1>0, Standing, Zenon
<1>2. f \in Frames /\ f.vector \in Handled /\ k \in Int
  BY <1>1, FrameFacts, Zenon DEF StandsAt
<1>3. f.vector = TimerVector /\ k \in 13 .. 21 /\ Arg = saved_regs[22 - k]
  BY <1>1, <1>2, InstructionAt DEF StandsAt
<1>3a. PICK t, q, w : t = stack' /\ q = regs' /\ w = Last(stack)
  OBVIOUS
<1>4. PICK b \in Nat : b = Base(f)
  BY <1>2, FrameFacts
<1>5. /\ stack \in Seq(Words) /\ regs \in [Regs -> Words] /\ flag \in BOOLEAN /\ frames \in Seq(Frames)
  BY Zenon DEF Inv, TypeOK
<1>6. PICK d \in 1 .. 9 : d = 22 - k
  BY <1>3
<1>7. /\ Len(stack) = b + Depth(k) + Room(f.vector, k)
      /\ \A j \in 1 .. 9 : j <= Depth(k) => stack[b + j] = f.regs[saved_regs[j]]
      /\ k >= 13 => \A j \in 1 .. 9 : j > Depth(k) => regs[saved_regs[j]] = f.regs[saved_regs[j]]
  BY <1>1, <1>4, Zenon DEF StandsAt, KeptRegs
<1>8. /\ Depth(k) = d /\ Room(f.vector, k) = 0
      /\ Depth(k + 1) = d - 1 /\ Room(f.vector, k + 1) = 0 /\ Reached(f.vector, k + 1)
  BY <1>3, <1>6 DEF Depth, Room, Reached
<1>9. Len(stack) = b + d
  <2>1. b + d + 0 = b + d
    OBVIOUS
  <2> QED BY <1>7, <1>8, <2>1, Zenon
<1>10. /\ t \in Seq(Words) /\ Len(t) = b + d - 1 /\ w = stack[b + d] /\ w \in Words
       /\ \A i \in 1 .. b + d - 1 : t[i] = stack[i]
  <2>1. Len(stack) > 0
    BY <1>9
  <2>2. t = Front(stack) /\ w = Last(stack)
    BY <1>0, <1>3a, Zenon
  <2>3. /\ Last(stack) = stack[Len(stack)] /\ Last(stack) \in Words
        /\ Front(stack) \in Seq(Words) /\ Len(Front(stack)) = Len(stack) - 1
        /\ \A i \in 1 .. Len(stack) - 1 : Front(stack)[i] = stack[i]
    BY <2>1, <1>5, OneLess, Zenon
  <2>4. /\ w = stack[Len(stack)] /\ w \in Words
        /\ t \in Seq(Words) /\ Len(t) = Len(stack) - 1
        /\ \A i \in 1 .. Len(stack) - 1 : t[i] = stack[i]
    BY <2>2, <2>3, Zenon
  <2> QED BY <2>4, <1>9
<1>11. w = f.regs[saved_regs[d]]
  <2>1. d <= Depth(k)
    BY <1>8
  <2> QED BY <2>1, <1>7, <1>10, Zenon
<1>12. /\ q \in [Regs -> Words] /\ q[saved_regs[d]] = w
       /\ \A j \in 1 .. 9 : j # d => q[saved_regs[j]] = regs[saved_regs[j]]
  <2>1. q = [regs EXCEPT ![saved_regs[d]] = w]
    BY <1>0, <1>3, <1>3a, <1>6, Zenon
  <2>2. \A j \in 1 .. 9 : saved_regs[j] \in Regs /\ (saved_regs[j] = saved_regs[d] => j = d)
    BY RegsAre, Zenon
  <2>3. ASSUME NEW R, NEW W, NEW g \in [R -> W], NEW x \in R, NEW y \in W
        PROVE  /\ [g EXCEPT ![x] = y] \in [R -> W] /\ [g EXCEPT ![x] = y][x] = y
               /\ \A z \in R : z # x => [g EXCEPT ![x] = y][z] = g[z]
    OBVIOUS
  <2>4. /\ [regs EXCEPT ![saved_regs[d]] = w] \in [Regs -> Words]
        /\ [regs EXCEPT ![saved_regs[d]] = w][saved_regs[d]] = w
        /\ \A z \in Regs : z # saved_regs[d] => [regs EXCEPT ![saved_regs[d]] = w][z] = regs[z]
    BY <1>5, <1>10, <2>2, <2>3, Zenon
  <2> QED BY <2>1, <2>2, <2>4, Zenon
<1>13. KeptRegs(f, q, t, k + 1)
  <2>1. Len(t) = b + Depth(k + 1) + Room(f.vector, k + 1)
    BY <1>8, <1>10
  <2>2. ASSUME NEW j \in 1 .. 9, j <= Depth(k + 1) PROVE t[b + j] = f.regs[saved_regs[j]]
    <3>1. b + j \in 1 .. b + d - 1 /\ j <= Depth(k)
      BY <1>8, <2>2
    <3> QED BY <3>1, <1>7, <1>10, Zenon
  <2>3. ASSUME NEW j \in 1 .. 9, j > Depth(k + 1) PROVE q[saved_regs[j]] = f.regs[saved_regs[j]]
    <3>1. CASE j = d
      BY <3>1, <1>11, <1>12, Zenon
    <3>2. CASE j # d
      <4>1. j > Depth(k) /\ k >= 13
        BY <1>3, <1>8, <2>3, <3>2
      <4>2. q[saved_regs[j]] = regs[saved_regs[j]]
        BY <3>2, <1>12, Zenon
      <4>3. regs[saved_regs[j]] = f.regs[saved_regs[j]]
        BY <4>1, <1>7, Zenon
      <4> QED BY <4>2, <4>3, Zenon
    <3> QED BY <3>1, <3>2
  <2>4. k + 1 # 11 /\ ~(k + 1 <= 10)
    BY <1>3
  <2> QED BY <1>4, <2>1, <2>2, <2>3, <2>4, Zenon DEF KeptRegs
<1>14. KeptFrame(f, t)
  <2>1. KeptFrame(f, stack)
    BY <1>1, Zenon DEF StandsAt
  <2>2. Len(t) \in Nat /\ Len(t) >= b /\ \A i \in 1 .. b : t[i] = stack[i]
    BY <1>10
  <2> QED BY <2>1, <2>2, <1>2, <1>4, FrameStays, Zenon
<1>15. pc' \in Places /\ pc'.vector = f.vector /\ pc'.at = k + 1
  BY <1>0, <1>1, NextPlace, Zenon DEF StandsAt
<1>16. Kept(f, regs', stack', pc')
  BY <1>3a, <1>8, <1>13, <1>14, <1>15, Zenon DEF Kept
<1>17. TypeOK'
  BY <1>0, <1>3a, <1>5, <1>10, <1>12, <1>15, Zenon DEF TypeOK
<1> QED BY <1>0, <1>1, <1>16, <1>17, HandlerSteps, Zenon DEF Running, StandsAt

(* sub: a word that aligns the stack stands above the registers. *)
LEMMA SubKeeps ==
  ASSUME Inv, sub
  PROVE  Inv'
<1>0. Running("sub") /\ stack' = Append(stack, "junk") /\ Advance /\ UNCHANGED <<regs, flag, frames>>
  BY Zenon DEF sub
<1>1. PICK f, k : StandsAt(f, k, "sub")
  BY <1>0, Standing, Zenon
<1>2. f \in Frames /\ f.vector \in Handled /\ k \in Int
  BY <1>1, FrameFacts, Zenon DEF StandsAt
<1>3. k = 10 /\ f.vector \notin ErrorVectors
  BY <1>1, <1>2, InstructionAt DEF StandsAt
<1>4. PICK t : t = stack'
  OBVIOUS
<1>5. PICK b \in Nat : b = Base(f)
  BY <1>2, FrameFacts
<1>6. /\ stack \in Seq(Words) /\ regs \in [Regs -> Words] /\ flag \in BOOLEAN /\ frames \in Seq(Frames)
  BY Zenon DEF Inv, TypeOK
<1>7. /\ Len(stack) = b + Depth(10) + Room(f.vector, 10)
      /\ \A j \in 1 .. 9 : j <= Depth(10) => stack[b + j] = f.regs[saved_regs[j]]
  BY <1>1, <1>3, <1>5, Zenon DEF StandsAt, KeptRegs
<1>8. /\ Depth(10) = 9 /\ Room(f.vector, 10) = 0 /\ Depth(11) = 9 /\ Room(f.vector, 11) = 1
      /\ Reached(f.vector, 11) /\ 10 + 1 = 11
  BY <1>3 DEF Depth, Room, Reached
<1>9. Len(stack) = b + 9
  <2>1. b + 9 + 0 = b + 9
    OBVIOUS
  <2> QED BY <1>7, <1>8, <2>1, Zenon
<1>10. t \in Seq(Words) /\ Len(t) = b + 9 + 1 /\ \A i \in 1 .. b + 9 : t[i] = stack[i]
  <2>1. "junk" \in Words /\ t = Append(stack, "junk")
    BY <1>0, <1>4, WordsHold, Zenon
  <2>2. t \in Seq(Words) /\ Len(t) = Len(stack) + 1 /\ \A i \in 1 .. Len(stack) : t[i] = stack[i]
    <3>1. t \in Seq(Words) /\ IsMore(t, stack, "junk")
      BY <2>1, <1>6, OneMore, Zenon
    <3> QED BY <3>1, Zenon DEF IsMore
  <2> QED BY <2>2, <1>9
<1>11. KeptRegs(f, regs, t, 11)
  <2>1. Len(t) = b + Depth(11) + Room(f.vector, 11)
    BY <1>8, <1>10, Zenon
  <2>2. ASSUME NEW j \in 1 .. 9 PROVE t[b + j] = f.regs[saved_regs[j]]
    <3>1. b + j \in 1 .. b + 9 /\ j <= Depth(10)
      BY <1>8
    <3> QED BY <3>1, <1>7, <1>10, Zenon
  <2>3. ~(11 <= 10) /\ ~(11 >= 13)
    OBVIOUS
  <2> QED BY <1>3, <1>5, <2>1, <2>2, <2>3, Zenon DEF KeptRegs
<1>12. KeptFrame(f, t)
  <2>1. KeptFrame(f, stack)
    BY <1>1, Zenon DEF StandsAt
  <2>2. Len(t) \in Nat /\ Len(t) >= b /\ \A i \in 1 .. b : t[i] = stack[i]
    BY <1>10
  <2> QED BY <2>1, <2>2, <1>2, <1>5, FrameStays, Zenon
<1>13. pc' \in Places /\ pc'.vector = f.vector /\ pc'.at = 11
  BY <1>0, <1>1, <1>3, <1>8, NextPlace, Zenon DEF StandsAt
<1>14. Kept(f, regs', stack', pc')
  BY <1>0, <1>4, <1>8, <1>11, <1>12, <1>13, Zenon DEF Kept
<1>15. TypeOK'
  BY <1>0, <1>4, <1>6, <1>10, <1>13, Zenon DEF TypeOK
<1> QED BY <1>0, <1>1, <1>14, <1>15, HandlerSteps, Zenon DEF Running, StandsAt

(* load_rdi: the body gets the error code, nine registers up the stack. *)
LEMMA LoadKeeps ==
  ASSUME Inv, load_rdi
  PROVE  Inv'
<1>0. /\ Running("load_rdi") /\ regs' = [regs EXCEPT !["rdi"] = stack[Len(stack) - Arg]]
      /\ Advance /\ UNCHANGED <<stack, flag, frames>>
  BY Zenon DEF load_rdi
<1>1. PICK f, k : StandsAt(f, k, "load_rdi")
  BY <1>0, Standing, Zenon
<1>2. f \in Frames /\ f.vector \in Handled /\ k \in Int
  BY <1>1, FrameFacts, Zenon DEF StandsAt
<1>3. k = 10 /\ f.vector \in ErrorVectors /\ Arg = 9
  BY <1>1, <1>2, InstructionAt DEF StandsAt
<1>4. PICK q, w : q = regs' /\ w = stack[Len(stack) - 9]
  OBVIOUS
<1>5. PICK b \in Nat : b = Base(f)
  BY <1>2, FrameFacts
<1>6. /\ stack \in Seq(Words) /\ regs \in [Regs -> Words] /\ flag \in BOOLEAN /\ frames \in Seq(Frames)
  BY Zenon DEF Inv, TypeOK
<1>7. /\ Len(stack) = b + Depth(10) + Room(f.vector, 10)
      /\ \A j \in 1 .. 9 : j <= Depth(10) => stack[b + j] = f.regs[saved_regs[j]]
  BY <1>1, <1>3, <1>5, Zenon DEF StandsAt, KeptRegs
<1>8. /\ Depth(10) = 9 /\ Room(f.vector, 10) = 0 /\ Depth(11) = 9 /\ Room(f.vector, 11) = 0
      /\ Reached(f.vector, 11) /\ 10 + 1 = 11
  BY <1>3 DEF Depth, Room, Reached
<1>9. Len(stack) = b + 9
  <2>1. b + 9 + 0 = b + 9
    OBVIOUS
  <2> QED BY <1>7, <1>8, <2>1, Zenon
<1>10. w = ErrorCode(f.vector)
  <2>1. w = stack[b]
    BY <1>4, <1>9
  <2>2. b = Len(f.stack) + Pad(f.stack) + 6
    BY <1>2, <1>3, <1>5, FrameFacts DEF CodeLen
  <2>3. KeptFrame(f, stack)
    BY <1>1, Zenon DEF StandsAt
  <2> QED BY <2>1, <2>2, <2>3, <1>3, Zenon DEF KeptFrame
<1>11. q \in [Regs -> Words] /\ q["rdi"] = ErrorCode(f.vector)
  <2>1. q = [regs EXCEPT !["rdi"] = w] /\ w \in Words /\ "rdi" \in Regs
    BY <1>0, <1>2, <1>3, <1>4, <1>10, WordsHold, RegsAre, Zenon
  <2> QED BY <2>1, <1>6, <1>10
<1>12. KeptRegs(f, q, stack, 11)
  <2>1. ~(11 <= 10) /\ ~(11 >= 13)
    OBVIOUS
  <2>2. Len(stack) = b + Depth(11) + Room(f.vector, 11)
    BY <1>7, <1>8, Zenon
  <2> QED BY <1>5, <1>7, <1>8, <1>11, <2>1, <2>2, Zenon DEF KeptRegs
<1>13. pc' \in Places /\ pc'.vector = f.vector /\ pc'.at = 11
  BY <1>0, <1>1, <1>3, <1>8, NextPlace, Zenon DEF StandsAt
<1>14. Kept(f, regs', stack', pc')
  <2>1. KeptFrame(f, stack)
    BY <1>1, Zenon DEF StandsAt
  <2> QED BY <2>1, <1>0, <1>4, <1>8, <1>12, <1>13, Zenon DEF Kept
<1>15. TypeOK'
  BY <1>0, <1>4, <1>6, <1>11, <1>13, Zenon DEF TypeOK
<1> QED BY <1>0, <1>1, <1>14, <1>15, HandlerSteps, Zenon DEF Running, StandsAt

(* call: the body may change every register, but not what is saved of them; *)
(* a panic stops the processor.                                             *)
LEMMA CallKeeps ==
  ASSUME Inv, call
  PROVE  Inv'
<1>0. Running("call") /\ UNCHANGED <<stack, flag, frames>>
  BY Zenon DEF call
<1>1. PICK f, k : StandsAt(f, k, "call")
  BY <1>0, Standing, Zenon
<1>2. f \in Frames /\ f.vector \in Handled /\ k \in Int
  BY <1>1, FrameFacts, Zenon DEF StandsAt
<1>3. k = 11 /\ (Arg # "panic" => f.vector = TimerVector)
  BY <1>1, <1>2, InstructionAt DEF StandsAt
<1>4. /\ stack \in Seq(Words) /\ regs \in [Regs -> Words] /\ flag \in BOOLEAN /\ frames \in Seq(Frames)
  BY Zenon DEF Inv, TypeOK
<1>5. CASE Arg = "panic"
  <2>1. pc' = Halted /\ regs' = regs
    BY <1>5, Zenon DEF call
  <2>2. Halted # Wild /\ Halted \in Places
    BY DEF Halted, Wild, Places
  <2>3. TypeOK'
    BY <1>0, <1>4, <2>1, <2>2, Zenon DEF TypeOK
  <2>4. Chain'
    BY <1>0, Zenon DEF Inv, Chain
  <2>5. Len(frames) # 0 /\ frames[1].pc = Main
    <3>1. Len(frames) \in Nat /\ Len(frames) > 0
      BY <1>0, InHandler, Zenon DEF Running
    <3>2. frames[1].pc = Main
      BY <3>1, Zenon DEF Inv, Nested
    <3> QED BY <3>1, <3>2
  <2>6. Nested'
    BY <1>0, <2>1, <2>2, <2>5, Zenon DEF Nested
  <2> QED BY <2>3, <2>4, <2>6, Zenon DEF Inv
<1>6. CASE Arg # "panic"
  <2>1. f.vector = TimerVector /\ f.vector \notin ErrorVectors
    BY <1>3, <1>6 DEF TimerVector, ErrorVectors
  <2>2. Advance /\ regs' = [r \in DOMAIN regs |-> [from |-> Arg, reg |-> r]]
    BY <1>6, Zenon DEF call
  <2>3. Arg = "eoi"
    <3>1. Arg = shared_idt[TimerVector].handler[11].arg
      BY <1>1, <1>3, <2>1, Zenon DEF StandsAt
    <3>2. shared_idt[TimerVector].handler[11] = Op("call", "eoi")
      <4>1. TimerVector \in 0 .. 31 \cup {TimerVector}
        OBVIOUS
      <4> QED BY <4>1, TableText, Zenon DEF Spelt
    <3>3. Op("call", "eoi").arg = "eoi"
      BY DEF Op
    <3> QED BY <3>1, <3>2, <3>3, Zenon
  <2>4. regs' \in [Regs -> Words]
    <3>1. regs' = [r \in Regs |-> Value("eoi", r)]
      <4>1. DOMAIN regs = Regs
        BY <1>4, Zenon
      <4> QED BY <2>2, <2>3, <4>1, Zenon DEF Value
    <3>2. \A r \in Regs : Value("eoi", r) \in Words
      BY WordsHold, Zenon
    <3> QED BY <3>1, <3>2
  <2>5. PICK b \in Nat : b = Base(f)
    BY <1>2, FrameFacts
  <2>6. /\ Len(stack) = b + Depth(11) + Room(f.vector, 11)
        /\ \A j \in 1 .. 9 : j <= Depth(11) => stack[b + j] = f.regs[saved_regs[j]]
    BY <1>1, <1>3, <2>5, Zenon DEF StandsAt, KeptRegs
  <2>7. /\ Depth(12) = Depth(11) /\ Room(f.vector, 12) = Room(f.vector, 11)
        /\ Reached(f.vector, 12) /\ 11 + 1 = 12
    BY <2>1 DEF Depth, Room, Reached
  <2>8. ~(12 <= 10) /\ ~(12 >= 13) /\ 12 # 11
    OBVIOUS
  <2>9. KeptRegs(f, regs', stack, 12)
    BY <2>5, <2>6, <2>7, <2>8, Zenon DEF KeptRegs
  <2>10. pc' \in Places /\ pc'.vector = f.vector /\ pc'.at = 12
    BY <1>1, <1>3, <2>2, <2>7, NextPlace, Zenon DEF StandsAt
  <2>11. Kept(f, regs', stack', pc')
    <3>1. KeptFrame(f, stack)
      BY <1>1, Zenon DEF StandsAt
    <3> QED BY <3>1, <1>0, <2>7, <2>9, <2>10, Zenon DEF Kept
  <2>12. TypeOK'
    BY <1>0, <1>4, <2>4, <2>10, Zenon DEF TypeOK
  <2> QED BY <1>0, <1>1, <2>11, <2>12, HandlerSteps, Zenon DEF Running, StandsAt
<1> QED BY <1>5, <1>6

(* add: the word that aligned the stack is gone. *)
LEMMA AddKeeps ==
  ASSUME Inv, add
  PROVE  Inv'
<1>0. Running("add") /\ stack' = Front(stack) /\ Advance /\ UNCHANGED <<regs, flag, frames>>
  BY Zenon DEF add
<1>1. PICK f, k : StandsAt(f, k, "add")
  BY <1>0, Standing, Zenon
<1>2. f \in Frames /\ f.vector \in Handled /\ k \in Int
  BY <1>1, FrameFacts, Zenon DEF StandsAt
<1>3. k = 12 /\ f.vector = TimerVector /\ f.vector \notin ErrorVectors
  <2>1. k = 12 /\ f.vector = TimerVector
    BY <1>1, <1>2, InstructionAt DEF StandsAt
  <2> QED BY <2>1 DEF TimerVector, ErrorVectors
<1>4. PICK t : t = stack'
  OBVIOUS
<1>5. PICK b \in Nat : b = Base(f)
  BY <1>2, FrameFacts
<1>6. /\ stack \in Seq(Words) /\ regs \in [Regs -> Words] /\ flag \in BOOLEAN /\ frames \in Seq(Frames)
  BY Zenon DEF Inv, TypeOK
<1>7. /\ Len(stack) = b + Depth(12) + Room(f.vector, 12)
      /\ \A j \in 1 .. 9 : j <= Depth(12) => stack[b + j] = f.regs[saved_regs[j]]
  BY <1>1, <1>3, <1>5, Zenon DEF StandsAt, KeptRegs
<1>8. /\ Depth(12) = 9 /\ Room(f.vector, 12) = 1 /\ Depth(13) = 9 /\ Room(f.vector, 13) = 0
      /\ Reached(f.vector, 13) /\ 12 + 1 = 13
  BY <1>3 DEF Depth, Room, Reached
<1>9. Len(stack) = b + 10
  <2>1. b + 9 + 1 = b + 10
    OBVIOUS
  <2> QED BY <1>7, <1>8, <2>1, Zenon
<1>10. t \in Seq(Words) /\ Len(t) = b + 9 /\ \A i \in 1 .. b + 9 : t[i] = stack[i]
  <2>1. Len(stack) > 0
    BY <1>9
  <2>2. t = Front(stack)
    BY <1>0, <1>4, Zenon
  <2>3. t \in Seq(Words) /\ Len(t) = Len(stack) - 1 /\ \A i \in 1 .. Len(stack) - 1 : t[i] = stack[i]
    BY <2>1, <2>2, <1>6, OneLess, Zenon
  <2> QED BY <2>3, <1>9
<1>11. KeptRegs(f, regs, t, 13)
  <2>1. Len(t) = b + Depth(13) + Room(f.vector, 13)
    BY <1>8, <1>10
  <2>2. ASSUME NEW j \in 1 .. 9 PROVE t[b + j] = f.regs[saved_regs[j]] /\ ~(j > Depth(13))
    <3>1. b + j \in 1 .. b + 9 /\ j <= Depth(12) /\ ~(j > Depth(13))
      BY <1>8
    <3> QED BY <3>1, <1>7, <1>10, Zenon
  <2>3. ~(13 <= 10) /\ 13 # 11
    OBVIOUS
  <2> QED BY <1>5, <2>1, <2>2, <2>3, Zenon DEF KeptRegs
<1>12. KeptFrame(f, t)
  <2>1. KeptFrame(f, stack)
    BY <1>1, Zenon DEF StandsAt
  <2>2. Len(t) \in Nat /\ Len(t) >= b /\ \A i \in 1 .. b : t[i] = stack[i]
    BY <1>10
  <2> QED BY <2>1, <2>2, <1>2, <1>5, FrameStays, Zenon
<1>13. pc' \in Places /\ pc'.vector = f.vector /\ pc'.at = 13
  BY <1>0, <1>1, <1>3, <1>8, NextPlace, Zenon DEF StandsAt
<1>14. Kept(f, regs', stack', pc')
  BY <1>0, <1>4, <1>8, <1>11, <1>12, <1>13, Zenon DEF Kept
<1>15. TypeOK'
  BY <1>0, <1>4, <1>6, <1>10, <1>13, Zenon DEF TypeOK
<1> QED BY <1>0, <1>1, <1>14, <1>15, HandlerSteps, Zenon DEF Running, StandsAt

(* The part of a sequence that another begins with is the other. *)
LEMMA Beginning ==
  ASSUME NEW P, NEW s \in Seq(P), NEW g \in Seq(P), Len(g) <= Len(s),
         \A i \in 1 .. Len(g) : s[i] = g[i]
  PROVE  SubSeq(s, 1, Len(g)) = g
OBVIOUS

(* iretq: registers, stack, flag and place are those of the context. *)
LEMMA ReturnsTo ==
  ASSUME Inv, iretq
  PROVE  LET f == frames[Len(frames)] IN
         /\ f \in Frames
         /\ regs' = f.regs /\ stack' = f.stack /\ flag' = f.flag /\ pc' = f.pc
         /\ frames' = Front(frames)
<1>0. /\ Running("iretq") /\ pc' = stack[Len(stack) - 0].rip /\ flag' = stack[Len(stack) - 2].rflags
      /\ stack' = SubSeq(stack, 1, stack[Len(stack) - 3].rsp)
      /\ frames' = Front(frames) /\ regs' = regs
  BY Zenon DEF iretq
<1>1. PICK f, k : StandsAt(f, k, "iretq")
  BY <1>0, Standing, Zenon
<1>2. f \in Frames /\ f.vector \in Handled /\ k \in Int /\ f = frames[Len(frames)]
  BY <1>1, FrameFacts, Zenon DEF StandsAt
<1>3. k = 22 /\ f.vector = TimerVector /\ f.vector \notin ErrorVectors
  <2>1. k = 22 /\ f.vector = TimerVector
    BY <1>1, <1>2, InstructionAt DEF StandsAt
  <2> QED BY <2>1 DEF TimerVector, ErrorVectors
<1>4. stack \in Seq(Words) /\ regs \in [Regs -> Words]
  BY Zenon DEF Inv, TypeOK
<1>5. PICK b \in Nat, l \in Nat, n \in Nat :
        b = Base(f) /\ l = Len(f.stack) /\ n = Len(f.stack) + Pad(f.stack)
  BY <1>2, FrameFacts
<1>6. b = n + 5 /\ l <= n
  BY <1>2, <1>3, <1>5, FrameFacts DEF CodeLen
<1>7. /\ Len(stack) = b + Depth(22) + Room(f.vector, 22)
      /\ 22 >= 13 => \A j \in 1 .. 9 : j > Depth(22) => regs[saved_regs[j]] = f.regs[saved_regs[j]]
  BY <1>1, <1>3, <1>5, Zenon DEF StandsAt, KeptRegs
<1>8. Len(stack) = n + 5
  <2>1. Depth(22) = 0 /\ Room(f.vector, 22) = 0 /\ b + 0 + 0 = n + 5
    BY <1>6 DEF Depth, Room
  <2> QED BY <2>1, <1>7, Zenon
<1>9. /\ stack[n + 2] = SavedRsp(l) /\ stack[n + 3] = SavedFlags(f.flag) /\ stack[n + 5] = SavedRip(f.pc)
      /\ \A i \in 1 .. l : stack[i] = f.stack[i]
  BY <1>1, <1>5, Zenon DEF StandsAt, KeptFrame
<1>10. Len(stack) - 0 = n + 5 /\ Len(stack) - 2 = n + 3 /\ Len(stack) - 3 = n + 2
  BY <1>8
<1>11. SavedRsp(l).rsp = l /\ SavedFlags(f.flag).rflags = f.flag /\ SavedRip(f.pc).rip = f.pc
  BY DEF SavedRsp, SavedFlags, SavedRip
<1>12. pc' = f.pc /\ flag' = f.flag /\ stack' = SubSeq(stack, 1, l)
  BY <1>0, <1>9, <1>10, <1>11, Zenon
<1>13. SubSeq(stack, 1, l) = f.stack
  <2>1. f.stack \in Seq(Words) /\ Len(f.stack) <= Len(stack)
    BY <1>2, <1>5, <1>6, <1>8, FrameFacts
  <2> QED BY <2>1, <1>4, <1>5, <1>9, Beginning, Zenon
<1>14. regs = f.regs
  <2>1. \A j \in 1 .. 9 : regs[saved_regs[j]] = f.regs[saved_regs[j]]
    <3>1. \A j \in 1 .. 9 : j > Depth(22)
      BY DEF Depth
    <3>2. 22 >= 13
      OBVIOUS
    <3> QED BY <3>1, <3>2, <1>7, Zenon
  <2>2. ASSUME NEW r \in Regs PROVE regs[r] = f.regs[r]
    <3>1. PICK i \in 1 .. 9 : r = saved_regs[i]
      BY RegsAre, Zenon
    <3> QED BY <2>1, <3>1, Zenon
  <2>3. f.regs \in [Regs -> Words]
    BY <1>2, FrameFacts
  <2> QED BY <2>2, <2>3, <1>4
<1> QED BY <1>0, <1>2, <1>12, <1>13, <1>14, Zenon

(* Then the context below is kept as it was when it was interrupted. *)
LEMMA IretqKeeps ==
  ASSUME Inv, iretq
  PROVE  Inv'
<1>1. Running("iretq")
  BY Zenon DEF iretq
<1>2. Len(frames) \in Nat /\ Len(frames) > 0 /\ frames \in Seq(Frames)
  BY <1>1, InHandler, Zenon DEF Running, Inv, TypeOK
<1>3. PICK f \in Frames : /\ f = frames[Len(frames)] /\ frames' = Front(frames)
                          /\ regs' = f.regs /\ stack' = f.stack /\ flag' = f.flag /\ pc' = f.pc
  BY ReturnsTo, Zenon
<1>4. PICK n \in Nat : n = Len(frames)
  BY <1>2
<1>4a. n > 0
  BY <1>2, <1>4
<1>5. PICK g : g = frames'
  OBVIOUS
<1>6. g \in Seq(Frames) /\ Len(g) = n - 1 /\ \A i \in 1 .. n - 1 : g[i] = frames[i]
  BY <1>2, <1>3, <1>4, <1>5, OneLess, Zenon
<1>7. /\ frames[1].pc = Main
      /\ \A i \in 1 .. n - 1 : Kept(frames[i], frames[i + 1].regs, frames[i + 1].stack, frames[i + 1].pc)
  BY <1>2, <1>4, Zenon DEF Inv, Nested, Chain
<1>8. TypeOK'
  <2>1. f.regs \in [Regs -> Words] /\ f.stack \in Seq(Words) /\ f.flag \in BOOLEAN /\ f.pc \in Places
    BY FrameFacts
  <2> QED BY <2>1, <1>3, <1>5, <1>6, Zenon DEF TypeOK
<1>9. Chain'
  <2>1. ASSUME NEW i \in 1 .. Len(g) - 1
        PROVE  Kept(g[i], g[i + 1].regs, g[i + 1].stack, g[i + 1].pc)
    <3>1. i \in 1 .. n - 1 /\ i + 1 \in 1 .. n - 1
      BY <1>4a, <1>6
    <3> QED BY <3>1, <1>6, <1>7, Zenon
  <2> QED BY <2>1, <1>5, Zenon DEF Chain
<1>10. CASE n = 1
  <2>1. Len(g) = 0 /\ ~(Len(g) > 0)
    BY <1>6, <1>10
  <2>2. pc' = Main /\ Main # Wild
    <3>1. pc' = Main
      BY <1>3, <1>4, <1>7, <1>10, Zenon
    <3> QED BY <3>1 DEF Main, Wild
  <2>3. Nested'
    BY <1>5, <2>1, <2>2, Zenon DEF Nested
  <2> QED BY <1>8, <1>9, <2>3, Zenon DEF Inv
<1>11. CASE n # 1
  <2>1. n - 1 \in 1 .. n - 1 /\ (n - 1) + 1 = n /\ 1 \in 1 .. n - 1
    BY <1>4a, <1>11
  <2>2. Kept(g[Len(g)], regs', stack', pc')
    BY <1>3, <1>4, <1>6, <1>7, <2>1, Zenon
  <2>3. g[Len(g)] \in Frames /\ Len(g) # 0
    BY <1>6, <2>1
  <2>4. pc' # Wild /\ g[1].pc = Main
    BY <1>6, <1>7, <2>1, <2>2, <2>3, PlaceOf, Zenon
  <2>5. Nested'
    BY <1>5, <2>2, <2>3, <2>4, Zenon DEF Nested
  <2> QED BY <1>8, <1>9, <2>5, Zenon DEF Inv
<1> QED BY <1>10, <1>11

(* deliver: what the processor pushes is a frame of the interrupted context, *)
(* and ends where its size says.                                             *)
LEMMA FrameArrives ==
  ASSUME TypeOK, NEW v \in Handled, NEW f \in Frames, f.vector = v, f.stack = stack,
         f.flag = flag, f.pc = pc
  PROVE  LET t == stack \o FrameOf(v) IN
         t \in Seq(Words) /\ Len(t) = Base(f) /\ KeptFrame(f, t)
<1>1. stack \in Seq(Words) /\ flag \in BOOLEAN /\ pc \in Places
  BY Zenon DEF TypeOK
<1>2. PICK l \in Nat, a \in 0 .. 1, c \in 0 .. 1 : l = Len(stack) /\ a = Pad(stack) /\ c = CodeLen(v)
  BY <1>1 DEF Pad, CodeLen
<1>3. Base(f) = l + a + 5 + c
  BY <1>2, Zenon DEF Base
<1>4. PICK p : p = IF Len(stack) % 2 = 1 THEN <<"align">> ELSE << >>
  OBVIOUS
<1>5. p \in Seq(Words) /\ Len(p) = a
  <2>1. "align" \in Words
    BY WordsHold, Zenon
  <2>2. <<"align">> \in Seq(Words) /\ Len(<<"align">>) = 1 /\ << >> \in Seq(Words) /\ Len(<< >>) = 0
    BY <2>1
  <2>3. CASE Len(stack) % 2 = 1
    <3>1. p = <<"align">> /\ a = 1
      BY <1>2, <1>4, <2>3 DEF Pad
    <3> QED BY <2>2, <3>1, Zenon
  <2>4. CASE Len(stack) % 2 # 1
    <3>1. p = << >> /\ a = 0
      BY <1>2, <1>4, <2>4 DEF Pad
    <3> QED BY <2>2, <3>1, Zenon
  <2> QED BY <2>3, <2>4
<1>6. PICK e : e = IF v \in ErrorVectors THEN <<[error |-> v]>> ELSE << >>
  OBVIOUS
<1>7. e \in Seq(Words) /\ Len(e) = c /\ (v \in ErrorVectors => c = 1 /\ e[1] = ErrorCode(v))
  <2>1. PICK w \in Words : w = ErrorCode(v)
    BY WordsHold, Zenon
  <2>2. <<w>> \in Seq(Words) /\ Len(<<w>>) = 1 /\ <<w>>[1] = w /\ << >> \in Seq(Words) /\ Len(<< >>) = 0
    OBVIOUS
  <2>3. e = IF v \in ErrorVectors THEN <<w>> ELSE << >>
    BY <1>6, <2>1, Zenon DEF ErrorCode
  <2>4. CASE v \in ErrorVectors
    <3>1. e = <<w>> /\ c = 1
      BY <1>2, <2>3, <2>4 DEF CodeLen
    <3> QED BY <2>1, <2>2, <3>1, Zenon
  <2>5. CASE v \notin ErrorVectors
    <3>1. e = << >> /\ c = 0
      BY <1>2, <2>3, <2>5 DEF CodeLen
    <3> QED BY <2>2, <2>5, <3>1, Zenon
  <2> QED BY <2>4, <2>5
<1>8. PICK w1, w2, w3 : w1 = SavedRsp(l) /\ w2 = SavedFlags(flag) /\ w3 = SavedRip(pc)
  OBVIOUS
<1>9. w1 \in Words /\ w2 \in Words /\ w3 \in Words /\ "ss" \in Words /\ "cs" \in Words
  BY <1>1, <1>8, WordsHold, Zenon
<1>10. PICK m : m = <<"ss", w1, w2, "cs", w3>>
  OBVIOUS
<1>11. m \in Seq(Words) /\ Len(m) = 5 /\ m[2] = w1 /\ m[3] = w2 /\ m[5] = w3
  BY <1>9, <1>10
<1>12. PICK u, g : u = p \o m /\ g = u \o e
  OBVIOUS
<1>12a. PICK t : t = stack \o g
  OBVIOUS
<1>13. t = stack \o FrameOf(v)
  BY <1>12a, <1>2, <1>4, <1>6, <1>8, <1>10, <1>12, Zenon DEF FrameOf, SavedRsp, SavedFlags, SavedRip
<1>14. u \in Seq(Words) /\ IsJoin(u, p, m, a, 5)
  BY <1>5, <1>11, <1>12, Joined, Zenon
<1>15. Len(u) = a + 5
  BY <1>14, Zenon DEF IsJoin
<1>16. g \in Seq(Words) /\ IsJoin(g, u, e, a + 5, c)
  BY <1>7, <1>12, <1>14, <1>15, Joined, Zenon
<1>17. Len(g) = a + 5 + c
  BY <1>16, Zenon DEF IsJoin
<1>18. t \in Seq(Words) /\ IsJoin(t, stack, g, l, a + 5 + c)
  BY <1>1, <1>2, <1>12a, <1>16, <1>17, Joined, Zenon
<1>19. /\ Len(t) = l + (a + 5 + c)
       /\ \A i \in 1 .. l : t[i] = stack[i]
       /\ \A i \in 1 .. a + 5 + c : t[l + i] = g[i]
       /\ \A i \in 1 .. a + 5 : g[i] = u[i]
       /\ \A i \in 1 .. c : g[a + 5 + i] = e[i]
       /\ \A i \in 1 .. 5 : u[a + i] = m[i]
  BY <1>14, <1>16, <1>18, Zenon DEF IsJoin
<1>20. t[l + (a + 2)] = w1 /\ t[l + (a + 3)] = w2 /\ t[l + (a + 5)] = w3
  <2>1. t[l + (a + 2)] = g[a + 2] /\ t[l + (a + 3)] = g[a + 3] /\ t[l + (a + 5)] = g[a + 5]
    BY <1>19
  <2>2. g[a + 2] = u[a + 2] /\ g[a + 3] = u[a + 3] /\ g[a + 5] = u[a + 5]
    BY <1>19
  <2>3. u[a + 2] = m[2] /\ u[a + 3] = m[3] /\ u[a + 5] = m[5]
    BY <1>19
  <2> QED BY <2>1, <2>2, <2>3, <1>11, Zenon
<1>21. v \in ErrorVectors => t[l + (a + 6)] = ErrorCode(v)
  <2>1. c = 1 => t[l + (a + 6)] = g[a + 6] /\ g[a + 6] = e[1]
    BY <1>19
  <2> QED BY <2>1, <1>7, Zenon
<1>22. /\ l + (a + 2) = (l + a) + 2 /\ l + (a + 3) = (l + a) + 3 /\ l + (a + 5) = (l + a) + 5
       /\ l + (a + 6) = (l + a) + 6 /\ l + (a + 5 + c) = l + a + 5 + c
       /\ l + (a + 5 + c) >= l + a + 5 + c
  OBVIOUS
<1>23. Len(t) = Base(f) /\ Len(t) >= Base(f)
  BY <1>3, <1>19, <1>22, Zenon
<1>24. KeptFrame(f, t)
  BY <1>2, <1>8, <1>19, <1>20, <1>21, <1>22, <1>23, Zenon DEF KeptFrame
<1> QED BY <1>13, <1>18, <1>23, <1>24, Zenon

(* deliver: the new handler keeps the context it interrupted, and that      *)
(* context keeps the one below it as it did.                                *)
LEMMA DeliverKeeps ==
  ASSUME Inv, NEW v \in Vectors, deliver(v)
  PROVE  Inv'
<1>1. v \in Handled
  BY VectorsAssumption DEF Handled
<1>2. PICK f : f = [vector |-> v, regs |-> regs, stack |-> stack, flag |-> flag, pc |-> pc]
  OBVIOUS
<1>3. /\ f.vector = v /\ f.regs = regs /\ f.stack = stack /\ f.flag = flag /\ f.pc = pc
  BY <1>2
<1>4. TypeOK /\ Chain /\ Nested /\ frames \in Seq(Frames) /\ regs \in [Regs -> Words] /\ stack \in Seq(Words)
      /\ flag \in BOOLEAN /\ pc \in Places
  BY Zenon DEF Inv, TypeOK
<1>5. f \in Frames
  BY <1>1, <1>2, <1>4 DEF Frames
<1>6. PICK g, t : g = frames' /\ t = stack'
  OBVIOUS
<1>7. /\ pc \notin {Halted, Wild} /\ g = Append(frames, f) /\ t = stack \o FrameOf(v)
      /\ pc' = [vector |-> v, at |-> 1] /\ flag' = (flag /\ ~ GateClearsIf(Raw(v))) /\ regs' = regs
  BY <1>1, <1>2, <1>6, GateLeads, Zenon DEF deliver
<1>8. g \in Seq(Frames) /\ IsMore(g, frames, f)
  BY <1>4, <1>5, <1>7, OneMore, Zenon
<1>9. PICK n \in Nat : n = Len(frames)
  BY <1>4
<1>10. Len(g) = n + 1 /\ (\A i \in 1 .. n : g[i] = frames[i]) /\ g[n + 1] = f
  BY <1>8, <1>9, Zenon DEF IsMore
<1>11. t \in Seq(Words) /\ Len(t) = Base(f) /\ KeptFrame(f, t)
  BY <1>1, <1>3, <1>4, <1>5, <1>7, FrameArrives, Zenon
<1>12. pc' \in Places /\ pc'.vector = v /\ pc'.at = 1
  BY <1>1, <1>7 DEF Places, Handled, TimerVector
<1>13. Kept(f, regs, t, pc')
  <2>1. Base(f) \in Nat
    BY <1>5, FrameFacts
  <2>2. /\ Len(t) = Base(f) + Depth(1) + Room(f.vector, 1) /\ Reached(f.vector, 1)
        /\ \A j \in 1 .. 9 : ~(j <= Depth(1))
    BY <1>11, <2>1 DEF Depth, Room, Reached
  <2>3. 1 <= 10 /\ 1 # 11 /\ ~(1 >= 13)
    OBVIOUS
  <2>4. KeptRegs(f, regs, t, 1)
    BY <1>3, <2>2, <2>3, Zenon DEF KeptRegs
  <2> QED BY <1>3, <1>11, <1>12, <2>2, <2>4, Zenon DEF Kept
<1>14. TypeOK'
  <2>1. flag' \in BOOLEAN
    BY <1>7, Zenon
  <2> QED BY <1>4, <1>6, <1>7, <1>8, <1>11, <1>12, <2>1, Zenon DEF TypeOK
<1>15. n > 0 => frames[1].pc = Main /\ Kept(frames[n], regs, stack, pc)
  BY <1>4, <1>7, <1>9, Zenon DEF Nested
<1>16. n = 0 => pc = Main
  BY <1>4, <1>9, Zenon DEF Nested
<1>17. Chain'
  <2>1. ASSUME NEW i \in 1 .. Len(g) - 1
        PROVE  Kept(g[i], g[i + 1].regs, g[i + 1].stack, g[i + 1].pc)
    <3>1. i \in 1 .. n
      BY <1>10
    <3>2. CASE i = n
      <4>1. Kept(frames[n], f.regs, f.stack, f.pc)
        <5>1. n > 0
          BY <3>1, <3>2
        <5> QED BY <5>1, <1>3, <1>15, Zenon
      <4> QED BY <4>1, <3>1, <3>2, <1>10, Zenon
    <3>3. CASE i # n
      <4>1. i \in 1 .. n - 1 /\ i + 1 \in 1 .. n
        BY <3>1, <3>3
      <4>2. Kept(frames[i], frames[i + 1].regs, frames[i + 1].stack, frames[i + 1].pc)
        BY <4>1, <1>4, <1>9, Zenon DEF Chain
      <4> QED BY <4>1, <4>2, <3>1, <1>10, Zenon
    <3> QED BY <3>2, <3>3
  <2> QED BY <2>1, <1>6, Zenon DEF Chain
<1>18. Nested'
  <2>1. g[1].pc = Main
    <3>1. CASE n = 0
      <4>1. n + 1 = 1
        BY <3>1
      <4> QED BY <4>1, <3>1, <1>3, <1>10, <1>16, Zenon
    <3>2. CASE n # 0
      <4>1. n > 0 /\ 1 \in 1 .. n
        BY <3>2
      <4> QED BY <4>1, <1>10, <1>15, Zenon
    <3> QED BY <3>1, <3>2
  <2>2. Len(g) # 0
    BY <1>10
  <2>3. Kept(g[Len(g)], regs', t, pc')
    BY <1>7, <1>10, <1>13, Zenon
  <2>4. pc' # Wild
    BY <1>5, <1>13, PlaceOf, Zenon
  <2> QED BY <2>1, <2>2, <2>3, <2>4, <1>6, Zenon DEF Nested
<1> QED BY <1>14, <1>17, <1>18, Zenon DEF Inv

(* The kernel's own code has nothing to keep. *)
LEMMA InvAtFirst == Init => Inv
<1> SUFFICES ASSUME Init PROVE Inv
  OBVIOUS
<1>1. /\ regs = [r \in Regs |-> Value("main", r)] /\ stack \in {<<>>, <<"local">>}
      /\ flag \in BOOLEAN /\ pc = Main /\ frames = <<>>
  BY Zenon DEF Init, Regs, Value
<1>2. regs \in [Regs -> Words]
  <2>1. \A r \in Regs : Value("main", r) \in Words
    BY WordsHold, Zenon
  <2> QED BY <1>1, <2>1
<1>3. stack \in Seq(Words)
  <2>1. "local" \in Words
    BY WordsHold, Zenon
  <2>2. <<>> \in Seq(Words) /\ <<"local">> \in Seq(Words)
    BY <2>1
  <2> QED BY <1>1, <2>2, Zenon
<1>4. Main \in Places /\ Main # Wild
  BY DEF Main, Wild, Places
<1>5. frames \in Seq(Frames) /\ Len(frames) = 0
  BY <1>1
<1>6. ~(Len(frames) > 0) /\ 1 .. Len(frames) - 1 = {}
  BY <1>5
<1>7. TypeOK
  BY <1>1, <1>2, <1>3, <1>4, <1>5, Zenon DEF TypeOK
<1>8. Chain /\ Nested
  BY <1>1, <1>4, <1>6, Zenon DEF Chain, Nested
<1> QED BY <1>7, <1>8, Zenon DEF Inv

(* Every step keeps the invariant. *)
LEMMA InvKept == Inv /\ [Next]_vars => Inv'
<1> SUFFICES ASSUME Inv, [Next]_vars PROVE Inv'
  OBVIOUS
<1>1. CASE UNCHANGED vars
  BY <1>1, Zenon DEF vars, Inv, TypeOK, Chain, Nested
<1>2. ASSUME NEW v \in Vectors, deliver(v) PROVE Inv'
  BY <1>2, DeliverKeeps
<1>3. CASE push \/ pop \/ sub \/ add \/ load_rdi \/ call \/ iretq
  BY <1>3, PushKeeps, PopKeeps, SubKeeps, AddKeeps, LoadKeeps, CallKeeps, IretqKeeps, Zenon
<1> QED BY <1>1, <1>2, <1>3, Zenon DEF Next

(* The invariant holds in every state. *)
LEMMA InvAlways == Spec => []Inv
BY InvAtFirst, InvKept, PTL DEF Spec

-----------------------------------------------------------------------------
(* Whatever is interrupted, the kernel's code or a handler between any two  *)
(* of its instructions, to any depth, the handler that returns leaves       *)
(* registers, stack, flag and place as they were: what the macros of        *)
(* src/src/idt.rs push and pop around the C function they call.             *)
THEOREM Transparent == Spec => InterruptTransparent
<1>1. Inv /\ [Next]_vars =>
      [iretq => LET f == Last(frames) IN
         regs' = f.regs /\ stack' = f.stack /\ flag' = f.flag /\ pc' = f.pc]_vars
  BY ReturnsTo, Zenon DEF Last
<1> QED BY <1>1, InvAlways, PTL DEF Spec, InterruptTransparent

(* Every delivery reaches the handler that create_init_idt and hpet_init    *)
(* inserted at its vector, and each body is called with an error code       *)
(* exactly when its exception pushes one, the one it pushed.                *)
THEOREM HandlersFit == Spec => []HandlerFits
<1>1. Inv => HandlerFits
  <2> SUFFICES ASSUME Inv PROVE HandlerFits
    OBVIOUS
  <2>1. pc # Wild
    BY Zenon DEF Inv, Nested
  <2>2. ASSUME pc \notin {Main, Halted} PROVE pc.vector = Last(frames).vector
    BY <2>1, <2>2, InHandler, Zenon DEF Kept, Last
  <2>3. ASSUME Running("call")
        PROVE  LET takes == \E i \in 1 .. pc.at : shared_idt[pc.vector].handler[i].op = "load_rdi" IN
               /\ takes <=> pc.vector \in ErrorVectors
               /\ takes => regs["rdi"] = [error |-> pc.vector]
    <3>1. PICK f, k : StandsAt(f, k, "call")
      BY <2>3, Standing, Zenon
    <3>2. f \in Frames /\ f.vector \in Handled /\ pc.vector = f.vector /\ pc.at = k
      BY <3>1, FrameFacts, Zenon DEF StandsAt
    <3>3. k = 11
      BY <3>1, <3>2, InstructionAt DEF StandsAt
    <3>4. (\E i \in 1 .. 11 : shared_idt[f.vector].handler[i].op = "load_rdi") <=> f.vector \in ErrorVectors
      BY <3>2, TakesAt, Zenon
    <3>5. f.vector \in ErrorVectors => regs["rdi"] = [error |-> f.vector]
      BY <3>1, <3>3, Zenon DEF StandsAt, KeptRegs, ErrorCode
    <3> QED BY <3>2, <3>3, <3>4, <3>5, Zenon
  <2> QED BY <2>1, <2>2, <2>3, Zenon DEF HandlerFits
<1> QED BY <1>1, InvAlways, PTL
=============================================================================
