# Verification of the kernel

TLA+ models of the kernel in `src/`, the TLC runs that check them on small
instances, and TLAPS proofs for instances of any size. `PROJECT.json` maps every
definition to the lines it translates and lists the components, the runs, the
findings and the hazards of the code.

## The system

| Part | Source | State it owns | Modelled in |
|---|---|---|---|
| physical frame allocator | `memory/physical.rs` | bitmap, offset, limit | `PhysicalAllocator` |
| page tables | `memory/paging.rs` | tables in physical memory | `PageTable`, `FindFreePages` |
| page allocator | `memory/virt.rs` | spin lock, search cursor | `PageAllocator`, `PageAllocatorContract` |
| global allocator | `memory/allocator.rs` | none (pages of each block) | `HeapAllocator` |
| ACPI table handler | `acpi.rs` | none (mappings of the acpi crate) | `HeapAllocator` |
| paths | `fs/path.rs` | none | `Path`, `PathWalk` |
| RAM file system | `fs/ramfs.rs` | tree, handles | `Ramfs`, `FileTree` |
| virtual file system | `fs/vfs.rs` | mounts | `Vfs` |
| console, screen | `console.rs`, `screen.rs` | cursor, framebuffer | `Console` |
| panic handler, output locks | `panic.rs`, `qemu_log.rs`, `lib.rs` | two locks | `Output` |
| handlers, IDT | `idt.rs`, `lib.rs` | gates | `Idt`, `Trampoline` |
| interrupt guard, shared IDT | `interrupts.rs` | lock, interrupt flag | `InterruptGuard` |
| time, HPET | `time.rs`, `dev/hpet.rs` | device registers | `Time`, `Devices` |
| CPU bring-up, APICs | `cpu.rs`, `main.rs`, `dev/*apic.rs` | PERCPUS, registers | `CpuInit`, `Devices` |
| stack traces, symbols | `stack_trace.rs` | walk | `StackTrace` |
| test runner | `test.rs` | TESTS | `TestRunner` |
| instruction wrappers, hexdump | `arch_x86_64.rs`, `io.rs`, `msr.rs`, `hexdump.rs` | none | `invlpg`, `rflags` only |

`Allocator::alloc` and the ACPI handler ask the page allocator for pages; the
drivers in `dev/` map their registers with `map_physical`. The page allocator
takes its lock, searches the page table for a free run, takes frames from the
bitmap and writes entries, for which `map_page_unchecked` may take more frames
for tables. With the `smp` feature all CPUs do this concurrently. `kmain_rs` loads a
first table of exception handlers, initialises memory and calls `cpu::init`, which
sets up the devices and starts the other CPUs. Every exception handler panics; the
panic handler prints to the console and to the logger and halts its CPU. The file
systems are libraries that any CPU may call.

## The modules

**PhysicalAllocator.** The bitmap is the set of indices whose bool is true; a
frame-aligned address is its frame number. `allocated_frame` and
`bitmap_after_allocate` are the two results of `allocate_frame`, and so on for
`free_frame` and `alloc_phy_addr`. Where the code panics (underflow, index out of
bounds, assertion), an operator says so.

**PageTable.** Physical memory is a function from the frames that hold a table to
its entries. An entry keeps PRESENT, HUGE_PAGE and the frame. The indices of a
page, the walk of `page_entry`, `page_entry_mut` and `map_page_unchecked` follow
the source, for tables of `PAGE_TABLE_ENTRY_NUM` entries. A walk that strays into
a frame that is no table reads garbage that looks present.

**FindFreePages.** The loop of `find_free_pages`, one iteration per step. Its
property `ReturnsFirstRun` says that the loop returns what `found_free_pages` and
`free_pages_end`, which `PageAllocator` uses, define.

**PageAllocator.** `pc[c]` is what CPU `c` executes and `req[c]` its arguments and
`PageIter`. Calling, taking the lock (with the search, and in `map_physical` with
`alloc_phy_addr`), each iteration of a loop, and returning are steps; other CPUs
run in between. Everything under the lock up to the first iteration is one step,
since no other CPU can look at it. `None` results and panics are actions of their
own. A panic halts the CPU and drops no guard, so it may leave the lock taken. The
MMU of each CPU may cache a present translation or drop one at any time; `invlpg`
drops one on its own CPU.

**PageAllocatorContract.** What the `PageAllocator` trait promises: an allocation
is a run of pages, each with a frame of its own, that overlaps no allocation still
held and stays as it is. `PageAllocator` implements it under the mapping that reads
the frames out of the page tables (`ImplementsContract`).

**HeapAllocator.** `Allocator` and `AcpiTableHandler` over the contract: how sizes,
alignments and addresses become pages, and pages become sizes again on the way
back. Its property `GivesBackOwned` is what `dealloc_pages_call` of
`PageAllocator` assumes of the callers.

**Path, PathWalk.** A path is the sequence of its parts between slashes, a part the
sequence of its letters (since `relative_to` compares characters). `PathWalk` looks
at every pair of paths and walks up from one with `parent`.

**FileTree, Ramfs.** `node` is everything `Arc::new` ever made. A lookup holds the
read locks on its way, so it is one step; what an operation does with the directory
it found is another, and other callers run in between. `FileTree` is what a caller of
the `FileSystem` trait may rely on: a path denotes the same entry until somebody
deletes it or a directory above. `Ramfs` implements it under the mapping that reads
the tree as lookups do (`ImplementsTree`).

**Vfs.** The mounts in order, `mount` with its two checks (before and under the write
lock) and `open_file`.

**Console.** The cursor, the pixels that a character covers, and the byte of the
framebuffer behind each; `draw_pixel`'s assertion is the panic. Screens may have any
width: with 9 k + 8 pixels the assertion can fail.

**Output.** Who holds the console and the logger, prints, and the panic handler. An
exception panics, so a CPU can panic inside a print and inside the panic handler.

**Idt, Trampoline.** A handler is the sequence of instructions of its macro, a gate
what `to_raw` encodes, and `create_init_idt` says which handler stands at which
vector. `Trampoline` executes them: a delivery aligns the stack and pushes a frame
(external: the processor), each instruction is a step, another exception or the timer
may come between any two, `iretq` restores what the frame says. `cld` is left out.

**InterruptGuard.** Each CPU's interrupt flag, its nested guards, the lock of
`SHARED_IDT`, and interrupts that come when the flag is set. `irq_is_enabled` compares
the masked bit, 0 or 512, with 1. Nothing in the kernel sets the flag yet: the model is
about callers of `irq_enable`.

**Devices, Time.** `Devices` has what each driver function that the kernel calls writes
to a register given what it read. `Time` counts femto seconds, of which
`read_main_counter` shows whole ticks; a call's first read of the counter, each poll, and
the store to the comparator are steps.

**CpuInit.** Every access of the boot CPU to a shared device is a step, so is every gate
inserted under the lock; then all CPUs run `cpu_main_rs`. Each of its two
`console_println!` takes the lock of CONSOLE in one step and drops it in another. An id
beyond the list or beyond `PERCPUS` panics: the handler unlocks CONSOLE, whoever holds it,
and takes it for good. `clocks` and `slept` count what a local APIC and the HPET count
during calibration; `behind` is the part of a tick that had passed when `poll_sleep`
first read the counter, which it sees in whole ticks only.

**StackTrace.** The functions on the stack from the panicking one down to `kmain` or
`cpu_main`, each with the place it will be returned to and whether it made a frame. The
two entries and the handlers of `idt.rs` are naked and make none, and a function that an
exception interrupted may not have made its own yet. The walk goes from frame to frame
and looks up each return address in the sorted symbol file.

**TestRunner.** Tests nest: each is called by the `next_test` of the one before, from
`run_test` or from the panic handler. A test is the sequence of what the runner can
notice: locks, prints, `should_panic!`, a panic. The runner's own prints, those of its
panic handler included, wait for the lock of GLOBAL_LOGGER, and a test may panic inside a
print with it.

Four modules put several components side by side: `PageRuns` (`FindFreePages`,
`HeapAllocator`), `Files` (`Ramfs`, `Vfs`, `PathWalk`), `Reports` (`Console`, `Output`,
`StackTrace`, `TestRunner`) and `Processors` (`Trampoline`, `CpuInit`, `Time`). They leave the constants open, with the assumptions on them, and state
the properties of their components, which both a run and a proof module take from there.
The `MC...` modules give the constants their values. In these runs the variable `part`,
chosen at the start, says which component runs; the others stay in one initial state, so
the run is the union of the runs of its parts and no more. `MCFiles` runs `Ramfs` twice:
with callers that build a tree of up to three nodes, and with callers that read and write
one file.

`PageTableProofs` (types, walks, who holds which frame), `PageAllocatorProofs` (types,
lock, frames and tables, pages held, leaks, contract, panics, cached translations),
`PageRunProofs` (`FindFreePages`, `HeapAllocator`), `RamfsProofs` (`Ramfs` and the tree its
callers see), `FileProofs` (`PathWalk`, `Vfs`, and that `Ramfs` implements `FileTree`),
`ReportProofs` (`Console`, `TestRunner`, `StackTrace`),
`ProcessorProofs` (`Time`, `CpuInit`) and `InterruptProofs`
(`Idt`, `Trampoline`) hold the proofs. Definitions marked "Mutant" are faulty variants of
the definition that follows; no specification uses them. Each shows, put in its place,
that a property can fail.

## The runs

Tables have two entries, so that 16 pages need all four levels and neighbouring
pages lie in one table, in two, or in different subtrees. Pages 0..7 are the lower
half; the bootloader's three tables map pages 8..11 with huge pages and lie inside
the reach of the bitmap but outside the usable region, as in the kernel.

| Run | Instances | Checks | States |
|---|---|---|---|
| `pa_smp` | 2 CPUs, one page or device at a time, 2 allocations held | types, `MappedFramesMarked`, `NoFrameShared`, `PendingReserved`, `LivePagesMapped`, `NoPanic`, `ImplementsContract`, `LockReleased`, no deadlock | 11570 |
| `pa_limits` | 1 CPU with one cached translation, 13 frames, runs of 1 to 4 pages and of 7, up to the last page and the last frame, a device beyond the bitmap | `TlbCoherent`, `NoPanic`, `NoFrameLeaked`, `TablesPersist` | 42248 |
| `page_runs` | every subset of eight pages present, a fixed and a huge page, every start, 1 to 4 pages; pages of 4 bytes, blocks of 1 to 8 bytes, three tables, 3 allocations held | `ReturnsFirstRun`, `SearchEnds`, `GivesBackOwned`, `BlocksBacked`, `MappingsExact` | 142389 |
| `files` | 2 callers that create and delete, 3 nodes below the root; 2 callers with files of up to 3 bytes; 2 callers, 2 file systems mounted at paths inside each other; every pair of paths of up to four parts | `LookupsAgree`, `PanicsOnlyAtRoot`, `MountsDistinct`, `ViewsAgree`, `ImplementsTree`, `AnswersStable` | 234665 |
| `reports` | 64 screens, one to four characters a line, some of 9 k + 8 pixels; 3 CPUs that print once and panic up to twice; every stack of up to five functions, with up to two exceptions on it; every list of up to four of eight tests | `PanicsAtEdge`, `BytesInside`, `NothingOverdrawn`, `TraceFaithful`, `SummaryExact`, `PanicReported`, `Finishes` | 169423 |
| `processors` | 17 vectors, every one with an error code among them, two handlers deep; 2 CPUs with ids 0 and 1, or 0 and 3 with a `PERCPUS` of 3, each the boot CPU, 3 cycles to a tick and 8 to the milli second; 2 CPUs, ticks of 3 fs, durations of 14 and 16 fs from every phase of a tick | `HandlerFits`, `InterruptTransparent`, `DevicesReady`, `VectorsHandled`, `Calibrated`, `BootCompletes`, `SleptEnough`, `TimerNotEarly` | 421758 |

`pa_smp` shows that calls of two CPUs do not interfere and that the allocator does what
its trait promises; `pa_limits` that the exceptional paths keep the books: a panic has one
of three causes (the bitmap is full, the run ends with the last page, the device has no
bool), and no path loses a frame. `page_runs` shows that the search returns the first free
run, and that sizes and addresses become pages and back without a byte lost.

`files` shows that no interleaving of callers makes an entry turn into another or
vanish, even where a name occurs twice; that the ways in which operations take a path
apart reach the same entry; that a handle's position stays inside its file; and that a
mount takes no path away from another. `reports` shows that a panic is reported although
its CPU, or another, held the locks; that the trace names, in order and to the last, every
function that called one with a frame, also one whose call is its last instruction; that
every test is counted once, and when there is a summary at all. `processors` shows that a
handler that returns gives back the registers, the flag and the stack of what it
interrupted, another handler included; that the device setup, which takes no lock, is over
before a second CPU runs; where a CPU may wait for ever after another one's panic; and by
how much a sleep, a timer or the calibration may be short.

Three properties state exactly how far the code goes:

- `BootCompletes`. A CPU whose id is out of bounds panics and keeps CONSOLE, so it can
  stop the others too: they wait at their next `console_println!`, before they load the
  shared table or when all but the last line is done. Nothing else keeps a CPU from `hlt`.
- `Finishes`. A test run has its summary just if no test needs a lock that an earlier one
  panicked with, and none panics inside a print: the handler prints under the lock of
  GLOBAL_LOGGER, which it does not force open as the handler of the kernel does.
- `TraceFaithful`. Below an exception handler the trace goes on with the *caller* of the
  interrupted function, since the handler makes no frame whose return address leads to the
  interrupted one; it leaves that function out, and if its frame was not made yet, its
  caller too. It leaves out nothing else.

Six runs show a disagreement between the code and its documentation:

| Run | Property | What TLC finds |
|---|---|---|
| `pa_none_when_full` | `AllocationsBacked` | with the bitmap full, `alloc_pages` returns a page mapped to physical address 0 instead of `None` |
| `pa_beyond_limit` | `AllocationsUsable` | `limit` is never read; frames past the usable region are handed out |
| `pa_upper_half` | `AllocationsCanonical` | the search runs into page numbers whose address is not canonical |
| `console_line` | `NextCharFits` | on a screen of 9 k + 8 pixels, 800 among them, the last character of a full line fails the assertion of `draw_pixel` |
| `guard_open` | `InterruptsStopped` | `irq_is_enabled` is always false, so after `irq_enable` an interrupt is handled inside a guard |
| `handler_stack` | `BodyAligned` | the body of a handler is called with the stack 8 bytes off the alignment its macro's comment states |

The models also show the following, for which there is no run:

- `relative_to` compares letters, not parts: `/ab` is relative to `/a`. And it strips a
  second slash: `exists` takes `//a/b` for `/a/b`, which `open_file` looks for in a
  directory without a name. `LookupsAgree` leaves such paths out.
- Creating an entry whose path exists adds a second one of the same name, where
  `fs/vfs.rs:18` wants `PathAlreadyExists`; `delete` of a missing path returns `Ok`, and
  opening the root reports a path that does not exist.
- `create_file` and `create_dir` of `/` panic: `parent` of the root is the root, not `None`
  as the comment at `fs/ramfs.rs:228` assumes, and the `unwrap` of `filename` fails, where
  `fs/vfs.rs:22` wants an error. `PanicsOnlyAtRoot` says that nothing else panics.
- `Vfs` hands a mounted file system the relative rest of a path, which `Ramfs`, for want
  of the slash, refuses.
- A CPU that was printing when another panicked opens the console again when its guard
  drops, so output may follow the report.
- A device below the base of the largest usable region, or beyond the reach of the bitmap,
  cannot be mapped: `alloc_phy_addr` panics. It is one of the causes that `NoPanic` names.
- `poll_sleep` may end up to a tick early, so the calibration may count less than a milli
  second; `Calibrated` says by how much.
- The timer of the local APIC is divided by 4 where the comment speaks of 1; `as_raw` of
  the IO APIC ignores `dest`.

**Bounds.** `MaxLive` limits the allocations held at once and `MaxCursor` the start
of the search, which in the code only grows. Two allocations and two CPUs are
enough for one call to interfere with another that is held or in progress; the
cursor has to reach the last page only in `pa_limits` and `pa_upper_half`. `TlbSize` is one: the cached translations are independent of each
other. Deadlock is not checked where a CPU may panic, since everything may then stop,
nor in `page_runs`, where the search ends. `Rest` lets idle callers ask for nothing more.

`MaxNodes` and `MaxData` bound what the RAM file system may hold; three nodes make a
file in a directory in the root, and one deleted while in use. `MaxNesting` is two: a
handler's frame does not depend on what lies under it. `MaxDepth` of guards and of
stacks (an exception handler between two framed functions, twice), `MaxTests`, `MaxPrints` and `MaxPanics` are small multiples of the longest
interaction (a panic in the panic handler, a test that leaves a lock to the next but
one). `LastCall` and `MaxClock` leave every call of `Time` the clock it needs to end;
`MaxClocks` of `CpuInit` is past the sleep, where counts saturate. Deadlock is not
checked where the system ends or halts (tests, traces, halted CPUs, bounded clocks and
nodes). The callers of `files` are interchangeable and no property of it is a liveness
property, so that their symmetry is sound.

**Fairness.** `pa_smp` assumes that a CPU inside the critical section keeps running:
interrupts are never enabled in the kernel and nothing preempts it. It assumes nothing
of CPUs that spin, since the spin lock has no queue; so only the release of the lock is
stated, not that every waiter gets it. `Fairness` is weak fairness of `LoopStep` with
its enabling condition written out. The search of `page_runs` and the test runner of
`reports` assume that sequential code runs. For `PanicReported` each CPU keeps running, but one
that waits for a lock which others take in turn may wait for ever; so the property says
only that some panicking CPU gets through. For `BootCompletes` the counter
of the HPET runs once it is enabled, and each processor that was started executes; each
takes a lock only a bounded number of times, so who waits for ever waits for a CPU that
keeps the lock.

## The proofs

For any number of CPUs, frames, pages, table sizes and requests:

- `TypeCorrect`: `Spec => []TypeOK`, exhaustion and panics included.
- `LockExcludes`: `Spec => []LockInv`.
- `FramesSafe`: `Spec /\ []MemoryAvailable => [](MappedFramesMarked /\ NoFrameShared
  /\ PendingReserved)`. `MemoryAvailable` says that the usable region has a free
  frame. Without it the theorem is false: see `pa_none_when_full` and
  `pa_beyond_limit`.
- `TablesKept`: `Spec /\ []MemoryAvailable => TablesPersist`, an action property from the
  same inductive invariant.
- `PagesStayMapped`: `Spec /\ []MemoryAvailable => []LivePagesMapped`.
- `FreesNeverPanic`: `Spec /\ []MemoryAvailable => []FreeSucceeds`: neither the `unwrap`
  of `dealloc_pages` nor an assertion of `free_frame` fails for a page given back.
- `NothingLeaks`: `Spec /\ []MemoryAvailable => []NoFrameLeaked`.
- `ContractKept`: `Spec /\ []MemoryAvailable => ImplementsContract`. The state function
  `Owned`, each allocation with the frames the tables hold for its pages, is the
  refinement mapping; a return is the contract's allocation, a call of `dealloc_pages`
  its release, every other step a stutter.
- `PanicsExplained`: `NullFrame \notin DeviceFrames => (Spec /\ []MemoryAvailable =>
  []NoPanic)`: a CPU panics only for a run that ends with the last page or a device that
  the bitmap has no bool for.
- `TranslationsCurrent`: `(\A c, d \in CPU : c = d) => (Spec /\ []MemoryAvailable =>
  []TlbCoherent)`. With two CPUs it is false: `invlpg` reaches its own CPU only.
- `FindFreePagesCorrect`: `Spec => []ReturnsFirstRun`.
- `PagesGivenBack`, `BlocksApart`, `TablesMapped`: `Heap!Spec => []GivesBackOwned`,
  `[]BlocksBacked` and `[]MappingsExact`.
- `PathViews`: `Walks!Spec => []ViewsAgree`, for paths of any length.
- `HandlesInBounds`, `OneEntryPerPath`: `Spec => []PanicsOnlyAtRoot` and
  `Spec => []LookupsAgree` of `Ramfs`, for any number of callers, any tree they build and
  files of any size.
- `TreeImplemented`: `Spec => ImplementsTree`, the refinement of `FileTree` by `Ramfs`, for
  any number of callers and any tree they build.
- `MountsApart`, `AnswersKept`: `Mounts!Spec => []MountsDistinct` and
  `Mounts!Spec => AnswersStable`, an action property.
- `ConsoleSafe`: `Spec => [](PanicsAtEdge /\ BytesInside /\ NothingOverdrawn)`, for
  screens of every size.
- `TestsCounted`: `Tests!Spec => []SummaryExact`, for any list of tests.
- `TraceNamesStack`: `Trace!Spec => []TraceFaithful`, for any symbol file and any stack,
  with any number of exceptions on it.
- `TimeSafe`: `Clock!Spec => [](SleptEnough /\ TimerNotEarly)`, for every length of a tick and
  every duration.
- `DevicesFirst`, `VectorsInserted`, `MilliSecondsCounted`: `Boot!Spec =>
  []DevicesReady`, `[]VectorsHandled` and `[]Calibrated`, for any list of processors and
  any ticks to a milli second.
- `Transparent`, `HandlersFit`: `Spec => InterruptTransparent`, an action property, and
  `Spec => []HandlerFits` of `Trampoline`, for any vectors and handlers inside each other
  to any depth.

`FramesSafe` needs more than its three conjuncts. Its inductive invariant `FInv`
adds the types, `LockInv` (only one CPU has frames pending), that the tables below
the root have the level of their position and are zero where nothing is present (so
that a walk stays among tables, and clearing an entry removes the one reference to
its frame), and `PathInv`, that the tables above each page being freed exist. The
lemmas follow `map_page_unchecked`: what one write of an entry and one new table
preserve, then the three tables and the last entry in order, then one lemma per
action.

The theorems about pages need a second invariant, `LInv`: no page is held twice, by
callers or by calls in progress (`Apart`); each page held is mapped to a frame that is
marked, not reserved, and behind no other page held (`HeldInv`); a page still to be
mapped is not mapped (`FreshInv`). It is inductive only together with `FInv`. That a
write for one page leaves the others alone follows from `OneParent`, that no table has
two entries leading to it, and from a page being determined by its four indices. For
`NothingLeaks`, `Traced` says of each marked frame who refers to it; `FreshInv` is what
keeps `map_page_unchecked` from overwriting an entry that is in use.

TLC checked `FInv`, `LInv` and `FreeSucceeds` as invariants of `pa_smp` and `pa_limits`
before they were proved; in both, `MemoryAvailable` holds of every state, so the
theorems say something about them. `PageTableProofs` derives that a set of naturals has a
minimum (the first free bit) from well-foundedness, and that dividing twice is dividing
once (the four indices).

`ConsoleSafe` rests on `CursorFits`: the cursor stands at a multiple of the character's
size from which one more character fits or, in the one case the wrapping leaves open, its
last column is the first beyond the screen.
`TimeSafe` adds to its two conjuncts what a call in progress has read (`CallState`) and
what the comparator was computed from (`ComparatorState`); the arithmetic is one lemma,
`DivBounds`, on a quotient and what it was divided from.

The heap's invariant, `HeapInv`, gives every allocation held to one block or one mapping
(`OneEach`), with the size that `page_amount` computes for it again (`Backs`, `Maps`); the
rest is arithmetic of a quotient and its remainder (`Quotient`, `DivIs`).

`RamfsInv` says that entries lead to nodes (`NodesOK`), that a handle has a file and is
inside it, that a call under way has found a directory, and that only one with the path
of the root has panicked. No step shortens a file or removes a node (`Grows`), so one
lemma, `StepKeeps`, covers all callers but the one that moves. `find_dir` and the
entries kept by `delete` are recursive functions; `RecursionExists` and `AlikeUpTo`, by
induction over a set of naturals (`SetInduction`, from well-foundedness), give what each
returns. `LookupsAgree` then follows from the last step of the walk (`FindDirLast`) and
from what the views of a path have in common (`WithoutRoot`, `ParentIs`).

For `TreeImplemented` the invariant is `TreeInv`: `RamfsInv`, `TreeOK(node)` and
`Visible = Seen(node)`. `Visible` is what `find_dir` and `find_file` compute; `Seen` says the
same without recursion, as the cells to which some walk from the root `Leads`. `TreeOK` is
what the abstract tree needs and no single operation shows: each node is the entry of one
directory at most, and the root of none. Several entries of one directory may have one name,
and a directory that was deleted may still get entries from a call that found it earlier, so
it is not true that every entry can be seen. But from `TreeOK` one path at most leads to a
node. An entry that is pushed is then seen under one path or, behind an entry of its name or
in a deleted directory, under none; and what the `retain` of `delete` drops takes away one
path with all below it. `StepChanges` says which of these each
operation does, `ChangesMove` what callers see of it: a `Create`, a `Delete` or a stutter of
`FileTree`.

`MountInv` says
of a mount call that waits for the lock that its path is none of the root file system's;
a mount is only ever appended (`MountAppends`).

`TestInv` has the counts of the tests that are over and whether the current one called
`should_panic!`. `TraceInv` has the names printed so far and whose they are, and that every
framed function above the walk was visited (`Walked`); `FunctionNamed` says that the search
from a return address backwards ends at the first byte of its function. For
`CpuInit`, `PlaceInv` says where the other processors are while the boot processor is on
its way; `DevInv`, `VectorInv` and `CountInv` say what each place implies about devices,
gates and counts: `CountInv` bounds the cycles of a processor asleep by the whole ticks its
sleep has seen, the part of a tick at its beginning included.

A handler's frame is safe only if what runs on top of it never pops into it, and that is
not a property of one handler. So the invariant of `InterruptProofs` speaks of all
deliveries that have not returned. For each, `Kept` says, instruction by instruction,
that the stack up to its frame is the one it interrupted, that the frame's words and the
word that aligned it are there, and that each saved register is in its slot or, after its
`pop`, back in place. `Nested` claims this of the last delivery for the processor's
registers, stack and program counter, `Chain` of each earlier one for those that the next
delivery interrupted. `iretq` then hands the invariant back: the context it restores is the one
for which the handler below it was `Kept`. TLC checked the invariant before it was proved. The macros enter through one lemma, `InstructionAt`:
which instruction stands where in the handler of a vector.

The assumptions are those of the modules: `PhysicalAssumption`,
`PageTableAssumption` (what the bootloader leaves: its tables form a tree), `AllocatorAssumption` (callers
ask for at least one page), `SearchAssumption`, `ScreensAssumption` (32 bits a
pixel, room for a character, rows that hold their pixels), `TimeAssumption`,
`HeapAssumption` (sizes are positive, alignments divide the page, regions are aligned),
`BootAssumption` (ids and counts are naturals), `TestsAssumption` (nothing follows a
panic, and a print ends or panics), `SymbolsAssumption` (the symbol file is sorted, and names
each function at its first byte only; entries and handlers are functions), `RamfsAssumption` and `FilesAssumption` (paths have at least one part,
buffers are bytes, sizes are naturals) and `VectorsAssumption` (vectors are exceptions or the timer's). TLC
evaluates each of them on the values of a run.

Only model-checked: `Output`, whose one property is about liveness, and `InterruptGuard`,
whose property fails. Liveness (`LockReleased`, `SearchEnds`,
`PanicReported`, `Finishes`, `BootCompletes`) is out of the prover's reach.

## What is left out

The flags other than PRESENT and HUGE_PAGE are never tested by the code. The
zeroing of the page at 0xfee00000 in `map_physical` is a data write. The choice of
the region in `virt::init` is the constants `OFFSET` and `LIMIT`. 1 GiB pages are
assumed absent (`page_entry` does not know them), alignments above a page too (no
allocation of the kernel has one). Coherence of translation caches across CPUs is
not claimed: the code does not invalidate other CPUs' entries.

## Not modelled

`hexdump` and what `io.rs`, `msr.rs` and `arch_x86_64.rs` wrap (one instruction each)
have no state; `invlpg` and the interrupt flag are modelled where they are used. Glyphs,
colours and log texts are left out. Driver functions without a caller (`enable`,
`disable` and the mask of the local APIC's timer; `disable`, `disable_legacy_mapping`,
`set_main_counter_raw` and `route_irq_to` of the HPET and its timers) are not modelled, nor
are the operations of `Vfs` that are `todo!()`. `kmain_rs` is modelled from the loading of its
first IDT; its check of the framebuffer only ends the kernel. The `Lazy`
statics, whose initialiser runs once whoever comes first, are taken as initialised. `cld` in the
handlers changes a flag that nothing in the models reads.
