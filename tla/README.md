# Specifications of kehinde-kernel

TLA+ models of kehinde-kernel (a bare-metal AArch64 kernel for the Raspberry
Pi 3 and 5), TLC runs that check them on small instances, and TLAPS proofs.
Paths below are relative to the kernel's `src/` directory unless they start
with `include/`.

## 1. The system

One core runs everything. `boot.S` drops to EL1, clears BSS, installs the
vector table, unmasks IRQs and calls `kernel_main`, which initialises the
subsystems in a fixed order and enters the shell. The only concurrency is
between the foreground program, the IRQ handler that may suspend it at any
instruction, and the hardware that works beside it: the table walker with its
TLB, the timer, the UART. Nothing is persistent and nothing is freed except
frames, so there is no crash recovery to speak of.

| Component | State it keeps | Operations | Calls |
|---|---|---|---|
| Physical memory manager `pmm/pmm.cpp` | `bitmap`, `phys_mem_start`, `total_frames` | `pmm_init`, `alloc_frame`, `free_frame` | – |
| Page tables `mmu/mmu.cpp` | `l1_table` and the tables in frames | `map`, `unmap`, `translate`, `_get_or_alloc_table` | PMM |
| MMU bring-up `mmu/mmu_pi3.cpp`, `mmu_pi5.cpp` | system registers | `mmu_init` | PMM, `map` |
| Kernel heap `heap_alloc/heap_alloc.cpp` | `bump_ptr`, `heap_end` | `kheap_init`, `kmalloc` | PMM, `map` |
| Filesystem `filesystem/filesystem.cpp` | inode list, block chains, `next_ino` | `fs_init`, `fs_create`, `fs_unlink`, `fs_write`, `fs_read`, `fs_readdir`, `fs_lookup`, `fs_stat` | heap |
| Shell `shell/shell.cpp` | `cwd_ino`, `cwd_path`, the line buffer | `read_line`, one function per command | filesystem, UART, timer |
| Boot and vectors `boot.S`, `interrupts/vector_table.S` | stack, DAIF, ELR, SPSR | register save and restore, `eret` | IRQ handler |
| Interrupts `interrupts/interrupts_pi3.cpp`, `_pi5.cpp` | the interrupt controller | `interrupt_init`, `handle_interrupt_requests` | timer, UART |
| Timer `timer/timer.cpp` | `time`, `freq`, CNTP registers | `timer_init`, `increment_time` | – |
| UART `uart/uart_pi3.cpp`, `_pi5.cpp` | device registers | `uart_init`, `uart_getc`, `uart_putc`, formatting | – |
| Kernel entry `kernel.cpp` | – | the order of initialisation | all |
| Linker script `linker.ld` | – | `__kernel_end` | – |

What is hard to test here, and what makes each component right:

* **PMM.** A frame must never have two owners. The bitmap is sized with a
  frame count taken before its own footprint is known, the last word has bits
  that stand for no memory and `alloc_frame` does not test for them, and
  `free_frame` is called with whatever its caller has.
* **Page tables.** The walker reads while `map` and `unmap` run, so the tables
  have to be a tree at every page and not only at the end of a call. A call
  may stop half way for want of a frame. Table frames and data frames come
  from one pool. Stores of descriptors have to be ordered before the
  invalidation.
* **Heap.** `kmalloc` tests for an empty pool, but `map` takes frames of its
  own after that test and reports nothing.
* **Filesystem.** Swap-last on unlink moves entries between blocks; chains
  grow by one block at a time from two functions; sizes shrink and grow again.
* **Shell.** The current directory exists twice, as an inode and as a path. A
  line is cut in place into at most `MAX_ARGS` words. `write` overwrites and
  never shortens, so a file may hold pieces of several texts.
* **Interrupts.** IRQs are unmasked long before any controller is programmed,
  a timer or a character may come between any two steps of the handler, and
  the stub uses as scratch the registers it must preserve. An exception is
  taken also while IRQs are masked, and the handler returns from some of them
  to the instruction that raised them.
* **Console.** `read_line` edits its buffer and the terminal separately; the
  terminal is behind a FIFO that the core polls while nobody reads input.

The list of hazards, each at its line, with the properties that watch it, is
in `PROJECT.json`.

## 2. The modules

| Module | Models | Abstracts |
|---|---|---|
| `FrameAllocator` | what `pmm.cpp` does for its callers: a first-fit set of frames, and a free that ignores what is not an allocated frame. `include/pmm.h` promises less (section 3) | – |
| `PMM` | the bitmap and its three functions | a word is the set of its 1 bits |
| `PMM_proofs` | proofs about `PMM` | – |
| `NumberLemmas` | facts about `Min`, quotients and remainders, induction on the naturals and iterated functions, that several proofs cite | – |
| `AddressSpace` | what `include/mmu.h` promises: a function from pages to mappings, edited page by page | – |
| `MMU` | three-level tables in frames, one action per loop iteration of `map` and `unmap`, the boot map, and the other callers of `alloc_frame` | addresses are page numbers; free frames are a set |
| `MMU_proofs` | proofs about `MMU` | – |
| `TLB` | the barriers and invalidations of `map` and `unmap` against the walker | the upper levels of the tables |
| `Heap` | `kmalloc` as a loop of steps over `MMU` | – |
| `Heap_proofs` | proofs about `Heap` | – |
| `FsTree` | what `include/filesystem.h` promises: directories, files, bytes | – |
| `FileSystem` | inodes, block chains, directory entries | a name is a value, a path a sequence of names |
| `BlockChains` | proofs about the block chains of `FileSystem`: what each call writes to memory | – |
| `FileSystem_proofs` | proofs about `FileSystem` | – |
| `Shell` | splitting a line, resolving arguments, the commands over `FileSystem`, what `ls` and `cat` print | characters other than space and slash come in runs that nothing looks into |
| `Shell_proofs` | proofs about `Shell` | – |
| `Interrupts` | boot, entry and return for IRQs and synchronous exceptions, the handlers of both boards, the timer, UART reception and transmission, `read_line` with its echo | one general register stands for all; of the output only prompts and echoes |
| `Interrupts_proofs` | proofs about `Interrupts` | – |

Composition: `MMU` instantiates `FrameAllocator`'s `FirstFit` for its frames.
`Heap` extends `MMU` and `Shell` extends `FileSystem`: each action of the upper
module calls actions of the lower one, and its specification (`HeapSpec`,
`ShellSpec`) implies that of the lower one (theorems `HeapCallsMap` and
`LinesCallFileSystem`), so that what is proved below holds above. The constants
of the lower module are tied to those of the upper one: `HeapAssumption` says
that the ranges which `map` is called with are the pages of the heap, and
`ShellAssumption` that the names, types, offsets and texts which the filesystem
is called with are those that the lines hold. Three detailed
modules are checked against an abstract one through a refinement mapping:
`PMM` against `FrameAllocator`, `MMU` against `AddressSpace` (the abstract map
is what `translate` returns for each page) and `FileSystem` against `FsTree`
(the abstract tree is what `fs_readdir` and `fs_read` return). `Heap` uses
`MMU` with its set of free frames rather than `PMM` with its bitmap: that is
what the first refinement is for.

How actions correspond to code. A function that nothing can observe half way
is one action (`alloc_frame`, `fs_write`); its early returns are actions or
disjuncts of their own (`alloc_frame_oom`, `fs_write_fails`). A loop that
something can observe is one action per iteration (`MapPage`, `UnmapPage`,
`EditPage`, `Invalidate`, `GrowFrame`..`GrowNext`), because the hardware, or
`map`'s own allocations, act in between. The IRQ path is one action per step
that a device can race with. Variables called history in their declaration
(`held`, `allocs`, `typed`, `ticks`, `received`, `skipped`, `stored`, `written`)
record what happened and are not in the code. A definition whose comment begins with
`Fault:` is not part of the model: it is a version of the definition after it
with a plausible mistake, kept to show that a property would notice.

## 3. The runs

| Run | Shows | Bounds |
|---|---|---|
| `pmm` | bitmap and owners agree, only managed frames are handed out, refinement of `FrameAllocator` | 9 frames in 3 words of 4 bits, where the provisional count is 11; frees of frames, of addresses inside, below and past them |
| `mmu` | tree of tables, no frame lost or shared, the boot map stays, refinement of `AddressSpace` | tables of 4 entries (64 pages), 12 frames, so that allocation fails at each of the two table levels |
| `heap` | allocations partition the heap, are backed, take no page too many; `kmalloc` ends | pages of 8 bytes, 3 heap pages, sizes 0, 3, 8 and 11, frames for 2 heap pages, so that both panics are reached |
| `fs` | chains, forest of entries, a read of any slice returns the bytes written last, paths never retarget, refinement of `FsTree` | 4 inodes, 4 blocks of 2 entries or 2 bytes, 3 names and one that is refused: a directory fills a block, grows, shrinks over the boundary and grows again. A text of two bytes at offsets 1 and 2: a write leaves a gap, leaves a block wholly unwritten, crosses a block, covers older bytes in part, fills a block exactly |
| `shell` | a line splits into its words, path and inode of the current directory agree, what `ls` shows can be used, `cat` prints the text written last, in front, and as many bytes as the file has | 4 words to a line, and every pattern of words and spaces of up to 9 symbols; paths of 6 symbols, and one that is too long for its array; paths of up to 3 segments where `fs_lookup` keeps 2; names of up to 3 symbols, with a slash, and one too long; `cat` reads 2 bytes of blocks of 3 |
| `interrupts` | an exception leaves no trace, characters reach the line, the screen shows the line, ticks are counted once and eventually, typing is read, fatal exceptions stop the core | a receive FIFO of 2 and a transmit FIFO of 1, lines of 2 characters, 3 characters typed, 2 ticks, both boards, any set of sources left enabled by the firmware, a foreground without a fault, with a data abort (0x25), or with a class the handler returns from (0x2C) |

A bitmap word, a table, a block and a line have boundaries that behave alike
at any size; the bounds put at least one crossing of every boundary, and the
step before and after it, into each run. In `fs` the names are a symmetry set:
`FileSystem` and its properties only compare names for being equal, and no
property of that run is a liveness property. Deadlock is checked except in `heap`
(a panic stops the kernel) and the runs of `Shell` (`shutdown` does).

Six runs look for, and find, a disagreement between the code and what it says
of itself:

| Run | The code | What it says |
|---|---|---|
| `mmu_emptied` | `unmap` frees an L3 table that became empty but clears a descriptor of that table instead of the one in the L2 table that points to it | `mmu/mmu.cpp:155` "ensure the walker doesn't follow a stale frame" |
| `heap_few` | frames run out inside `map`, at a table of a heap page: `kmalloc` returns unmapped memory | `heap_alloc/heap_alloc.cpp:15` "backed by a real physical frame" |
| `fs_stale` | an appended block's `next` is never written, and `kmalloc` does not clear memory | `include/filesystem.h:242` |
| `shell_path` | relative `cd`s lengthen `cwd_path` until a path is longer than the arrays it is put together in; nothing tests the length | `shell/shell.cpp:39` "Maximum length of a path string" |
| `shell_write` | `write` never shortens a file: the tail of a longer older text stays, and `cat` prints it | `shell/shell.cpp:291` "overwrite the file with the joined text" |
| `tlb` | `dsb ishst` comes before the stores instead of after them; a walk after `tlbi` can cache the old translation again | `mmu/mmu.cpp:29`, `include/mmu.h:61` |

`fs` and `shell` take memory to be zero when `kmalloc` returns
it (`StaleNext = {0}`): that is QEMU's RAM, and it keeps the other properties
from failing for the reason `fs_stale` shows. `mmu` unmaps no range that
empties an L3 table, for the same reason. The properties of `shell` are about
what happens before a path overruns its array, and about the front of what `cat`
prints. With the barrier where the header
puts it, `TLB` has no counterexample.

Divergences seen while modelling that have no run of their own. Findings in
`PROJECT.json`, each filed under the passing run and the property nearest to it:

* `include/pmm.h:77` says that `free_frame` does not validate its argument and
  that a bad address can corrupt the bitmap. It does validate (`pmm.cpp:102-118`):
  `pmm` passes addresses below, inside and past the frames, and ones that
  are free already, and `BitmapMatchesHeld` and the refinement of
  `FrameAllocator`, a free that ignores them, hold.
* `include/board.h:26` says that the managed frames end where the peripherals
  begin. On the Pi 3 they end 8 MiB later.
* `include/filesystem.h:150` says that a read past the end returns 0. `fs_read`
  returns -1 when the offset is a block or more past the last block
  (`filesystem.cpp:191`). `ReadsAnySlice` is about offsets up to the end.
* `include/filesystem.h:120` says that `fs_create` grows a directory when its last
  block is full. It appends a block whenever the size is a multiple of 15, also
  when unlinks have brought it back there and the chain has room.
  `ChainsSound` asks for enough blocks and not for no more.

Others: `fs_lookup` ignores what follows the 16th segment of a path (`shell`
includes such paths, and no property minds them); a DEL on
an empty line is stored and echoed, where `read_line` announces printable
characters only (`shell/shell.cpp:93`; `ScreenShowsLine` excepts it), and a line
that ends because the buffer is full is not followed by a new line;
`kernel.cpp:19` says the timer is not started and line 68 starts
it; synchronous exceptions are "treated as fatal" (`interrupts_pi3.cpp:9`) and the
handler returns from the classes it does not list; `ELR_EL1`, which
`include/interrupts.h` has dumped, is not; `uart_handle_irq` of the Pi 5 is never
called; `interrupts_pi3.cpp:142` says the UART's interrupt is left masked and
line 148 enables it; `include/interrupts.h:50` wants `interrupt_init` before
IRQs are unmasked and `boot.S:114` unmasks them first; `uptime` prints ticks of
100 ms and is described as seconds (`shell/shell.cpp:312`); `include/mmu.h:76`
says `unmap` does not reclaim tables, and it does.

### Fairness

`Heap`: weak fairness of the steps of a `kmalloc` in progress. It runs on the
only core; the IRQ handler that may suspend it returns (`interrupts`).
`Interrupts`: weak fairness of the foreground's next step and of the handler's
next step: the core executes something at any time. Strong fairness of taking
an interrupt that is pending and not masked: the architecture has it taken in
finite time, also when a faulting instruction keeps masking IRQs in between
(each `eret` unmasks them again, so it is enabled again and again, not always).
Weak fairness of the transmitter: the UART sends what its FIFO holds, without
flow control. Nothing is assumed of the timer or of the
person typing. The number of ticks is bounded, which stands for the 100 ms
between two of them: the foreground always gets to run. The UART's interrupt
is not bounded that way, so a handler that did not silence it would keep the
core, and `CharactersAreRead` would fail. The other modules have no fairness
and no liveness property: their operations are calls that return.

## 4. The proofs

`PMM_proofs` proves, for every memory size, page size, word width and set of
addresses passed to `free_frame` that satisfy `PMMAssumption` (all sizes
positive; the kernel image and the bitmap fit below `PHYS_MEM_END`, without
which the unsigned subtractions of `pmm_init` wrap):

* `TypeCorrect`, `NoFrameHandedOutTwice`, `PaddingStaysInUse`,
  `OnlyManagedFramesHandedOut`: each invariant of the run `pmm`;
* `Invariant`: the inductive invariant they follow from,
  `IInv == TypeOK /\ BitmapMatchesHeld /\ PaddingInUse`.
* `BitmapImplementsFrameAllocator`: `PMM` refines `FrameAllocator` (property
  `ImplementsFrameAllocator` of the same run). Each action maps to a step or a
  stutter: `pmm_init` to `Start`; `alloc_frame` to `Alloc`, because the first
  clear bit of the first word that has one belongs to the lowest free frame
  (lemma `AllocatedFrame`); `alloc_frame_oom` to `Alloc` with nothing free;
  `free_frame` to `Free` when the address is a frame (`FreedFrame`) and to a
  stutter when it is not (`FreeIgnored`).

`BitmapMatchesHeld` alone is not inductive: `alloc_frame` takes the first clear
bit of the words it scans and never compares its index with `total_frames`, so
an index past the last frame would be set in the bitmap and belong to no
managed frame. `PaddingInUse` excludes that, and is kept because `free_frame`
refuses indices from `total_frames` on. `HeldFramesManaged` then follows from
`BitmapMatchesHeld` and the geometry of `pmm_init` (lemma `Geometry`: the
frames begin at or after the end of the bitmap, and there are never more
frames than bits). The rest is arithmetic: `DivMod` and its companions (in `NumberLemmas`),
`FrameBits` (the bit of an index lies in the bitmap), `FrameAddresses` (an
address that passes `free_frame`'s tests is the address of exactly one index).

`MMU_proofs` proves, for every size of table and memory that satisfies
`MMUAssumption`, `RangesAssumption` (map is called with pages the tables have
room for), `PowerOnAssumption` and `UnmapsHarmless`:

* `MMUTypeCorrect`, `WalkerFindsTree`, `NoFrameLostOrShared`: the invariants
  `TypeOK`, `TableTree` and `FrameAccounting` of the run `mmu`, and
  `NoFreeTableLinked`: the property that the run `mmu_emptied` refutes;
* `TablesImplementAddressSpace`: the refinement of `AddressSpace`;
* `UnmapsFreeNothing`: no step of `unmap` gives a frame back;
* `TablesStayATree`: the inductive invariant, `IInv /\ UnmapInv`, they follow from.

With an `unmap` that empties a table the theorems would be false. `UnmapsHarmless`
excludes such an `unmap`, in terms of what `map` and `unmap` are called with: nothing is
unmapped (this kernel: nothing in it calls `unmap`), or the boot map has room
(`FramesSuffice` and `MapsElsewhere`, see below) and `UnmapsKeepTables` holds: an
unmapped page is outside the boot map, and if it is one that somebody maps, a
page of the boot map has the same L3 table. The run `mmu` has such unmaps, the
run `mmu_emptied` one that is not, and their modules assert both.

`IInv` says that there
*are* sets `T2` and `T3` of tables such that the descriptors of the L1 table lead
to exactly `T2`, those of `T2` to exactly `T3`, no two to the same table, and that
`{L1}`, `T2`, `T3`, the free frames and the callers' frames partition the frames
(`Shape`). In that form each piece of a step is a lemma about `Shape` of any
memory (`LinkL2`, `LinkL3`, `SetLeaf`, `TakeFrame`), and the lemmas can be chained
inside `MapPage`, which links up to two tables before it writes the leaf
(`GetL2`, `GetL3`, `StepTables`). The partition is what makes a table fresh when it
is linked, so that zeroing it loses nothing. For the refinement, a new table
changes no walk (`LinkL2Walk`, `LinkL3Walk`), and writing a leaf changes the walk
of one page only (`SetLeafWalk`): a page whose walk ends at the same descriptor
has the same three indices because no two descriptors share a child, and the
indices determine the page (`IndicesOfPage`).

That an unmap empties no table is a third invariant, `UsedInv`: every L3 table has
a page that is mapped, and every mapped page belongs to the boot map or to a
range that somebody maps. When `unmap` clears a page that was mapped, the page
of the boot map with the same L3 table is still there (`StayInv`, below); when
it clears one that was not, the page that `UsedInv` speaks of is another
(`AnotherMapped`, `NothingFreed`). `map` keeps `UsedInv` because it writes its page
into the tables it creates before it does anything else, and when it finds no
frame for an L3 table it has created an L2 table at most.

* `BootMapStays`: the invariant `KernelStaysMapped` of the run `mmu`, under
  hypotheses that the run's instance asserts. `FramesSuffice`: there are
  as many frames as the boot map has tables (both boards have 500 times as
  many; without it `map` gives up half way and the invariant is false).
  `MapsElsewhere` and `UnmapsKeepTables`: later calls are of other pages
  (`HEAP_BASE` is neither RAM nor device on either board).

`BootInv` says, while `mmu_init` maps, that each page already passed is as the
last region over it says, and that the only tables are those that boot pages
need; `StayInv`, that what the MMU was switched on with stays. That `map` never
gives up is a counting argument: name each table by the indices that lead to it
(`TablesFor`). If a table were missing and no frame free, the names without the
missing one would be mapped onto all frames, more than they are (`Exhausted`).

`Heap_proofs` proves, for every heap size, page size, alignment and sequence of
requests that satisfy `HeapAssumption` (the alignment divides the page size, the
heap begins and ends at pages), about `Heap` with the real `map` under it:

* `HeapTypeCorrect`, `AllocationsNeverOverlap`, `HeapTakesNoPageTooMany`: the
  invariants `TypeOK`, `AllocationsPartitionHeap` and `HeapEndIsTight`;
* `HeapInvariant`: the inductive invariant `HInv`, of three parts. That the loop
  stops at the right page rests on what `kmalloc` has tested at its entry
  (`required_end` inside the heap), on `heap_end` being a page end, and on the
  number of the callers' frames being that of the pages below `heap_end`, plus
  the one in hand. The callers' frames are counted, so `FramesInv` carries that
  no frame is free and in use.

* `HeapCallsMap`: `HeapSpec` implies the specification of `MMU`, so its theorems
  hold under the heap; `KernelStaysUnderHeap` is one of them.
* `HeapStaysBacked`: `HeapBacked`, under `FramesSuffice`, `MapsElsewhere` and
  `TablesFit`: whenever the boot map, the heap so far and a frame for its next
  page fit, so do the tables of that page.

`TablesFit` is what decides between `kmalloc`'s panic and a silent failure of
`map`: it holds of the run `heap`, which also reaches the panic, and not of
`heap_few`, where `HeapBacked` is violated (`MCHeap` asserts that of the two sets
of frames exactly one satisfies it). On both boards it holds: the 256 pages of
the heap share one L3 table, and there are frames for all of it. All other
theorems about the heap hold without it. The proof needs the count of tables to
be exact: at most those named (`Named`, as for the boot map) bounds what `map` may
need, and at least those named (`TablesTaken`: mapped pages have all their tables,
in different frames) turns a frame found by `kmalloc` into the premise of
`TablesFit`.

`Interrupts_proofs` proves, for every FIFO size and line size, any set of typed
characters, any number of ticks and either board (`InterruptsAssumption`):

* `InterruptsTypeCorrect`, `HandlersLeaveNoTrace`, `TicksCountedOnce`,
  `TypingReachesLine`, `TerminalShowsLine`: the invariants `TypeOK`,
  `InterruptsLeaveNoTrace`, `EveryTickCountedOnce`, `CharactersReachLine` and
  `ScreenShowsLine`;
* `InterruptsInvariant`: the inductive invariant, of four parts. `ControlInv`
  says for each step of a handler where the interrupted program's registers are
  (still in place, or in the one frame on the stack), which is what makes
  `eret` restore them. `TickInv` adds to the count of ticks that a snapshot
  saying the timer is pending is true until the handler has reloaded it.
  `BuffersInv` carries the types of what is in `x0`, in whatever place
  `ControlInv` says it is, over the interrupt to the step that stores it.
  `ConsoleInv` says that what was typed is what has been edited into the line,
  then the character in hand, then the FIFO; and that the screen, once
  everything that is under way to it (the echo in hand, what `putc` has still to
  send, the transmit FIFO) has been shown, shows the line.

The prompt is one symbol on the screen, and `InterruptsAssumption` says that it
is not one that can be typed.

`BlockChains` and `FileSystem_proofs` prove, for every number of inodes, blocks,
entries and bytes per block, set of names, offsets and texts, and anything that
an unwritten `next` may read as (`FileSystemAssumption`), of every behaviour in
which the block appended last reads as the end of its chain (`[][EndsFresh]_vars`):

* `TypeCorrect`, `ChainsAreSound`, `EntriesAreForest`, `ReadsReturnSlices`: the
  invariants `TypeOK`, `ChainsSound`, `EntriesFormForest` and `ReadsAnySlice`;
* `PathsKeepTheirInodes`: the action property `PathsNeverRetarget`;
* `ImplementsTree`: the refinement of `FsTree`.

`EndsFresh` is a hypothesis about the steps and not about the memory: it allows
stale memory wherever it is read as the end. It is what `append_block` leaves to
chance, and without it the theorems are false (`fs_stale`); the theorems say that it is
all that can go wrong with a chain. In `Shell` it holds, because `ShellAssumption`
has `StaleNext = {0}`. The inductive invariant `Inv` says that each
inode *has* a chain, a sequence of blocks that the `next` pointers follow, that no
block is in two chains or twice in one and that it is long enough for the size
(`HasChains`), and that entries lead to younger inodes, none to the same inode
and none in one directory with the same name (`Forest`). The first half is about
memory and the second about what is read from it. A third part (`Held`) makes the
theorem about reads speak of writes: every byte in the history `stored` is still in the
block and at the place that its file's chain gives it, below the size. `BlockChains` shows for any
memory with chains that hopping finds the block at that place of the chain
(`HopOnChain`, by induction on the hops), and what writing a cell,
appending a block and adding an inode do to the cells of all inodes; the calls
are then described by what they do to cells (`Created`, `Unlinked`, `Written`),
and the rest of the proof never looks at blocks again. The forest is needed by
the chains no less than by the lookups: `fs_unlink` moves the last entry over
the removed one, and it is the uniqueness of names and inodes that makes this
remove one name and keep all others. A lookup of a path is a way through the
entries; a call that removes one entry keeps every other way, and one that adds
an entry adds it where no way went.

`Shell_proofs` proves, for every set of lines and all sizes that satisfy
`ShellAssumption`:

* `EveryLineSplits`: `parse_args` on any line at all, not only on those of an
  instance, and `LinesSplit`, the invariant `LineSplitsIntoWords`;
* `ShellTypeCorrect`, `CwdPathStays`, `ListedNamesWork`, `CatPrintsWhatWasWritten`:
  the invariants `ShellTypeOK`, `CwdPathLeadsToCwd`, `ListedNamesResolve` and
  `CatPrintsWritten`;
* `LinesCallFileSystem`: every line is one call of the filesystem or none.

The inductive invariant is `ShellInv`: `Inv` of the filesystem, that the path of
the current directory leads to its inode (`CwdInv`), and that each file begins with the
text written to it last (`WrittenInv`). Nothing bounds `cwd_path`: the code has no
such test, and the model goes on only with lines that fit. The second part is the interesting one. `mkdir`,
`touch` and `rm` edit the entries of the current directory only, and the way to it
comes through it only at its end, because inode numbers grow along a way
through the forest (`WayKept`): so every step of the way stays what it was. `cd`
resolves the very path that it stores. A trailing slash in the path leads nowhere else
because names are never empty. The loops of the shell (`parse_path`,
`parse_args`, `join_args`, `cmd_cat`) are functions of the round, and their lemmas
say what holds after each round, by induction on rounds.

Only model-checked: the liveness properties (`KmallocEnds` and those of
`Interrupts`: liveness under fairness is out of the prover's reach); what an
`unmap` that empties a table does; the file system with stale memory; `TLB`. Every invariant and
every action property of a passing run has its theorem. Induction goes through
sets of naturals (`InductionOnNat`, `Iterate`) and not through the library's
theorems with operator parameters, which the installed provers cannot
instantiate.

## 5. Not modelled

* Values of MAIR, TCR and SCTLR, the drop from EL2 to EL1, zeroing of BSS: a
  fixed sequence of register writes without a choice.
* What the synchronous handler prints, and the formatting of numbers in
  `uart/uart_pi3.cpp` and `uart_pi5.cpp`: no kernel state, and nothing depends on
  it. Of the output only prompts, echoes, and what `ls` and `cat` print are
  modelled.
* `help`, `pwd`, `clear`, `kernel`, `uptime`: they print and change nothing.
* `fs_stat`: it returns two fields of an inode, which the models read directly.
* Bytes of memory past an array: with a path that outgrows `MAX_PATH` the model of
  the shell stops (`overrun`), since nothing is known of what the kernel does then.
* `map` with a size of zero, which does nothing.
* The order of stores inside one step: `_get_or_alloc_table` zeroes a table and
  links it, `MapPage` links the tables of a page and writes its leaf, and
  `interrupt_init` writes the enabling registers, each in one step. The ARM timer
  of the BCM2835 (basic IRQ 0), which the Pi 3 enables (`interrupts_pi3.cpp:144`), is
  started by nothing and no source of the model.
* Early returns of `map` and `unmap` leave the pages they have edited without an
  invalidation. `include/mmu.h` announces it for `unmap`, and `NoStaleTranslation`
  excepts these pages (`skipped`).
* Arithmetic modulo 2^64: sizes are far below it once `PMMAssumption` holds;
  `kmalloc` of a size close to 2^64 has no caller.
* A panic of `kmalloc` in the middle of `fs_create` or `fs_write`: it stops the
  kernel for good, and nobody sees the half-made inode.
* The linker script, and the constants of the boards other than those the
  models take as parameters.

## 6. Plan

Done: `PMM` first, because everything stands on frames having one owner; then
`MMU`, `Heap`, `FileSystem` in the order they depend on each other; `Shell` and
`Interrupts` on top; `TLB` beside `MMU`.

Then the line splitting and `write` in `Shell`, the transmitter, the echo and the
synchronous handler in `Interrupts`, and the proofs about `Heap`, `MMU` and
`Interrupts`.

Then the chains, the tree and the lookups of the filesystem, the boot map, the
console and the shell were proved, and `Heap` and `Shell` rebuilt as extensions of
the modules under them, so that theorems carry over. Last, the theorems about
`MMU` were extended to calls of `unmap`.

Next, to model: table descriptors in the walker's cache and the freed tables of
`unmap` in `TLB`; the composition of `Shell` with the typing of its lines.

Next, to prove: for `TLB`, that pages no call has edited keep their translation;
that `Heap` over the bitmap of `PMM` is `Heap` over its set of frames.
