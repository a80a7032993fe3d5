-------------------------------- MODULE Heap --------------------------------
(***************************************************************************)
(* The bump allocator: src/heap_alloc/heap_alloc.cpp, on top of the page   *)
(* tables of MMU.tla, with which it competes for frames.                   *)
(*                                                                         *)
(* kmalloc is a sequence of steps because map allocates table frames of    *)
(* its own between kmalloc's test for an empty frame pool and the end of   *)
(* the iteration.  Pointers are byte addresses.                            *)
(***************************************************************************)
EXTENDS MMU

CONSTANTS
  PAGE_SIZE,        \* bytes per page
  HEAP_ALIGN,       \* alignment of every allocation
  HEAP_BASE,        \* first address of the heap's virtual range
  HEAP_MAX_SIZE,    \* bytes of that range
  Sizes             \* arguments kmalloc is called with

VARIABLES
  bump_ptr,   \* next byte to allocate (0 until kheap_init)
  heap_end,   \* end of the pages mapped so far (0 until kheap_init)
  at,         \* where kmalloc is: "idle", "loop", "frame", "map", "panic"
  aligned,    \* the size, rounded up, of the kmalloc in progress
  pa,         \* the frame that kmalloc is about to map
  allocs      \* history: <<address, aligned size>> of every return of kmalloc

bumpVars == <<bump_ptr, heap_end, at, aligned, pa, allocs>>
heapVars == <<vars, bumpVars>>

PageOf(addr) == addr \div PAGE_SIZE

\* Once the MMU is on, kmalloc is who calls map, for a page of the heap at a
\* time, and nothing calls unmap.
ASSUME HeapAssumption ==
  /\ PAGE_SIZE \in Nat \ {0} /\ HEAP_ALIGN \in Nat \ {0}
  /\ PAGE_SIZE % HEAP_ALIGN = 0
  /\ HEAP_BASE \in Nat /\ HEAP_BASE % PAGE_SIZE = 0 /\ HEAP_BASE # 0
  /\ HEAP_MAX_SIZE \in Nat /\ HEAP_MAX_SIZE % PAGE_SIZE = 0
  /\ Sizes \subseteq Nat
  /\ MapRanges = {<<PageOf(HEAP_BASE) + k, 1>> : k \in 0 .. HEAP_MAX_SIZE \div PAGE_SIZE - 1}
  /\ UnmapRanges = {}

\* Fault: the size is taken as it is.
AlignUp_None(size) == size

\* (size + 15) & ~15
AlignUp(size) == ((size + HEAP_ALIGN - 1) \div HEAP_ALIGN) * HEAP_ALIGN

required_end == bump_ptr + aligned

\* Fault: a page more than needed when the span ends at heap_end.
Backed_Strict == heap_end > required_end

\* The requested span is backed: the loop ends.
Backed == heap_end >= required_end

-----------------------------------------------------------------------------
HeapInit ==
  /\ Init
  /\ bump_ptr = 0 /\ heap_end = 0
  /\ at = "idle" /\ aligned = 0 /\ pa = 0
  /\ allocs = {}

\* kernel_main: mmu_init, then kheap_init, then the users of the heap.
BootStep ==
  /\ mmu_init \/ MapBootRegion \/ EnableMMU \/ (phase = "mapping" /\ MapStep)
  /\ UNCHANGED bumpVars

\* Fault: heap_end is not initialised.
kheap_init_Half ==
  /\ phase = "on" /\ bump_ptr = 0
  /\ bump_ptr' = HEAP_BASE
  /\ UNCHANGED <<vars, heap_end, at, aligned, pa, allocs>>

kheap_init ==
  /\ phase = "on" /\ bump_ptr = 0
  /\ bump_ptr' = HEAP_BASE
  /\ heap_end' = HEAP_BASE
  /\ UNCHANGED <<vars, at, aligned, pa, allocs>>

\* The entry of kmalloc, up to the test of the heap's virtual range.
kmalloc(size) ==
  /\ at = "idle" /\ bump_ptr # 0
  /\ aligned' = AlignUp(size)
  /\ at' = IF bump_ptr + AlignUp(size) > HEAP_BASE + HEAP_MAX_SIZE THEN "panic" ELSE "loop"
  /\ UNCHANGED <<vars, bump_ptr, heap_end, pa, allocs>>

\* The loop goes on: a frame from the PMM, for the page at heap_end.
GrowFrame ==
  /\ at = "loop" /\ ~Backed
  /\ alloc_frame
  /\ pa' = PMM!FirstFit(free)
  /\ at' = "frame"
  /\ UNCHANGED <<bump_ptr, heap_end, aligned, allocs>>

\* Fault: kmalloc waits for a frame.
GrowPanic_Wait == at = "loop" /\ ~Backed /\ free = {} /\ UNCHANGED heapVars

\* No frame left: panic, which never returns.
GrowPanic ==
  /\ at = "loop" /\ ~Backed /\ free = {}
  /\ at' = "panic"
  /\ UNCHANGED <<vars, bump_ptr, heap_end, aligned, pa, allocs>>

\* Fault: the frame is mapped at the page of bump_ptr.
GrowMap_AtBump ==
  /\ at = "frame"
  /\ map(PageOf(bump_ptr), pa, 1, "normal")
  /\ at' = "map"
  /\ UNCHANGED <<bump_ptr, heap_end, aligned, pa, allocs>>

GrowMap ==
  /\ at = "frame"
  /\ map(PageOf(heap_end), pa, 1, "normal")
  /\ at' = "map"
  /\ UNCHANGED <<bump_ptr, heap_end, aligned, pa, allocs>>

\* map returns nothing, and kmalloc goes on whether or not it has mapped the
\* page: MapStep covers map's three ways out.
GrowNext ==
  /\ at = "map"
  /\ MapStep
  /\ heap_end' = heap_end + PAGE_SIZE
  /\ at' = "loop"
  /\ UNCHANGED <<bump_ptr, aligned, pa, allocs>>

Return ==
  /\ at = "loop" /\ Backed
  /\ allocs' = allocs \cup {<<bump_ptr, aligned>>}
  /\ bump_ptr' = bump_ptr + aligned
  /\ at' = "idle"
  /\ UNCHANGED <<vars, heap_end, aligned, pa>>

Kmalloc == GrowFrame \/ GrowPanic \/ GrowMap \/ GrowNext \/ Return

HeapNext == BootStep \/ kheap_init \/ (\E size \in Sizes : kmalloc(size)) \/ Kmalloc

\* kmalloc runs on the only core, and the interrupt handler that may suspend
\* it returns: the loop keeps being executed.
HeapSpec == HeapInit /\ [][HeapNext]_heapVars /\ WF_heapVars(Kmalloc)

-----------------------------------------------------------------------------
(* Properties.                                                             *)

HeapRange == HEAP_BASE .. HEAP_BASE + HEAP_MAX_SIZE

HeapTypeOK ==
  /\ bump_ptr \in HeapRange \cup {0} /\ heap_end \in HeapRange \cup {0}
  /\ heap_end = 0 <=> bump_ptr = 0
  /\ at \in {"idle", "loop", "frame", "map", "panic"}
  /\ aligned \in Nat
  /\ pa \in Frames \cup {0}
  /\ allocs \subseteq Nat \X Nat

\* Two allocations never share a byte, every one is aligned and inside the
\* heap's range, and together they are what lies below bump_ptr.
AllocationsPartitionHeap ==
  /\ \A a, b \in allocs : a[1] < b[1] => a[1] + a[2] <= b[1]
  /\ \A a, b \in allocs : a[1] = b[1] /\ a[2] # 0 /\ b[2] # 0 => a = b
  /\ \A a \in allocs : /\ a[1] % HEAP_ALIGN = 0
                       /\ HEAP_BASE <= a[1] /\ a[1] + a[2] <= bump_ptr
  /\ bump_ptr # 0 =>
       \A x \in HEAP_BASE .. bump_ptr - 1 : \E a \in allocs : x \in a[1] .. a[1] + a[2] - 1
  /\ required_end <= HEAP_BASE + HEAP_MAX_SIZE \/ at # "loop"

\* Between two calls heap_end is bump_ptr rounded up to a page: kmalloc takes
\* neither a page more nor a page less than the allocations need, and each
\* page has taken exactly one frame besides the tables.
HeapEndIsTight ==
  /\ at = "idle" /\ bump_ptr # 0 =>
       /\ heap_end % PAGE_SIZE = 0
       /\ heap_end - PAGE_SIZE < bump_ptr /\ bump_ptr <= heap_end
       /\ Cardinality(data) = PageOf(heap_end - HEAP_BASE)
  /\ at = "loop" => heap_end < required_end + PAGE_SIZE

\* The pages of the heap below an address.
HeapPages(end) == {p \in VPages : HEAP_BASE <= p * PAGE_SIZE /\ p * PAGE_SIZE < end}

\* Every address in [HEAP_BASE, bump_ptr) is backed by a frame of its own,
\* one the allocator counts as in use and no page table lives in
\* (heap_alloc.cpp:15).
HeapBacked ==
  bump_ptr # 0 =>
    /\ \A p \in HeapPages(bump_ptr) : /\ translate(p).kind = "normal"
                                      /\ translate(p).pa \in data \ Tables
    /\ \A p, q \in HeapPages(bump_ptr) : translate(p).pa = translate(q).pa => p = q

\* What HeapBacked needs: when the boot map, the heap up to a page and a frame
\* for that page fit, so do the tables of that page.  Then frames run out at
\* kmalloc's test and never inside map.  (On both boards the heap's 256 pages
\* share an L3 table, and there are frames for all of them.)
HeapTables(end) == Cardinality(TablesFor(BootPages \cup HeapPages(end)))
TablesFit ==
  \A n \in 0 .. HEAP_MAX_SIZE \div PAGE_SIZE - 1 :
    LET end == HEAP_BASE + n * PAGE_SIZE
    IN  HeapTables(end) + n + 1 <= Cardinality(Frames) =>
          HeapTables(end + PAGE_SIZE) + n + 1 <= Cardinality(Frames)

\* kmalloc comes back or panics.
KmallocEnds == (at = "loop") ~> (at \in {"idle", "panic"})
=============================================================================
