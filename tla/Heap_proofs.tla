---------------------------- MODULE Heap_proofs -----------------------------
(***************************************************************************)
(* Proofs about Heap.tla.  The properties of the run are not inductive one *)
(* by one: that kmalloc's loop stops at the right page rests on what the   *)
(* entry of kmalloc has tested, on heap_end being a page end, and on       *)
(* frames that are free not being in use.  What the heap's pages are       *)
(* mapped to rests on MMU_proofs.tla.                                      *)
(***************************************************************************)
EXTENDS Heap, MMU_proofs

\* The frames: no frame is free and in use, and nothing is in use at first.
FramesInv ==
  /\ free \subseteq Frames
  /\ free \cap data = {}
  /\ IsFiniteSet(data)
  /\ phase = "off" => data = {}

Limit == HEAP_BASE + HEAP_MAX_SIZE

\* The pointers: between the frames of the pages below heap_end and the call
\* in progress.
PointersInv ==
  /\ at \in {"idle", "loop", "frame", "map", "panic"}
  /\ aligned \in Nat /\ aligned % HEAP_ALIGN = 0
  /\ pa \in Frames \cup {0}
  /\ bump_ptr = 0 => heap_end = 0 /\ at = "idle" /\ allocs = {} /\ data = {}
  /\ bump_ptr # 0 =>
       /\ bump_ptr \in HEAP_BASE .. Limit /\ bump_ptr % HEAP_ALIGN = 0
       /\ heap_end \in HEAP_BASE .. Limit /\ heap_end % PAGE_SIZE = 0
       /\ bump_ptr <= heap_end
       /\ Cardinality(data) = PageOf(heap_end - HEAP_BASE)
                              + (IF at \in {"frame", "map"} THEN 1 ELSE 0)
  /\ at = "idle" /\ bump_ptr # 0 => heap_end < bump_ptr + PAGE_SIZE
  /\ at \in {"loop", "frame", "map"} =>
       /\ required_end <= Limit
       /\ heap_end < required_end + PAGE_SIZE
  /\ at \in {"frame", "map"} => heap_end < required_end

\* The allocations so far: what AllocationsPartitionHeap says of them.
AllocsInv ==
  /\ allocs \subseteq Nat \X Nat
  /\ \A a, b \in allocs : a[1] < b[1] => a[1] + a[2] <= b[1]
  /\ \A a, b \in allocs : a[1] = b[1] /\ a[2] # 0 /\ b[2] # 0 => a = b
  /\ \A a \in allocs : /\ a[1] % HEAP_ALIGN = 0
                       /\ HEAP_BASE <= a[1] /\ a[1] + a[2] <= bump_ptr
  /\ bump_ptr # 0 =>
       \A x \in HEAP_BASE .. bump_ptr - 1 : \E a \in allocs : x \in a[1] .. a[1] + a[2] - 1

HInv == FramesInv /\ PointersInv /\ AllocsInv

-----------------------------------------------------------------------------
(* What the steps of the page tables do to the frames.                     *)

\* The constants, as the leaves below use them.
LEMMA HeapConstants ==
  /\ PAGE_SIZE \in Nat \ {0} /\ HEAP_ALIGN \in Nat \ {0}
  /\ HEAP_BASE \in Nat \ {0} /\ HEAP_MAX_SIZE \in Nat /\ Limit \in Nat \ {0}
  /\ PAGE_SIZE % HEAP_ALIGN = 0 /\ HEAP_BASE % PAGE_SIZE = 0
  /\ HEAP_BASE % HEAP_ALIGN = 0 /\ Limit % PAGE_SIZE = 0
  /\ Frames \subseteq Nat \ {0} /\ Sizes \subseteq Nat
<1>1. /\ PAGE_SIZE \in Nat \ {0} /\ HEAP_ALIGN \in Nat \ {0}
      /\ HEAP_BASE \in Nat \ {0} /\ HEAP_MAX_SIZE \in Nat
      /\ PAGE_SIZE % HEAP_ALIGN = 0
      /\ HEAP_BASE % PAGE_SIZE = 0 /\ HEAP_MAX_SIZE % PAGE_SIZE = 0
      /\ Frames \subseteq Nat \ {0} /\ Sizes \subseteq Nat
  BY HeapAssumption, Constants
<1>2. HEAP_BASE \in Int /\ HEAP_MAX_SIZE \in Int
  BY <1>1
<1>3. HEAP_BASE % HEAP_ALIGN = 0
  BY ONLY <1>1, <1>2, MultipleOfMultiple, Zenon
<1>4. Limit \in Nat \ {0}
  BY <1>1 DEF Limit
<1>5. Limit % PAGE_SIZE = 0
  BY <1>1, <1>2, SumOfMultiples, Zenon DEF Limit
<1> QED
  BY <1>1, <1>3, <1>4, <1>5

\* Creating a table takes frames and gives none back.
LEMMA TablesTakeFrames ==
  ASSUME NEW m, NEW avail, NEW table, NEW index
  PROVE  _get_or_alloc_table(m, avail, table, index).free \subseteq avail
BY DEF _get_or_alloc_table

\* A step of map, and each step of mmu_init, leaves the frames in use alone.
LEMMA MapStepFrames ==
  ASSUME MapStep
  PROVE  free' \subseteq free /\ UNCHANGED <<data, phase>>
<1>1. \A va : L3Of(va).free \subseteq free
  BY TablesTakeFrames DEF L3Of, L2Of
<1>2. CASE MapPage
  BY <1>1, <1>2 DEF MapPage
<1>3. CASE MapNoL2
  BY <1>3 DEF MapNoL2
<1>4. CASE MapNoL3
  BY <1>1, <1>4 DEF MapNoL3
<1> QED
  BY <1>2, <1>3, <1>4 DEF MapStep

\* AlignUp gives a multiple of HEAP_ALIGN.
LEMMA AlignUpMultiple ==
  ASSUME NEW size \in Nat
  PROVE  AlignUp(size) \in Nat /\ AlignUp(size) % HEAP_ALIGN = 0
<1> DEFINE q == (size + HEAP_ALIGN - 1) \div HEAP_ALIGN
<1>1. q \in Nat /\ HEAP_ALIGN \in Nat \ {0}
  BY HeapConstants
<1>2. AlignUp(size) = q * HEAP_ALIGN + 0 /\ 0 \in 0 .. HEAP_ALIGN - 1
  BY <1>1 DEF AlignUp
<1> HIDE DEF q
<1>3. q \in Int
  BY <1>1
<1>4. (q * HEAP_ALIGN + 0) % HEAP_ALIGN = 0
  BY <1>1, <1>2, <1>3, DivModUnique, Zenon
<1> QED
  BY <1>1, <1>2, <1>4

\* One page more is one frame more.
LEMMA NextPage ==
  ASSUME NEW n \in Nat
  PROVE  PageOf(n) \in Nat /\ PageOf(n + PAGE_SIZE) = PageOf(n) + 1
<1> DEFINE q == n \div PAGE_SIZE
           r == n % PAGE_SIZE
<1>0. PAGE_SIZE \in Nat \ {0} /\ n \in Int
  BY HeapConstants
<1>1. q \in Nat /\ r \in 0 .. PAGE_SIZE - 1 /\ n = q * PAGE_SIZE + r
  BY <1>0, DivMod, Zenon
<1> HIDE DEF q, r
<1>2. n + PAGE_SIZE = (q + 1) * PAGE_SIZE + r /\ q + 1 \in Int
  BY <1>0, <1>1
<1>3. ((q + 1) * PAGE_SIZE + r) \div PAGE_SIZE = q + 1
  BY <1>0, <1>1, <1>2, DivModUnique, Zenon
<1> QED
  BY <1>1, <1>2, <1>3 DEF PageOf, q

-----------------------------------------------------------------------------
(* HInv holds at first and is kept by every action.                        *)

LEMMA InitHInv == HeapInit => HInv
<1> SUFFICES ASSUME HeapInit PROVE HInv
  OBVIOUS
<1>1. FramesInv
  BY FS_EmptySet DEF HeapInit, Init, FramesInv
<1>2. 0 % HEAP_ALIGN = 0
  BY HeapConstants
<1>3. PointersInv
  BY <1>2 DEF HeapInit, Init, PointersInv
<1>4. AllocsInv
  BY DEF HeapInit, AllocsInv
<1> QED
  BY <1>1, <1>3, <1>4 DEF HInv

\* Before kheap_init, and in it.
LEMMA BootHInv ==
  ASSUME HInv, BootStep \/ kheap_init
  PROVE  HInv'
<1>1. CASE BootStep
  <2>1. UNCHANGED <<bumpVars, data>> /\ FramesInv'
    <3>1. CASE mmu_init
      BY <1>1, <3>1 DEF BootStep, mmu_init, HInv, FramesInv
    <3>2. CASE MapBootRegion \/ EnableMMU
      BY <1>1, <3>2 DEF BootStep, MapBootRegion, EnableMMU, HInv, FramesInv
    <3>3. CASE phase = "mapping" /\ MapStep
      BY <1>1, <3>3, MapStepFrames DEF BootStep, HInv, FramesInv
    <3> QED
      BY <1>1, <3>1, <3>2, <3>3 DEF BootStep
  <2>2. PointersInv' /\ AllocsInv'
    BY <2>1 DEF HInv, PointersInv, AllocsInv, bumpVars, required_end
  <2> QED
    BY <2>1, <2>2 DEF HInv
<1>2. CASE kheap_init
  <2>1. FramesInv'
    BY <1>2 DEF kheap_init, vars, HInv, FramesInv
  <2>2. /\ bump_ptr = 0 /\ at = "idle" /\ allocs = {} /\ data = {}
        /\ UNCHANGED <<at, aligned, pa, allocs, data>>
        /\ bump_ptr' = HEAP_BASE /\ heap_end' = HEAP_BASE
    BY <1>2 DEF kheap_init, vars, HInv, PointersInv
  <2>3. Cardinality(data') = PageOf(heap_end' - HEAP_BASE)
    BY <2>2, HeapConstants, FS_EmptySet DEF PageOf
  <2>4. PointersInv'
    <3>1. HEAP_BASE \in HEAP_BASE .. Limit /\ HEAP_BASE < HEAP_BASE + PAGE_SIZE
      BY HeapConstants DEF Limit
    <3>2. /\ PageOf(heap_end' - HEAP_BASE) \in Int
          /\ Cardinality(data') = PageOf(heap_end' - HEAP_BASE) + 0
      BY <2>2, <2>3, HeapConstants DEF PageOf
    <3> QED
      BY <2>2, <3>1, <3>2, HeapConstants DEF HInv, PointersInv
  <2>5. AllocsInv'
    BY <2>2, HeapConstants DEF AllocsInv
  <2> QED
    BY <2>1, <2>4, <2>5 DEF HInv
<1> QED
  BY <1>1, <1>2

\* The entry of kmalloc, and its two ways into the panic.
LEMMA EntryHInv ==
  ASSUME HInv, (\E size \in Sizes : kmalloc(size)) \/ GrowPanic
  PROVE  HInv'
<1>1. UNCHANGED <<vars, bump_ptr, heap_end, pa, allocs>>
  BY DEF kmalloc, GrowPanic
<1>2. FramesInv' /\ AllocsInv'
  BY <1>1 DEF vars, HInv, FramesInv, AllocsInv
<1>3. CASE GrowPanic
  <2>1. /\ at = "loop" /\ at' = "panic"
        /\ UNCHANGED <<data, bump_ptr, heap_end, aligned, pa, allocs>>
    BY <1>3 DEF GrowPanic, vars
  <2>2. PointersInv'
    BY <2>1 DEF HInv, PointersInv
  <2> QED
    BY <1>2, <2>2 DEF HInv
<1>4. ASSUME NEW size \in Sizes, kmalloc(size) PROVE PointersInv'
  <2>1. /\ at = "idle" /\ bump_ptr # 0
        /\ aligned' = AlignUp(size)
        /\ at' = IF bump_ptr + AlignUp(size) > Limit THEN "panic" ELSE "loop"
        /\ UNCHANGED <<bump_ptr, heap_end, pa, allocs, data>>
    BY <1>4 DEF kmalloc, vars, Limit
  <2>2. AlignUp(size) \in Nat /\ AlignUp(size) % HEAP_ALIGN = 0
    BY HeapConstants, AlignUpMultiple
  <2>3. /\ bump_ptr \in HEAP_BASE .. Limit /\ heap_end \in HEAP_BASE .. Limit
        /\ heap_end < bump_ptr + PAGE_SIZE
    BY <2>1 DEF HInv, PointersInv
  <2>4. at' = "loop" => required_end' <= Limit /\ heap_end' < required_end' + PAGE_SIZE
    BY <2>1, <2>2, <2>3, HeapConstants DEF required_end
  <2> QED
    BY <2>1, <2>2, <2>4 DEF HInv, PointersInv
<1> QED
  BY <1>2, <1>3, <1>4, <1>1 DEF HInv, GrowPanic, PointersInv, vars, required_end

\* A frame for the page at heap_end: one frame more than there are pages.
LEMMA GrowFrameHInv ==
  ASSUME HInv, GrowFrame
  PROVE  HInv'
<1> DEFINE f == PMM!FirstFit(free)
<1>1. /\ ~(heap_end >= required_end)
      /\ at = "loop" /\ at' = "frame" /\ pa' = f
      /\ data' = data \cup {f} /\ free' = free \ {f} /\ free # {}
      /\ UNCHANGED <<phase, bump_ptr, heap_end, aligned, allocs>> /\ phase = "on"
  BY DEF GrowFrame, alloc_frame, Backed
<1>2. f \in free /\ f \in Frames /\ f \notin data
  BY <1>1, FirstFitIsFree DEF HInv, FramesInv
<1>3. /\ IsFiniteSet(data')
      /\ Cardinality(data') = Cardinality(data) + 1
  BY <1>1, <1>2, FS_AddElement DEF HInv, FramesInv
<1>4. FramesInv'
  BY <1>1, <1>2, <1>3 DEF HInv, FramesInv
<1>5. PointersInv'
  <2>1. bump_ptr # 0
    BY <1>1 DEF HInv, PointersInv
  <2>2. bump_ptr \in Nat /\ heap_end \in Nat /\ aligned \in Nat
    BY <2>1, HeapConstants DEF HInv, PointersInv
  <2>3. heap_end < required_end
    BY <1>1, <2>2 DEF required_end
  <2>4. /\ required_end' = required_end
        /\ Cardinality(data) = PageOf(heap_end - HEAP_BASE) + 0
        /\ Cardinality(data) \in Nat
    BY <1>1, <2>1, FS_CardinalityType DEF HInv, PointersInv, FramesInv, required_end
  <2>5. Cardinality(data') = PageOf(heap_end' - HEAP_BASE) + 1
    <3>1. PageOf(heap_end - HEAP_BASE) \in Nat
      BY <2>2, <2>1, HeapConstants, NextPage DEF HInv, PointersInv
    <3> QED
      BY <1>1, <1>3, <2>4, <3>1
  <2> QED
    BY <1>1, <1>2, <2>1, <2>3, <2>4, <2>5 DEF HInv, PointersInv
<1>6. AllocsInv'
  BY <1>1 DEF HInv, AllocsInv
<1> QED
  BY <1>4, <1>5, <1>6 DEF HInv

\* The call of map begins.
LEMMA GrowMapHInv ==
  ASSUME HInv, GrowMap
  PROVE  HInv'
<1>1. /\ at = "frame" /\ at' = "map"
      /\ UNCHANGED <<phase, free, data, bump_ptr, heap_end, aligned, pa, allocs>>
  BY DEF GrowMap, map
<1>2. FramesInv' /\ AllocsInv'
  BY <1>1 DEF HInv, FramesInv, AllocsInv
<1>3. PointersInv'
  BY <1>1 DEF HInv, PointersInv, required_end
<1> QED
  BY <1>2, <1>3 DEF HInv

\* heap_end advances over the page, mapped or not: page ends that differ are a
\* page apart, so it stays within the range that kmalloc's entry has tested.
LEMMA GrowNextHInv ==
  ASSUME HInv, GrowNext
  PROVE  HInv'
<1>1. /\ at = "map" /\ at' = "loop" /\ heap_end' = heap_end + PAGE_SIZE
      /\ free' \subseteq free
      /\ UNCHANGED <<phase, data, bump_ptr, aligned, pa, allocs>>
  BY MapStepFrames DEF GrowNext
<1>2. FramesInv' /\ AllocsInv'
  BY <1>1 DEF HInv, FramesInv, AllocsInv
<1>3. /\ bump_ptr # 0
      /\ bump_ptr \in Nat /\ heap_end \in Nat /\ aligned \in Nat
      /\ heap_end >= HEAP_BASE /\ bump_ptr <= heap_end
      /\ heap_end < required_end /\ required_end <= Limit
      /\ heap_end % PAGE_SIZE = 0
  BY <1>1, HeapConstants DEF HInv, PointersInv
<1>4. heap_end + PAGE_SIZE <= Limit
  <2>1. heap_end \in Int /\ Limit \in Int /\ heap_end < Limit /\ Limit % PAGE_SIZE = 0
    BY <1>3, HeapConstants DEF required_end
  <2> QED
    BY <1>3, <2>1, HeapConstants, MultiplesApart, Zenon
<1>5. heap_end' % PAGE_SIZE = 0
  <2>1. PAGE_SIZE % PAGE_SIZE = 0 /\ PAGE_SIZE \in Int /\ heap_end \in Int
    BY <1>3, HeapConstants
  <2> QED
    BY <1>1, <1>3, <2>1, HeapConstants, SumOfMultiples, Zenon
<1>6. Cardinality(data') = PageOf(heap_end' - HEAP_BASE)
  <2>1. Cardinality(data) = PageOf(heap_end - HEAP_BASE) + 1
    BY <1>1, <1>3 DEF HInv, PointersInv
  <2>2. heap_end - HEAP_BASE \in Nat
    BY <1>3, HeapConstants
  <2>3. heap_end' - HEAP_BASE = (heap_end - HEAP_BASE) + PAGE_SIZE
    BY <1>1, <1>3, HeapConstants
  <2> QED
    BY <1>1, <2>1, <2>2, <2>3, NextPage
<1>7. Cardinality(data') \in Nat
  BY <1>2, FS_CardinalityType DEF FramesInv
<1>8. /\ heap_end' \in HEAP_BASE .. Limit /\ bump_ptr' <= heap_end'
      /\ heap_end' < required_end' + PAGE_SIZE /\ required_end' <= Limit
  BY <1>1, <1>3, <1>4, HeapConstants DEF required_end
<1>9. PointersInv'
  BY <1>1, <1>3, <1>5, <1>6, <1>7, <1>8 DEF HInv, PointersInv
<1> QED
  BY <1>2, <1>9 DEF HInv

\* kmalloc returns: the new allocation begins where the others end.
LEMMA ReturnHInv ==
  ASSUME HInv, Return
  PROVE  HInv'
<1> DEFINE new == <<bump_ptr, aligned>>
<1>1. /\ at = "loop" /\ at' = "idle" /\ heap_end >= required_end
      /\ allocs' = allocs \cup {new} /\ bump_ptr' = required_end
      /\ UNCHANGED <<phase, free, data, heap_end, aligned, pa>>
  BY DEF Return, Backed, vars, required_end
<1>2. /\ bump_ptr # 0
      /\ bump_ptr \in Nat /\ bump_ptr >= HEAP_BASE /\ bump_ptr % HEAP_ALIGN = 0
      /\ aligned \in Nat /\ aligned % HEAP_ALIGN = 0
      /\ heap_end \in Nat
      /\ required_end <= Limit /\ heap_end < required_end + PAGE_SIZE
  BY <1>1, HeapConstants DEF HInv, PointersInv
<1>3. required_end = bump_ptr + aligned /\ required_end \in Nat
  BY <1>2 DEF required_end
<1>4. required_end % HEAP_ALIGN = 0
  <2>1. bump_ptr \in Int /\ aligned \in Int
    BY <1>2
  <2> QED
    BY <1>2, <1>3, <2>1, HeapConstants, SumOfMultiples, Zenon
<1>5. FramesInv'
  BY <1>1 DEF HInv, FramesInv
<1>6. PointersInv'
  <2>1. /\ required_end \in HEAP_BASE .. Limit /\ bump_ptr' # 0
        /\ bump_ptr' <= heap_end' /\ heap_end' < bump_ptr' + PAGE_SIZE
    BY <1>1, <1>2, <1>3, HeapConstants
  <2> QED
    BY <1>1, <1>2, <1>4, <2>1 DEF HInv, PointersInv
<1>7. AllocsInv'
  <2>1. new \in Nat \X Nat /\ new[1] = bump_ptr /\ new[2] = aligned
    BY <1>2
  <2>2. ASSUME NEW a \in allocs
        PROVE  /\ a \in Nat \X Nat /\ a[1] \in Nat /\ a[2] \in Nat
               /\ a[1] + a[2] <= bump_ptr /\ a[1] % HEAP_ALIGN = 0 /\ HEAP_BASE <= a[1]
    BY DEF HInv, AllocsInv
  <2>3. allocs' \subseteq Nat \X Nat
    BY <1>1, <2>1, <2>2
  <2>4. ASSUME NEW a \in allocs', NEW b \in allocs', a[1] < b[1]
        PROVE  a[1] + a[2] <= b[1]
    <3>1. CASE b = new
      BY <1>1, <1>2, <2>1, <2>2, <2>4, <3>1
    <3>2. CASE a = new /\ b \in allocs
      BY <1>2, <2>1, <2>2, <2>4, <3>2
    <3>3. CASE a \in allocs /\ b \in allocs
      BY <2>4, <3>3 DEF HInv, AllocsInv
    <3> QED
      BY <1>1, <3>1, <3>2, <3>3
  <2>5. ASSUME NEW a \in allocs', NEW b \in allocs', a[1] = b[1], a[2] # 0, b[2] # 0
        PROVE  a = b
    <3>1. ASSUME NEW c \in allocs, c[1] = bump_ptr, c[2] # 0 PROVE FALSE
      BY <1>2, <2>2, <3>1
    <3>2. CASE a \in allocs /\ b \in allocs
      BY <2>5, <3>2 DEF HInv, AllocsInv
    <3> QED
      BY <1>1, <2>1, <2>5, <3>1, <3>2
  <2>6. ASSUME NEW a \in allocs'
        PROVE  a[1] % HEAP_ALIGN = 0 /\ HEAP_BASE <= a[1] /\ a[1] + a[2] <= bump_ptr'
    <3>1. CASE a \in allocs
      BY <1>1, <1>2, <1>3, <2>2, <3>1
    <3>2. CASE a = new
      BY <1>1, <1>2, <1>3, <2>1, <3>2
    <3> QED
      BY <1>1, <3>1, <3>2
  <2>7. ASSUME NEW x \in HEAP_BASE .. bump_ptr' - 1
        PROVE  \E a \in allocs' : x \in a[1] .. a[1] + a[2] - 1
    <3>1. CASE x < bump_ptr
      <4>1. x \in HEAP_BASE .. bump_ptr - 1
        BY <1>2, <3>1, HeapConstants
      <4>2. PICK a \in allocs : x \in a[1] .. a[1] + a[2] - 1
        BY <1>2, <4>1 DEF HInv, AllocsInv
      <4> QED
        BY <1>1, <4>2
    <3>2. CASE x >= bump_ptr
      <4>1. x \in new[1] .. new[1] + new[2] - 1
        BY <1>1, <1>2, <1>3, <2>1, <3>2, HeapConstants
      <4> QED
        BY <1>1, <4>1
    <3> QED
      BY <1>2, <3>1, <3>2, HeapConstants
  <2> QED
    BY <2>3, <2>4, <2>5, <2>6, <2>7 DEF AllocsInv
<1> QED
  BY <1>5, <1>6, <1>7 DEF HInv

LEMMA StepHInv == HInv /\ [HeapNext]_heapVars => HInv'
<1> SUFFICES ASSUME HInv, [HeapNext]_heapVars PROVE HInv'
  OBVIOUS
<1>1. CASE BootStep \/ kheap_init
  BY <1>1, BootHInv
<1>2. CASE (\E size \in Sizes : kmalloc(size)) \/ GrowPanic
  BY <1>2, EntryHInv
<1>3. CASE GrowFrame
  BY <1>3, GrowFrameHInv
<1>4. CASE GrowMap
  BY <1>4, GrowMapHInv
<1>5. CASE GrowNext
  BY <1>5, GrowNextHInv
<1>6. CASE Return
  BY <1>6, ReturnHInv
<1>7. CASE UNCHANGED heapVars
  <2>1. UNCHANGED <<phase, free, data, bump_ptr, heap_end, at, aligned, pa, allocs>>
    BY <1>7 DEF heapVars, vars, bumpVars
  <2> QED
    BY <2>1 DEF HInv, FramesInv, PointersInv, AllocsInv, required_end
<1> QED
  BY <1>1, <1>2, <1>3, <1>4, <1>5, <1>6, <1>7 DEF HeapNext, Kmalloc

\* For every page size, alignment, heap range, set of frames and sequence of
\* sizes, whatever map answers: the parts of the invariant hold throughout.
THEOREM HeapInvariant == HeapSpec => []HInv
<1> QED
  BY InitHInv, StepHInv, PTL DEF HeapSpec

\* kmalloc's pointers stay in the heap's range.
THEOREM HeapTypeCorrect == HeapSpec => []HeapTypeOK
<1>1. HInv => HeapTypeOK
  BY HeapConstants DEF HInv, PointersInv, AllocsInv, HeapTypeOK, HeapRange, Limit
<1> QED
  BY <1>1, HeapInvariant, PTL

\* No two callers of kmalloc ever share a byte, and what has been handed out
\* is exactly what lies below bump_ptr.
THEOREM AllocationsNeverOverlap == HeapSpec => []AllocationsPartitionHeap
<1>1. HInv => AllocationsPartitionHeap
  BY DEF HInv, PointersInv, AllocsInv, AllocationsPartitionHeap, Limit
<1> QED
  BY <1>1, HeapInvariant, PTL

\* kmalloc takes exactly the pages that its allocations need, and one frame
\* for each, also when map fails.
THEOREM HeapTakesNoPageTooMany == HeapSpec => []HeapEndIsTight
<1>1. HInv => HeapEndIsTight
  <2> SUFFICES ASSUME HInv PROVE HeapEndIsTight
    OBVIOUS
  <2>1. ASSUME at = "loop" PROVE heap_end < required_end + PAGE_SIZE
    BY <2>1 DEF HInv, PointersInv
  <2>2. ASSUME at = "idle", bump_ptr # 0
        PROVE  /\ heap_end % PAGE_SIZE = 0
               /\ heap_end - PAGE_SIZE < bump_ptr /\ bump_ptr <= heap_end
               /\ Cardinality(data) = PageOf(heap_end - HEAP_BASE)
    <3>1. /\ heap_end \in Nat /\ bump_ptr \in Nat /\ heap_end >= HEAP_BASE
          /\ heap_end % PAGE_SIZE = 0 /\ bump_ptr <= heap_end
          /\ heap_end < bump_ptr + PAGE_SIZE
          /\ Cardinality(data) = PageOf(heap_end - HEAP_BASE) + 0
      BY <2>2, HeapConstants DEF HInv, PointersInv
    <3>2. PageOf(heap_end - HEAP_BASE) \in Nat
      BY <3>1, HeapConstants, NextPage
    <3> QED
      BY <3>1, <3>2, HeapConstants
  <2> QED
    BY <2>1, <2>2 DEF HeapEndIsTight
<1> QED
  BY <1>1, HeapInvariant, PTL

-----------------------------------------------------------------------------
(* The pages of the heap.                                                  *)

PagesMax == HEAP_MAX_SIZE \div PAGE_SIZE

LEMMA TimesStrict ==
  ASSUME NEW p \in Nat, NEW q \in Nat
  PROVE  p * PAGE_SIZE < q * PAGE_SIZE <=> p < q
<1>1. PAGE_SIZE \in Nat \ {0}
  BY HeapConstants
<1>2. p * PAGE_SIZE = PAGE_SIZE * p /\ q * PAGE_SIZE = PAGE_SIZE * q
  BY <1>1
<1>3. ASSUME q <= p PROVE PAGE_SIZE * q <= PAGE_SIZE * p
  BY <1>1, <1>3, TimesMonotone
<1>4. ASSUME p < q PROVE PAGE_SIZE * p < PAGE_SIZE * q
  <2>1. PAGE_SIZE * (p + 1) <= PAGE_SIZE * q
    BY <1>1, <1>4, TimesMonotone
  <2> QED
    BY <1>1, <2>1
<1>5. PAGE_SIZE * p \in Nat /\ PAGE_SIZE * q \in Nat
  BY <1>1
<1> QED
  BY <1>2, <1>3, <1>4, <1>5

\* A page end, counted from zero and from the heap's first page.
LEMMA PageEnd ==
  ASSUME NEW end \in HEAP_BASE .. Limit, end % PAGE_SIZE = 0
  PROVE  LET n == PageOf(end - HEAP_BASE)
         IN  /\ n \in Nat /\ PageOf(end) \in Nat /\ end = PageOf(end) * PAGE_SIZE
             /\ end = HEAP_BASE + n * PAGE_SIZE /\ PageOf(end) = PageOf(HEAP_BASE) + n
             /\ end < Limit => n \in 0 .. PagesMax - 1
<1> DEFINE d == PAGE_SIZE
           q == PageOf(end)
           b == PageOf(HEAP_BASE)
<1>1. /\ d \in Nat \ {0} /\ end \in Nat /\ HEAP_BASE \in Nat /\ HEAP_MAX_SIZE \in Nat
      /\ HEAP_BASE % d = 0 /\ HEAP_MAX_SIZE % d = 0 /\ end % d = 0
  BY HeapConstants, HeapAssumption
<1>2. q \in Nat /\ end = q * d
  <2>1. end \in Int
    BY <1>1
  <2>2. /\ end \div d \in Int /\ end = (end \div d) * d + (end % d)
        /\ end \in Nat => end \div d \in Nat
    BY <1>1, <2>1, DivMod, Zenon
  <2> QED
    BY <1>1, <2>2 DEF PageOf
<1>3. b \in Nat /\ HEAP_BASE = b * d
  BY <1>1, DivMod DEF PageOf
<1>4. PagesMax \in Nat /\ HEAP_MAX_SIZE = PagesMax * d
  BY <1>1, DivMod DEF PagesMax
<1> HIDE DEF d, q, b
<1>5. ~(q * d < b * d)
  BY <1>1, <1>2, <1>3
<1>6. b <= q
  BY <1>2, <1>3, <1>5, TimesStrict DEF d
<1>7. q - b \in Nat /\ 0 \in 0 .. d - 1 /\ end - HEAP_BASE = (q - b) * d + 0
  BY <1>1, <1>2, <1>3, <1>6
<1>8. ((q - b) * d + 0) \div d = q - b
  <2>1. q - b \in Int
    BY <1>7
  <2> QED
    BY <1>1, <1>7, <2>1, DivModUnique, Zenon
<1>9. PageOf(end - HEAP_BASE) = q - b
  BY <1>7, <1>8 DEF PageOf, d
<1>10. ASSUME end < Limit PROVE q - b < PagesMax
  <2>1. q * d < (b + PagesMax) * d /\ b + PagesMax \in Nat
    BY <1>1, <1>2, <1>3, <1>4, <1>10 DEF Limit
  <2>2. q < b + PagesMax
    BY <1>2, <2>1, TimesStrict DEF d
  <2> QED
    BY <1>2, <1>3, <1>4, <2>2
<1>11. end = HEAP_BASE + (q - b) * d /\ q = b + (q - b)
  BY <1>1, <1>2, <1>3
<1> QED
  BY <1>2, <1>3, <1>4, <1>7, <1>9, <1>10, <1>11 DEF d, q, b

\* The page at a page end is the heap's next one.
LEMMA NextHeapPage ==
  ASSUME NEW end \in HEAP_BASE .. Limit, end % PAGE_SIZE = 0, end < Limit
  PROVE  /\ <<PageOf(end), 1>> \in MapRanges /\ PageOf(end) \in VPages
         /\ HeapPages(end + PAGE_SIZE) = HeapPages(end) \cup {PageOf(end)}
         /\ PageOf(end) \notin HeapPages(end)
<1> DEFINE q == PageOf(end)
           n == PageOf(end - HEAP_BASE)
<1>1. /\ q \in Nat /\ end = q * PAGE_SIZE /\ q = PageOf(HEAP_BASE) + n
      /\ n \in 0 .. PagesMax - 1
  BY PageEnd
<1>2. /\ PAGE_SIZE \in Nat \ {0} /\ HEAP_BASE \in Nat /\ HEAP_BASE <= end
  BY HeapConstants
<1> HIDE DEF q, n
<1>3. <<q, 1>> \in MapRanges
  BY <1>1, HeapAssumption DEF PagesMax
<1>4. q \in VPages
  <2>1. q .. q + 1 - 1 \subseteq VPages
    BY <1>3, RangesAssumption
  <2> QED
    BY <1>1, <2>1
<1>5. end + PAGE_SIZE = (q + 1) * PAGE_SIZE
  BY <1>1, <1>2
<1>6. ASSUME NEW p \in VPages
      PROVE  /\ p * PAGE_SIZE < end <=> p < q
             /\ p * PAGE_SIZE < end + PAGE_SIZE <=> p < q + 1
  <2>1. p \in Nat
    BY PagesAreNat
  <2> QED
    BY <1>1, <1>5, <2>1, TimesStrict
<1>7. ASSUME NEW p \in VPages PROVE p < q + 1 <=> p < q \/ p = q
  BY <1>1, PagesAreNat
<1> QED
  BY <1>1, <1>2, <1>3, <1>4, <1>6, <1>7 DEF HeapPages, q

-----------------------------------------------------------------------------
(* The heap over the page tables.                                          *)

\* The frames that pages of the heap are mapped to: not the one in hand.
Backing == IF at \in {"frame", "map"} THEN data \ {pa} ELSE data

\* The calls of map that kmalloc makes.
CallsInv ==
  /\ phase # "on" => bump_ptr = 0
  /\ at \in {"frame", "map"} => pa \in data
  /\ phase = "on" =>
       call = IF at = "map" THEN MapCall(PageOf(heap_end), pa, 1, "normal") ELSE Idle

\* What they have mapped, and the tables that are in use.
BackedInv ==
  phase = "on" =>
    /\ Named(mem, l1_table, TablesFor(BootPages \cup HeapPages(heap_end)))
    /\ \A p \in HeapPages(heap_end) :
         /\ WalkOf(mem, l1_table, p).kind = "normal"
         /\ WalkOf(mem, l1_table, p).pa \in Backing
    /\ \A p, q \in HeapPages(heap_end) :
         WalkOf(mem, l1_table, p).pa = WalkOf(mem, l1_table, q).pa => p = q

\* Where kmalloc is when it has a frame to map.
LEMMA Growing ==
  ASSUME HInv, CallsInv, at \in {"frame", "map"}
  PROVE  /\ phase = "on" /\ pa \in data /\ bump_ptr # 0
         /\ heap_end \in HEAP_BASE .. Limit /\ heap_end % PAGE_SIZE = 0 /\ heap_end < Limit
         /\ Cardinality(data) = PageOf(heap_end - HEAP_BASE) + 1
<1>1. bump_ptr # 0 /\ heap_end < required_end /\ required_end <= Limit
  BY DEF HInv, PointersInv
<1>2. /\ heap_end \in HEAP_BASE .. Limit /\ heap_end % PAGE_SIZE = 0
      /\ Cardinality(data) = PageOf(heap_end - HEAP_BASE) + 1
  BY <1>1 DEF HInv, PointersInv
<1>3. required_end \in Int /\ Limit \in Int /\ heap_end \in Int
  BY <1>1, <1>2, HeapConstants DEF HInv, PointersInv, required_end
<1> QED
  BY <1>1, <1>2, <1>3 DEF CallsInv

\* Every step of the kernel is one of the page tables or leaves them alone.
LEMMA StepsOfTables ==
  ASSUME HInv, CallsInv, [HeapNext]_heapVars
  PROVE  [Next]_vars
<1>1. CASE BootStep
  BY <1>1 DEF BootStep, Next
<1>2. CASE kheap_init \/ (\E size \in Sizes : kmalloc(size)) \/ GrowPanic \/ Return
  BY <1>2 DEF kheap_init, kmalloc, GrowPanic, Return
<1>3. CASE GrowFrame
  BY <1>3 DEF GrowFrame, Next
<1>4. CASE GrowMap
  <2>1. at = "frame" /\ map(PageOf(heap_end), pa, 1, "normal")
    BY <1>4 DEF GrowMap
  <2>2. pa \in data /\ <<PageOf(heap_end), 1>> \in MapRanges
    BY <2>1, Growing, NextHeapPage
  <2> DEFINE r == <<PageOf(heap_end), 1>>
  <2>3. r \in MapRanges /\ map(r[1], pa, r[2], "normal")
    BY <2>1, <2>2
  <2> QED
    BY <2>2, <2>3, Zenon DEF Next
<1>5. CASE GrowNext
  BY <1>5 DEF GrowNext, Next
<1>6. CASE UNCHANGED heapVars
  BY <1>6 DEF heapVars
<1> QED
  BY <1>1, <1>2, <1>3, <1>4, <1>5, <1>6 DEF HeapNext, Kmalloc

LEMMA InitCalls == HeapInit => CallsInv
BY DEF HeapInit, Init, CallsInv

LEMMA StepCalls ==
  ASSUME HInv, CallsInv, [HeapNext]_heapVars
  PROVE  CallsInv'
<1>1. CASE BootStep
  <2>1. UNCHANGED bumpVars /\ phase # "on"
    BY <1>1 DEF BootStep, mmu_init, MapBootRegion, EnableMMU
  <2>2. bump_ptr = 0 /\ at = "idle"
    BY <2>1 DEF CallsInv, HInv, PointersInv
  <2>3. phase' = "on" => call' = Idle
    BY <1>1, <2>1, MapStepFrames DEF BootStep, mmu_init, MapBootRegion, EnableMMU
  <2> QED
    BY <2>1, <2>2, <2>3 DEF bumpVars, CallsInv
<1>2. CASE kheap_init
  <2>1. at = "idle" /\ phase = "on" /\ UNCHANGED <<phase, call, at>>
    BY <1>2 DEF kheap_init, vars, HInv, PointersInv
  <2> QED
    BY <2>1 DEF CallsInv
<1>3. CASE (\E size \in Sizes : kmalloc(size)) \/ GrowPanic \/ Return
  <2>1. /\ at \in {"idle", "loop"} /\ at' \in {"idle", "loop", "panic"} /\ bump_ptr # 0
        /\ UNCHANGED <<phase, call>>
    BY <1>3 DEF kmalloc, GrowPanic, Return, vars, HInv, PointersInv
  <2> QED
    BY <2>1 DEF CallsInv
<1>4. CASE GrowFrame
  BY <1>4 DEF GrowFrame, alloc_frame, CallsInv
<1>5. CASE GrowMap
  BY <1>5 DEF GrowMap, map, CallsInv
<1>6. CASE GrowNext
  <2>1. /\ at = "map" /\ at' = "loop" /\ UNCHANGED <<phase, bump_ptr, pa>> /\ MapStep
    BY <1>6, MapStepFrames DEF GrowNext
  <2>2. phase = "on" /\ call.left = 1
    BY <2>1, Growing DEF CallsInv, MapCall
  <2>3. call' = Idle
    BY <2>1, <2>2 DEF MapStep, MapPage, MapNoL2, MapNoL3, Advance
  <2> QED
    BY <2>1, <2>2, <2>3 DEF CallsInv
<1>7. CASE UNCHANGED heapVars
  BY <1>7 DEF heapVars, vars, bumpVars, CallsInv
<1> QED
  BY <1>1, <1>2, <1>3, <1>4, <1>5, <1>6, <1>7 DEF HeapNext, Kmalloc

\* map finds its tables for the page of heap_end: what the boot map and the
\* heap so far have taken is counted by their pages, and TablesFit says the rest.
LEMMA GrowthFindsTables ==
  ASSUME HInv, CallsInv, IInv, BootInv, StayInv, BackedInv, FramesSuffice, TablesFit,
         at = "map"
  PROVE  /\ L2Of(call.va).child # 0 /\ L3Of(call.va).child # 0
         /\ Named(L3Of(call.va).mem, l1_table,
                  TablesFor(BootPages \cup HeapPages(heap_end + PAGE_SIZE)))
<1> DEFINE va == PageOf(heap_end)
           n  == PageOf(heap_end - HEAP_BASE)
           now == BootPages \cup HeapPages(heap_end)
           more == BootPages \cup HeapPages(heap_end + PAGE_SIZE)
<1>1. /\ phase = "on" /\ pa \in data
      /\ heap_end \in HEAP_BASE .. Limit /\ heap_end % PAGE_SIZE = 0 /\ heap_end < Limit
      /\ Cardinality(data) = n + 1
  BY Growing
<1>2. call = MapCall(va, pa, 1, "normal") /\ Named(mem, l1_table, TablesFor(now))
  BY <1>1 DEF CallsInv, BackedInv
<1>3. /\ n \in 0 .. PagesMax - 1 /\ heap_end = HEAP_BASE + n * PAGE_SIZE
  BY <1>1, PageEnd
<1>4. HeapPages(heap_end + PAGE_SIZE) = HeapPages(heap_end) \cup {va} /\ va \in VPages
  BY <1>1, NextHeapPage
<1>5. more = now \cup {va} /\ now \subseteq VPages /\ more \subseteq VPages
  BY <1>4 DEF BootPages, HeapPages
<1>6. Cardinality(Frames \ data) = Cardinality(Frames) - (n + 1) /\ IsFiniteSet(Frames)
  <2>1. Frames \cap data = data /\ IsFiniteSet(Frames)
    BY DEF IInv, StateInv, FramesSuffice
  <2>2. Cardinality(Frames \ data) = Cardinality(Frames) - Cardinality(Frames \cap data)
    BY <2>1, FS_Difference
  <2> QED
    BY <1>1, <2>1, <2>2
<1>7. Cardinality(TablesFor(now)) <= Cardinality(Frames \ data)
  <2>1. PICK T2, T3 : Shape(mem, l1_table, T2, T3, free, data)
    BY <1>1 DEF IInv, ShapeInv, Started
  <2>2. ASSUME NEW p \in now PROVE Valid(WalkOf(mem, l1_table, p))
    <3>1. CASE p \in BootPages
      <4>1. WalkOf(mem, l1_table, p) = PageEntry(p, LastRegion(p).kind)
        BY <1>1, <3>1 DEF StayInv
      <4>2. PICK k \in Kinds : LastRegion(p).kind = k
        BY <3>1, LastCovers, RegionsOf
      <4>3. Valid(PageEntry(p, k))
        BY DEF Valid, PageEntry, Kinds
      <4> QED
        BY <4>1, <4>2, <4>3
    <3>2. CASE p \in HeapPages(heap_end)
      BY <1>1, <3>2 DEF BackedInv, Valid
    <3> QED
      BY <3>1, <3>2
  <2>3. now \subseteq Nat
    BY <1>5, PagesAreNat
  <2> HIDE DEF now
  <2> QED
    BY <1>6, <2>1, <2>2, <2>3, TablesTaken
<1>8. IsFiniteSet(TablesFor(now)) /\ IsFiniteSet(TablesFor(more))
  <2>1. IsFiniteSet(now) /\ IsFiniteSet(more)
    <3>1. IsFiniteSet(VPages)
      <4>1. ENTRIES * ENTRIES * ENTRIES - 1 \in Int
        BY Constants
      <4> QED
        BY <4>1, FS_Interval DEF VPages
    <3> QED
      BY <1>5, <3>1, FS_Subset
  <2> HIDE DEF now, more
  <2> QED
    BY <2>1, TablesForFinite
<1>9. Cardinality(TablesFor(more)) <= Cardinality(Frames \ data)
  <2> DEFINE c == Cardinality(TablesFor(now))
             d == Cardinality(TablesFor(more))
             f == Cardinality(Frames)
  <2>1. c + n + 1 <= f => d + n + 1 <= f
    <3>1. n \in 0 .. HEAP_MAX_SIZE \div PAGE_SIZE - 1
      BY <1>3 DEF PagesMax
    <3>2. HeapTables(HEAP_BASE + n * PAGE_SIZE) = c
      BY <1>3 DEF HeapTables
    <3>3. HeapTables(HEAP_BASE + n * PAGE_SIZE + PAGE_SIZE) = d
      BY <1>3 DEF HeapTables
    <3> HIDE DEF c, d, f, n
    <3> QED
      BY <3>1, <3>2, <3>3 DEF TablesFit, f
  <2>2. c \in Nat /\ d \in Nat /\ f \in Nat /\ n \in Nat
    BY <1>3, <1>6, <1>8, FS_CardinalityType
  <2> HIDE DEF n
  <2>3. c <= f - (n + 1)
    BY <1>6, <1>7
  <2> HIDE DEF c, d, f
  <2>4. d <= f - (n + 1)
    BY <2>1, <2>2, <2>3
  <2> QED
    BY <1>6, <2>4 DEF d, f
<1>10. /\ << >> \in TablesFor(more) /\ <<L1_INDEX(va)>> \in TablesFor(more)
       /\ <<L1_INDEX(va), L2_INDEX(va)>> \in TablesFor(more)
       /\ TablesFor(now) \subseteq TablesFor(more)
  BY <1>5 DEF TablesFor
<1>11. call.op = "map" /\ call.va = va
  BY <1>2 DEF MapCall
<1> HIDE DEF now, more, va
<1>12. Named(mem, l1_table, TablesFor(more))
  BY <1>2, <1>10, NamedMore
<1>13. /\ L2Of(call.va).child # 0 /\ L3Of(call.va).child # 0
       /\ Named(L3Of(call.va).mem, l1_table, TablesFor(more))
  BY <1>8, <1>9, <1>10, <1>11, <1>12, StepNamed
<1> QED
  BY <1>13 DEF more

-----------------------------------------------------------------------------
(* BackedInv is kept by every action.                                      *)

LEMMA NoPages == HeapPages(0) = {} /\ HeapPages(HEAP_BASE) = {}
<1>1. ASSUME NEW p \in VPages
      PROVE  ~(p * PAGE_SIZE < 0) /\ ~(HEAP_BASE <= p * PAGE_SIZE /\ p * PAGE_SIZE < HEAP_BASE)
  <2>1. p * PAGE_SIZE \in Nat /\ HEAP_BASE \in Nat
    BY HeapConstants, PagesAreNat
  <2> HIDE DEF VPages
  <2> QED
    BY <2>1
<1> QED
  BY <1>1 DEF HeapPages

LEMMA BootBacked ==
  ASSUME HInv, CallsInv, IInv, BootInv, BackedInv, BootStep \/ kheap_init
  PROVE  BackedInv'
<1>1. CASE BootStep
  <2>1. UNCHANGED bumpVars /\ phase # "on"
    BY <1>1 DEF BootStep, mmu_init, MapBootRegion, EnableMMU
  <2>2. bump_ptr = 0 /\ heap_end = 0 /\ at = "idle"
    BY <2>1 DEF CallsInv, HInv, PointersInv
  <2>3. CASE EnableMMU
    <3>1. phase = "mapping" /\ UNCHANGED <<mem, l1_table>>
      BY <2>3 DEF EnableMMU
    <3>2. Named(mem', l1_table', TablesFor(BootPages \cup HeapPages(heap_end')))
      <4>1. BootPages \cup HeapPages(heap_end') = BootPages
        BY <2>1, <2>2, NoPages DEF bumpVars
      <4>2. Named(mem', l1_table', Names)
        BY <3>1 DEF BootInv
      <4> QED
        BY <4>1, <4>2 DEF Names
    <3>3. HeapPages(heap_end') = {}
      BY <2>1, <2>2, NoPages DEF bumpVars
    <3> QED
      BY <2>1, <2>2, <3>1, <3>2, <3>3 DEF bumpVars, BackedInv
  <2>4. CASE ~EnableMMU
    <3>1. phase' # "on"
      BY <1>1, <2>4, MapStepFrames DEF BootStep, mmu_init, MapBootRegion
    <3> QED
      BY <2>1, <2>2, <3>1 DEF bumpVars, BackedInv
  <2> QED
    BY <2>3, <2>4
<1>2. CASE kheap_init
  <2>1. /\ phase = "on" /\ bump_ptr = 0 /\ heap_end' = HEAP_BASE
        /\ UNCHANGED <<phase, call, mem, l1_table, at, pa>>
    BY <1>2 DEF kheap_init, vars
  <2>2. heap_end = 0 /\ at = "idle"
    BY <2>1 DEF HInv, PointersInv
  <2>3. HeapPages(heap_end) = {} /\ HeapPages(heap_end') = {}
    BY <2>1, <2>2, NoPages
  <2> QED
    BY <2>1, <2>2, <2>3 DEF BackedInv
<1> QED
  BY <1>1, <1>2

\* Steps of kmalloc that leave the page tables alone, or only begin a map.
LEMMA EntryBacked ==
  ASSUME HInv, BackedInv,
         \/ (\E size \in Sizes : kmalloc(size)) \/ GrowPanic \/ Return
         \/ GrowFrame \/ GrowMap
  PROVE  BackedInv'
<1>1. CASE (\E size \in Sizes : kmalloc(size)) \/ GrowPanic \/ Return
  <2>1. /\ at \in {"idle", "loop"} /\ at' \in {"idle", "loop", "panic"} /\ bump_ptr # 0
        /\ UNCHANGED <<phase, call, mem, l1_table, data, heap_end, pa>>
    BY <1>1 DEF kmalloc, GrowPanic, Return, vars, HInv, PointersInv
  <2>2. Backing' = Backing
    BY <2>1 DEF Backing
  <2> QED
    BY <2>1, <2>2 DEF BackedInv
<1>2. CASE GrowFrame
  <2> DEFINE f == PMM!FirstFit(free)
  <2>1. /\ at = "loop" /\ at' = "frame" /\ pa' = f /\ data' = data \cup {f} /\ free # {}
        /\ phase = "on" /\ UNCHANGED <<phase, call, mem, l1_table, heap_end, bump_ptr>>
    BY <1>2 DEF GrowFrame, alloc_frame
  <2>2. f \in free /\ f \notin data
    BY <2>1, FirstFitIsFree DEF HInv, FramesInv
  <2> HIDE DEF f
  <2>3. Backing' = Backing
    BY <2>1, <2>2 DEF Backing
  <2> QED
    BY <2>1, <2>3 DEF BackedInv
<1>3. CASE GrowMap
  <2>1. /\ at = "frame" /\ at' = "map" /\ phase = "on"
        /\ call' = MapCall(PageOf(heap_end), pa, 1, "normal")
        /\ UNCHANGED <<phase, mem, l1_table, data, heap_end, bump_ptr, pa>>
    BY <1>3 DEF GrowMap, map
  <2>2. Backing' = Backing
    BY <2>1 DEF Backing
  <2> QED
    BY <2>1, <2>2 DEF BackedInv
<1> QED
  BY <1>1, <1>2, <1>3

\* The page of heap_end gets the frame in hand, which backed no page yet.
LEMMA GrowNextBacked ==
  ASSUME HInv, CallsInv, IInv, BootInv, StayInv, BackedInv, FramesSuffice, TablesFit,
         GrowNext
  PROVE  BackedInv'
<1> DEFINE va == PageOf(heap_end)
<1>1. /\ at = "map" /\ at' = "loop" /\ heap_end' = heap_end + PAGE_SIZE
      /\ UNCHANGED <<bump_ptr, pa>> /\ MapStep
  BY DEF GrowNext
<1>2. /\ phase = "on" /\ pa \in data /\ bump_ptr # 0
      /\ heap_end \in HEAP_BASE .. Limit /\ heap_end % PAGE_SIZE = 0 /\ heap_end < Limit
  BY <1>1, Growing
<1>3. MapPage
  BY <1>1, GrowthFindsTables DEF MapStep, MapNoL2, MapNoL3
<1>4. call = MapCall(va, pa, 1, "normal")
  BY <1>1, <1>2 DEF CallsInv
<1>5. call.left = 1 /\ call.va = va /\ call.pa = pa /\ call.kind = "normal"
  BY <1>4 DEF MapCall
<1>6. call' = Idle /\ UNCHANGED <<phase, l1_table, data>>
  BY <1>3, <1>5 DEF MapPage, Advance
<1>7. Named(mem', l1_table, TablesFor(BootPages \cup HeapPages(heap_end')))
  <2> DEFINE ids == TablesFor(BootPages \cup HeapPages(heap_end'))
  <2>1. Named(L3Of(call.va).mem, l1_table, ids)
    BY <1>1, GrowthFindsTables
  <2> HIDE DEF ids
  <2>2. Named(mem', l1_table, ids)
    BY <1>3, <2>1, PageNamed
  <2> QED
    BY <2>2 DEF ids
<1>8. /\ WalkOf(mem', l1_table, va) = PageEntry(pa, "normal")
      /\ \A p \in VPages \ {va} : WalkOf(mem', l1_table, p) = WalkOf(mem, l1_table, p)
  BY <1>3, <1>5, PageWritten
<1>9. HeapPages(heap_end') = HeapPages(heap_end) \cup {va} /\ va \notin HeapPages(heap_end)
  BY <1>1, <1>2, NextHeapPage
<1>10. HeapPages(heap_end) \subseteq VPages
  BY DEF HeapPages
<1>11. Backing = data \ {pa} /\ Backing' = data
  BY <1>1, <1>6 DEF Backing
<1> HIDE DEF va
<1>12. /\ WalkOf(mem', l1_table, va).kind = "normal" /\ WalkOf(mem', l1_table, va).pa = pa
       /\ \A p \in HeapPages(heap_end) :
            /\ WalkOf(mem', l1_table, p) = WalkOf(mem, l1_table, p)
            /\ WalkOf(mem, l1_table, p).kind = "normal"
            /\ WalkOf(mem, l1_table, p).pa \in data \ {pa}
  <2>1. PageEntry(pa, "normal").kind = "normal" /\ PageEntry(pa, "normal").pa = pa
    BY DEF PageEntry
  <2>2. ASSUME NEW p \in HeapPages(heap_end)
        PROVE  /\ WalkOf(mem', l1_table, p) = WalkOf(mem, l1_table, p)
               /\ WalkOf(mem, l1_table, p).kind = "normal"
               /\ WalkOf(mem, l1_table, p).pa \in data \ {pa}
    BY <1>2, <1>8, <1>9, <1>10, <1>11 DEF BackedInv
  <2> QED
    BY <1>8, <2>1, <2>2
<1>13. \A p, q \in HeapPages(heap_end) :
         WalkOf(mem, l1_table, p).pa = WalkOf(mem, l1_table, q).pa => p = q
  BY <1>2 DEF BackedInv
<1>14. \A p \in HeapPages(heap_end') :
         WalkOf(mem', l1_table, p).kind = "normal" /\ WalkOf(mem', l1_table, p).pa \in Backing'
  BY <1>2, <1>9, <1>11, <1>12
<1>15. ASSUME NEW p \in HeapPages(heap_end'), NEW q \in HeapPages(heap_end'),
              WalkOf(mem', l1_table, p).pa = WalkOf(mem', l1_table, q).pa
       PROVE  p = q
  <2>1. CASE p \in HeapPages(heap_end) /\ q \in HeapPages(heap_end)
    BY <1>12, <1>13, <1>15, <2>1
  <2>2. CASE p = va \/ q = va
    BY <1>9, <1>12, <1>15, <2>2
  <2> QED
    BY <1>9, <2>1, <2>2
<1> QED
  BY <1>1, <1>2, <1>6, <1>7, <1>14, <1>15 DEF BackedInv

LEMMA StepBacked ==
  ASSUME FramesSuffice, TablesFit, HInv, CallsInv, IInv, BootInv, StayInv, BackedInv,
         [HeapNext]_heapVars
  PROVE  BackedInv'
<1>1. CASE BootStep \/ kheap_init
  BY <1>1, BootBacked
<1>2. CASE (\E size \in Sizes : kmalloc(size)) \/ GrowPanic \/ Return \/ GrowFrame \/ GrowMap
  BY <1>2, EntryBacked
<1>3. CASE GrowNext
  BY <1>3, GrowNextBacked
<1>4. CASE UNCHANGED heapVars
  BY <1>4 DEF heapVars, vars, bumpVars, BackedInv, Backing
<1> QED
  BY <1>1, <1>2, <1>3, <1>4 DEF HeapNext, Kmalloc

-----------------------------------------------------------------------------
(* The theorems about the heap over the page tables.                       *)

\* Seen from the page tables, the kernel is the one MMU describes: mmu_init,
\* then maps of one page of the heap at a time, of frames that alloc_frame has
\* handed out.  What MMU_proofs says of that kernel holds under the heap.
THEOREM HeapCallsMap == HeapSpec => Spec
<1>1. HeapInit => Init
  BY DEF HeapInit
<1>2. HInv /\ CallsInv /\ [HeapNext]_heapVars => CallsInv'
  BY StepCalls
<1>3. HInv /\ CallsInv /\ [HeapNext]_heapVars => [Next]_vars
  BY StepsOfTables
<1> QED
  BY <1>1, <1>2, <1>3, InitCalls, HeapInvariant, PTL DEF HeapSpec, Spec

LEMMA NothingUnmapped == UnmapsKeepTables
BY HeapAssumption DEF UnmapsKeepTables, PagesOf

LEMMA BackedAlways ==
  ASSUME FramesSuffice, MapsElsewhere, TablesFit
  PROVE  HeapSpec => [](HInv /\ CallsInv /\ IInv /\ StayInv /\ BackedInv)
<1> DEFINE Tables4 == IInv /\ BootInv /\ StayInv /\ BackedInv
<1>1. HeapInit => Tables4
  BY InitInv, InitBoot DEF HeapInit, Init, BackedInv
<1>2. HInv /\ CallsInv /\ Tables4 /\ [HeapNext]_heapVars => Tables4'
  <2> SUFFICES ASSUME HInv, CallsInv, Tables4, [HeapNext]_heapVars PROVE Tables4'
    OBVIOUS
  <2>1. [Next]_vars /\ UnmapRanges = {}
    BY StepsOfTables, HeapAssumption
  <2>2. IInv'
    BY <2>1, StepInv, NoUnmapRuns DEF IInv
  <2>3. BootInv' /\ StayInv'
    BY <2>1, StepBoot, NothingUnmapped
  <2>4. BackedInv'
    BY StepBacked
  <2> QED
    BY <2>2, <2>3, <2>4
<1>3. HInv /\ CallsInv /\ [HeapNext]_heapVars => CallsInv'
  BY StepCalls
<1>4. Tables4 => IInv /\ StayInv /\ BackedInv
  OBVIOUS
<1> HIDE DEF Tables4
<1> QED
  BY <1>1, <1>2, <1>3, <1>4, InitCalls, HeapInvariant, PTL DEF HeapSpec

\* If the tables of a page fit whenever kmalloc finds a frame for it, every
\* address that kmalloc has handed out is mapped, to a frame that is no other
\* page's and no table, although map reports nothing to kmalloc.
THEOREM HeapStaysBacked ==
  ASSUME FramesSuffice, MapsElsewhere, TablesFit
  PROVE  HeapSpec => []HeapBacked
<1>1. HInv /\ CallsInv /\ IInv /\ StayInv /\ BackedInv => HeapBacked
  <2> SUFFICES ASSUME HInv, CallsInv, IInv, BackedInv, bump_ptr # 0 PROVE HeapBacked
    BY DEF HeapBacked
  <2>1. phase = "on" /\ l1_table # 0
    BY DEF CallsInv, IInv, StateInv
  <2>2. \A p : translate(p) = WalkOf(mem, l1_table, p)
    BY <2>1 DEF translate, WalkOf
  <2>3. Tables \cap data = {}
    BY <2>1, IInvFrames DEF FrameAccounting, Started
  <2>4. HeapPages(bump_ptr) \subseteq HeapPages(heap_end)
    <3>1. /\ bump_ptr <= heap_end /\ bump_ptr \in Nat /\ heap_end \in Nat
      BY HeapConstants DEF HInv, PointersInv
    <3>2. \A p \in VPages : p * PAGE_SIZE \in Nat
      BY HeapConstants, PagesAreNat
    <3> QED
      BY <3>1, <3>2 DEF HeapPages
  <2>5. Backing \subseteq data
    BY DEF Backing
  <2> QED
    BY <2>1, <2>2, <2>3, <2>4, <2>5 DEF BackedInv, HeapBacked
<1> QED
  BY <1>1, BackedAlways, PTL

\* The kernel stays where mmu_init mapped it, whatever kmalloc maps.
THEOREM KernelStaysUnderHeap ==
  ASSUME FramesSuffice, MapsElsewhere
  PROVE  HeapSpec => []KernelStaysMapped
BY HeapCallsMap, BootMapStays, NothingUnmapped, PTL
=============================================================================
