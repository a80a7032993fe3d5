-------------------------------- MODULE MMU ---------------------------------
(***************************************************************************)
(* Page tables: src/mmu/mmu.cpp and the boot sequence of mmu_init in       *)
(* src/mmu/mmu_pi3.cpp and src/mmu/mmu_pi5.cpp.                            *)
(*                                                                         *)
(* Addresses are page numbers.  A three-level tree of tables of ENTRIES    *)
(* descriptors (512 in the code) lives in frames of the frame allocator.   *)
(* A call of map or unmap is a sequence of steps, one per page, because    *)
(* the hardware walks the tables while the loop runs.  Translation caching *)
(* and barriers are not in this module.                                    *)
(***************************************************************************)
EXTENDS FiniteSetsExt, Integers, Sequences

CONSTANTS
  ENTRIES,        \* descriptors per table
  Frames,         \* page numbers of the frames the PMM manages
  PPages,         \* page numbers of physical memory and of the devices
  BootRegions,    \* the regions mmu_init maps: <<[base, pages, kind], ...>>
  MapRanges,      \* <<va, pages>> the kernel maps once the MMU is on
  UnmapRanges,    \* <<va, pages>> the kernel unmaps once the MMU is on
  PowerOn         \* what a frame holds before it is written

VARIABLES
  phase,      \* "off" -> "mapping" (inside mmu_init) -> "on"
  booted,     \* how many of the boot regions have been passed to map
  l1_table,   \* frame of the L1 table (0 before mmu_init)
  mem,        \* frame -> index -> descriptor
  free,       \* frames alloc_frame may hand out
  data,       \* frames handed out to callers other than the page tables
  call        \* the map or unmap in progress

vars == <<phase, booted, l1_table, mem, free, data, call>>

Kinds   == {"normal", "device"}      \* PTE_NORMAL_RW, PTE_DEVICE_RW
Indices == 0 .. ENTRIES - 1
VPages  == 0 .. ENTRIES * ENTRIES * ENTRIES - 1

\* PHYS_MEM_END leaves at least one frame: mmu_init's out-of-memory loop is
\* not modelled.
ASSUME MMUAssumption ==
  /\ ENTRIES \in Nat \ {0}
  /\ Frames # {}
  /\ Frames \subseteq PPages \ {0}
  /\ PPages \subseteq Nat

\* What map and unmap are called with: a region of the board, frames at virtual
\* pages, or pages, that the tables have room for.
ASSUME RangesAssumption ==
  /\ \A n \in 1 .. Len(BootRegions) :
       LET region == BootRegions[n]
       IN  /\ region.base \in Nat /\ region.pages \in Nat \ {0} /\ region.kind \in Kinds
           /\ region.base .. region.base + region.pages - 1 \subseteq VPages \cap PPages
  /\ \A r \in MapRanges :
       /\ r[1] \in Nat /\ r[2] \in Nat \ {0} /\ r[1] .. r[1] + r[2] - 1 \subseteq VPages
       /\ \A f \in Frames : f .. f + r[2] - 1 \subseteq PPages
  /\ \A r \in UnmapRanges :
       r[1] \in Nat /\ r[2] \in Nat \ {0} /\ r[1] .. r[1] + r[2] - 1 \subseteq VPages

PMM == INSTANCE FrameAllocator WITH up <- phase # "off", free <- free, ret <- 0

\* A valid bit and an address; leaves also carry the memory type.
Invalid          == [kind |-> "invalid", pa |-> 0]
TableEntry(pa)   == [kind |-> "table", pa |-> pa]
PageEntry(pa, k) == [kind |-> k, pa |-> pa]
Valid(entry)     == entry.kind # "invalid"

EmptyTable == [i \in Indices |-> Invalid]

_table_is_empty(table) == table = EmptyTable

L1_INDEX(va) == (va \div (ENTRIES * ENTRIES)) % ENTRIES

L2_INDEX(va) == (va \div ENTRIES) % ENTRIES

\* Fault: the shift of the L2 index.
L3_INDEX_Shift(va) == (va \div ENTRIES) % ENTRIES

L3_INDEX(va) == va % ENTRIES

\* The walk of translate, which is also the walk the hardware makes.
translate(va) ==
  LET l1_desc == mem[l1_table][L1_INDEX(va)]
      l2_desc == mem[l1_desc.pa][L2_INDEX(va)]
  IN  IF l1_table # 0 /\ Valid(l1_desc) /\ Valid(l2_desc)
      THEN mem[l2_desc.pa][L3_INDEX(va)]
      ELSE Invalid

-----------------------------------------------------------------------------
(* Calls in progress.                                                      *)

Idle == [op |-> "none", va |-> 0, pa |-> 0, left |-> 0, kind |-> "invalid"]

MapCall(va, pa, pages, kind) ==
  [op |-> "map", va |-> va, pa |-> pa, left |-> pages, kind |-> kind]

UnmapCall(va, pages) ==
  [op |-> "unmap", va |-> va, pa |-> 0, left |-> pages, kind |-> "invalid"]

\* Fault: the loop runs while one page too many is left.
Advance_OffByOne(c) ==
  IF c.left = 0 THEN Idle
  ELSE [c EXCEPT !.va = @ + 1, !.pa = IF c.op = "map" THEN @ + 1 ELSE @, !.left = @ - 1]

\* The next iteration of the loop, or the end of the call.
Advance(c) ==
  IF c.left = 1 THEN Idle
  ELSE [c EXCEPT !.va = @ + 1, !.pa = IF c.op = "map" THEN @ + 1 ELSE @, !.left = @ - 1]

-----------------------------------------------------------------------------
Init ==
  /\ phase = "off"
  /\ booted = 0
  /\ l1_table = 0
  /\ mem = [f \in Frames |-> PowerOn]
  /\ free = {}
  /\ data = {}
  /\ call = Idle

\* pmm_init, then the L1 table in the first frame, zeroed.
mmu_init ==
  LET l1 == PMM!FirstFit(Frames)
  IN  /\ phase = "off"
      /\ phase' = "mapping"
      /\ l1_table' = l1
      /\ mem' = [mem EXCEPT ![l1] = EmptyTable]
      /\ free' = Frames \ {l1}
      /\ UNCHANGED <<booted, data, call>>

\* Fault: the devices are mapped before the RAM that covers them.
MapBootRegion_Reversed ==
  LET region == BootRegions[Len(BootRegions) - booted]
  IN  /\ phase = "mapping" /\ call = Idle /\ booted < Len(BootRegions)
      /\ call' = MapCall(region.base, region.base, region.pages, region.kind)
      /\ booted' = booted + 1
      /\ UNCHANGED <<phase, l1_table, mem, free, data>>

\* mmu_init's sequence of map calls.
MapBootRegion ==
  LET region == BootRegions[booted + 1]
  IN  /\ phase = "mapping" /\ call = Idle /\ booted < Len(BootRegions)
      /\ call' = MapCall(region.base, region.base, region.pages, region.kind)
      /\ booted' = booted + 1
      /\ UNCHANGED <<phase, l1_table, mem, free, data>>

\* SCTLR_EL1.M, after the last map has returned.
EnableMMU ==
  /\ phase = "mapping" /\ call = Idle /\ booted = Len(BootRegions)
  /\ phase' = "on"
  /\ UNCHANGED <<booted, l1_table, mem, free, data, call>>

\* A frame for a caller of the PMM (kmalloc backs the heap with them).
alloc_frame ==
  /\ phase = "on" /\ call = Idle /\ free # {}
  /\ data' = data \cup {PMM!FirstFit(free)}
  /\ free' = free \ {PMM!FirstFit(free)}
  /\ UNCHANGED <<phase, booted, l1_table, mem, call>>

\* Fault: the new table is linked without being zeroed.
_get_or_alloc_table_NotZeroed(m, avail, table, index) ==
  LET entry == m[table][index]
      child == PMM!FirstFit(avail)
  IN  IF Valid(entry) THEN [mem |-> m, free |-> avail, child |-> entry.pa]
      ELSE IF child = 0 THEN [mem |-> m, free |-> avail, child |-> 0]
      ELSE [mem   |-> [m EXCEPT ![table][index] = TableEntry(child)],
            free  |-> avail \ {child},
            child |-> child]

\* The child of table[index], created and linked if it is missing; child = 0
\* when no frame is left.  Zeroing (mmu.cpp:101-103) and linking (105-106) are
\* one step, like the rest of an iteration of map: what a walk between the two
\* stores would find is not modelled, only that a table is zeroed at all.
_get_or_alloc_table(m, avail, table, index) ==
  LET entry == m[table][index]
      child == PMM!FirstFit(avail)
  IN  IF Valid(entry) THEN [mem |-> m, free |-> avail, child |-> entry.pa]
      ELSE IF child = 0 THEN [mem |-> m, free |-> avail, child |-> 0]
      ELSE [mem   |-> [m EXCEPT ![child] = EmptyTable,
                                ![table][index] = TableEntry(child)],
            free  |-> avail \ {child},
            child |-> child]

map(va, pa, pages, kind) ==
  /\ phase = "on" /\ call = Idle
  /\ call' = MapCall(va, pa, pages, kind)
  /\ UNCHANGED <<phase, booted, l1_table, mem, free, data>>

L2Of(va) == _get_or_alloc_table(mem, free, l1_table, L1_INDEX(va))
L3Of(va) == _get_or_alloc_table(L2Of(va).mem, L2Of(va).free, L2Of(va).child, L2_INDEX(va))

\* One iteration of map's loop.
MapPage ==
  LET l3 == L3Of(call.va)
  IN  /\ call.op = "map" /\ L2Of(call.va).child # 0 /\ l3.child # 0
      /\ mem' = [l3.mem EXCEPT ![l3.child][L3_INDEX(call.va)] =
                                 PageEntry(call.pa, call.kind)]
      /\ free' = l3.free
      /\ call' = Advance(call)
      /\ UNCHANGED <<phase, booted, l1_table, data>>

\* No frame for the L2 table: map returns.
MapNoL2 ==
  /\ call.op = "map" /\ L2Of(call.va).child = 0
  /\ call' = Idle
  /\ UNCHANGED <<phase, booted, l1_table, mem, free, data>>

\* Fault: the L2 table just created is unlinked but not given back.
MapNoL3_Leak ==
  /\ call.op = "map" /\ L2Of(call.va).child # 0 /\ L3Of(call.va).child = 0
  /\ free' = L3Of(call.va).free
  /\ call' = Idle
  /\ UNCHANGED <<phase, booted, l1_table, mem, data>>

\* No frame for the L3 table: map returns, and keeps an L2 table it created.
MapNoL3 ==
  /\ call.op = "map" /\ L2Of(call.va).child # 0 /\ L3Of(call.va).child = 0
  /\ mem' = L3Of(call.va).mem
  /\ free' = L3Of(call.va).free
  /\ call' = Idle
  /\ UNCHANGED <<phase, booted, l1_table, data>>

MapStep == MapPage \/ MapNoL2 \/ MapNoL3

unmap(va, pages) ==
  /\ phase = "on" /\ call = Idle
  /\ call' = UnmapCall(va, pages)
  /\ UNCHANGED <<phase, booted, l1_table, mem, free, data>>

\* The L1 or L2 descriptor of a page is invalid: unmap returns.
UnmapReturnsEarly ==
  LET l1_desc == mem[l1_table][L1_INDEX(call.va)]
  IN  /\ call.op = "unmap"
      /\ Valid(l1_desc) => ~Valid(mem[l1_desc.pa][L2_INDEX(call.va)])
      /\ call' = Idle
      /\ UNCHANGED <<phase, booted, l1_table, mem, free, data>>

\* One iteration of unmap's loop.  An L3 table that becomes empty is freed,
\* but the descriptor the code clears before that is one of the L3 table: the
\* L2 table keeps its descriptor.
UnmapPage ==
  LET l2      == mem[l1_table][L1_INDEX(call.va)].pa
      l3      == mem[l2][L2_INDEX(call.va)].pa
      cleared == [mem EXCEPT ![l3][L3_INDEX(call.va)] = Invalid]
      freed3  == IF _table_is_empty(cleared[l3]) THEN {l3} ELSE {}
      freed2  == IF _table_is_empty(cleared[l2]) THEN {l2} ELSE {}
  IN  /\ call.op = "unmap"
      /\ Valid(mem[l1_table][L1_INDEX(call.va)]) /\ Valid(mem[l2][L2_INDEX(call.va)])
      /\ mem' = cleared
      /\ free' = free \cup ((freed3 \cup freed2) \cap Frames)
      /\ call' = Advance(call)
      /\ UNCHANGED <<phase, booted, l1_table, data>>

Next ==
  \/ mmu_init
  \/ MapBootRegion
  \/ EnableMMU
  \/ alloc_frame
  \/ \E r \in MapRanges, pa \in data : map(r[1], pa, r[2], "normal")
  \/ MapStep
  \/ \E r \in UnmapRanges : unmap(r[1], r[2])
  \/ UnmapReturnsEarly \/ UnmapPage

Spec == Init /\ [][Next]_vars

-----------------------------------------------------------------------------
(* Properties.                                                             *)

Descriptors == [kind : {"invalid", "table"} \cup Kinds, pa : PPages \cup {0}]

ASSUME PowerOnAssumption == PowerOn \in [Indices -> Descriptors]

TypeOK ==
  /\ phase \in {"off", "mapping", "on"}
  /\ booted \in 0 .. Len(BootRegions)
  /\ l1_table \in Frames \cup {0} /\ (l1_table = 0 <=> phase = "off")
  /\ mem \in [Frames -> [Indices -> Descriptors]]
  /\ free \subseteq Frames /\ data \subseteq Frames
  /\ call = Idle \/ /\ call.op \in {"map", "unmap"}
                    /\ call.va \in VPages /\ call.left \in Nat \ {0}
                    /\ call.op = "map" => call.pa \in PPages /\ call.kind \in Kinds

Started == phase # "off"

\* The valid descriptors of a set of tables, and the frames they point to.
Slots(tables)    == {s \in tables \X Indices : Valid(mem[s[1]][s[2]])}
Children(tables) == {mem[s[1]][s[2]].pa : s \in Slots(tables)}

L2Tables == Children({l1_table})
L3Tables == Children(L2Tables)
Tables   == {l1_table} \cup L2Tables \cup L3Tables

\* The tables form a tree of depth three: every valid L1 or L2 descriptor is
\* a table descriptor of a managed frame, two descriptors never share a
\* child, no table is reachable at two levels, and the descriptors of an L3
\* table are pages.  Stated of every moment the hardware may walk, so also
\* of the middle of a map or an unmap.
TableTree ==
  Started =>
    LET links == Slots({l1_table} \cup L2Tables)
    IN  /\ \A s \in links : mem[s[1]][s[2]].kind = "table"
        /\ \A s, t \in links : mem[s[1]][s[2]] = mem[t[1]][t[2]] => s = t
        /\ l1_table \notin L2Tables \cup L3Tables /\ L2Tables \cap L3Tables = {}
        /\ Tables \subseteq Frames
        /\ \A s \in Slots(L3Tables) : mem[s[1]][s[2]].kind \in Kinds

\* Every frame of the PMM is free, or one reachable table, or one caller's,
\* and never two of these: a map that runs out of frames half way leaks
\* nothing, and no table is handed to somebody else.
FrameAccounting ==
  Started => /\ free \cup Tables \cup data = Frames
             /\ free \cap (Tables \cup data) = {}
             /\ Tables \cap data = {}

\* The boot region that decides page p: the last one mapped over it.
Covers(region, p) == p \in region.base .. region.base + region.pages - 1
LastRegion(p) ==
  BootRegions[Max({n \in 1 .. Len(BootRegions) : Covers(BootRegions[n], p)})]
BootPages ==
  {p \in VPages : \E n \in 1 .. Len(BootRegions) : Covers(BootRegions[n], p)}

\* Once translation is on, every page of the boot regions stays mapped to
\* itself, devices as device memory even where the RAM region covered them
\* first, whatever is mapped and unmapped elsewhere: the kernel runs there,
\* and writes page tables through this map.
KernelStaysMapped ==
  phase = "on" => \A p \in BootPages : translate(p) = PageEntry(p, LastRegion(p).kind)

\* The tables that some pages need, each named by the indices that lead to it.
TablesFor(pages) ==
  {<< >>} \cup {<<L1_INDEX(p)>> : p \in pages} \cup {<<L1_INDEX(p), L2_INDEX(p)>> : p \in pages}

\* What the boot map needs in order to be made and to stay: frames for its
\* tables, and later maps that are of other pages.  (Both boards have 500 times
\* the frames that these tables take, and HEAP_BASE is neither RAM nor device.)
FramesSuffice ==
  IsFiniteSet(Frames) /\ Cardinality(TablesFor(BootPages)) <= Cardinality(Frames)
MapsElsewhere == \A r \in MapRanges : (r[1] .. r[1] + r[2] - 1) \cap BootPages = {}

\* Unmaps that empty no L3 table: they are of pages outside the boot map, and
\* one that may have been mapped has its table in common with a boot page.
PagesOf(ranges) == UNION {r[1] .. r[1] + r[2] - 1 : r \in ranges}
UnmapsKeepTables ==
  \A p \in PagesOf(UnmapRanges) :
    /\ p \notin BootPages
    /\ p \in PagesOf(MapRanges) =>
         \E q \in BootPages : L1_INDEX(q) = L1_INDEX(p) /\ L2_INDEX(q) = L2_INDEX(p)

\* A kernel that does not unmap, or whose unmaps empty no table.
UnmapsHarmless == UnmapRanges # {} => FramesSuffice /\ MapsElsewhere /\ UnmapsKeepTables

AS == INSTANCE AddressSpace WITH
        vm <- [p \in VPages |-> translate(p)], call <- call

\* Walking the tables gives exactly the map that the sequence of calls built:
\* a step edits the page it is for and no other page, also when it creates
\* tables, and a call that gives up leaves what it had done.
ImplementsAddressSpace == AS!Spec

-----------------------------------------------------------------------------
(* What the comments say and the code does not do.                         *)

\* mmu.cpp:155: a frame is given back only once no table points to it.
NoDescriptorToFreeFrame == Started => Tables \cap free = {}
=============================================================================
