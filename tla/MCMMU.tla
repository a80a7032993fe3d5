------------------------------- MODULE MCMMU --------------------------------
(* TLC instances of MMU: tables of 4 descriptors, 64 virtual pages.  Page 0 *)
(* is low RAM, page 1 the kernel image and the bitmap, pages 2..13 the     *)
(* frames of the PMM, and the local devices at page 16 are, as on the Pi 3, *)
(* under another L1 entry than the rest.                                   *)
EXTENDS MMU

Region(base, pages, kind) == [base |-> base, pages |-> pages, kind |-> kind]

MCFrames == 2 .. 13
MCPPages == 0 .. 16

\* As in mmu_pi3.cpp: low RAM, kernel and bitmap, the managed frames, the
\* devices, which start inside the managed frames, and the local devices.
MCBootRegions ==
  << Region(0, 1, "normal"), Region(1, 1, "normal"), Region(2, 12, "normal"),
     Region(13, 3, "device"), Region(16, 1, "device") >>

\* Pages 17..19 share the L3 table of page 16, pages 20..27 its L2 table, and
\* pages 32.. have no table when the MMU is switched on.
MCMapRanges ==
  {<<17, 2>>, <<18, 1>>, <<22, 1>>, <<23, 2>>, <<32, 1>>}

\* No unmap empties an L3 table: pages 17 and 18 share theirs with page 16,
\* which stays, and nothing is ever mapped at pages 19, 20 and 33.
MCUnmapRanges == {<<17, 2>>, <<18, 1>>, <<19, 2>>, <<33, 1>>}

\* An unmap that empties the L3 table of pages 20..23.
MCEmptyingRanges == {<<22, 1>>}

\* The instance is one that the theorems are about, except with the unmap that
\* empties a table.
ASSUME BootMapAssumption == FramesSuffice /\ MapsElsewhere
ASSUME UnmapAssumption == UnmapsHarmless <=> UnmapRanges # MCEmptyingRanges

MCPowerOn == [i \in Indices |-> PageEntry(0, "normal")]
=============================================================================
