------------------------------- MODULE MCHeap -------------------------------
(* TLC instances of Heap: the boot map of MCMMU, a heap of three pages of  *)
(* 8 bytes under an L1 entry of its own.                                   *)
EXTENDS Heap

Region(base, pages, kind) == [base |-> base, pages |-> pages, kind |-> kind]

MCPPages == 0 .. 16

MCBootRegions ==
  << Region(0, 1, "normal"), Region(1, 1, "normal"), Region(2, 12, "normal"),
     Region(14, 2, "device"), Region(16, 1, "device") >>

\* Eight frames become tables of the boot map and two become tables of the
\* heap: twelve leave two frames for heap pages.  Of ten, the heap's first
\* page takes one, its L2 table the other, and none is left for its L3 table.
MCFrames     == 2 .. 13
MCFewFrames  == 2 .. 11

\* A size that fills a page, one that ends inside a page, one that spans two.
MCSizes == {0, 3, 8, 11}

MCMapRanges   == {<<32, 1>>, <<33, 1>>, <<34, 1>>}
MCUnmapRanges == {}

MCPowerOn == [i \in Indices |-> PageEntry(0, "normal")]

\* The instance with the twelve frames is one that the theorem about
\* HeapBacked is about, the one with ten is not.
ASSUME HeapFramesAssumption ==
  FramesSuffice /\ MapsElsewhere /\ (TablesFit <=> Frames = MCFrames)
=============================================================================
