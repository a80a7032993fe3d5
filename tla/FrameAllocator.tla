--------------------------- MODULE FrameAllocator ---------------------------
(***************************************************************************)
(* What the physical memory manager does for its callers: a set of frames, *)
(* first-fit allocation (include/pmm.h:82-91), and a free that ignores     *)
(* every address that is not an allocated frame.  The latter is what       *)
(* pmm.cpp:102-118 tests for; include/pmm.h:77-80 promises less, that bad  *)
(* addresses are not validated and can corrupt the bitmap.                 *)
(* The bitmap of PMM.tla is shown to implement this specification, and     *)
(* MMU.tla and Heap.tla are composed with its operators instead of with    *)
(* the bitmap.                                                             *)
(***************************************************************************)
EXTENDS Integers, FiniteSetsExt

CONSTANT Frames   \* physical base addresses of the managed frames, none of them 0

VARIABLES
  up,     \* has pmm_init run?
  free,   \* the frames alloc_frame may still hand out
  ret     \* result of the last alloc_frame call (0: out of memory)

vars == <<up, free, ret>>

-----------------------------------------------------------------------------
(* The allocator as operators on a set of free frames.                     *)

\* alloc_frame's result: the lowest free frame, or 0 when none is left.
FirstFit(avail) == IF avail = {} THEN 0 ELSE Min(avail)

\* The free frames after a free_frame(addr), of any address: what is no frame
\* passes none of pmm.cpp's tests.
Released(avail, addr) == avail \cup ({addr} \cap Frames)

-----------------------------------------------------------------------------
Init == up = FALSE /\ free = {} /\ ret = 0

Start == up = FALSE /\ up' = TRUE /\ free' = Frames /\ UNCHANGED ret

Alloc ==
  /\ ret' = FirstFit(free)
  /\ free' = free \ {FirstFit(free)}
  /\ UNCHANGED up

Free(addr) ==
  /\ free' = IF up THEN Released(free, addr) ELSE free
  /\ UNCHANGED <<up, ret>>

Next == Start \/ Alloc \/ \E addr \in Frames : Free(addr)

Spec == Init /\ [][Next]_vars
=============================================================================
