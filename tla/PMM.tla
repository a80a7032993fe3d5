-------------------------------- MODULE PMM ---------------------------------
(***************************************************************************)
(* The physical memory manager: src/pmm/pmm.cpp, include/pmm.h.            *)
(*                                                                         *)
(* A flat bitmap placed at the page-aligned end of the kernel image tracks *)
(* every frame of [phys_mem_start, PHYS_MEM_END); a set bit is a frame in  *)
(* use.  A word of the bitmap is the set of its set bits, so `|=` is a     *)
(* union, `&= ~` a difference and __builtin_ctzll(~w) the least bit        *)
(* outside w.  The sizes that the code fixes (4096-byte pages, 64-bit      *)
(* words of 8 bytes) are constants here.                                   *)
(***************************************************************************)
EXTENDS Integers, FiniteSetsExt

CONSTANTS
  KERNEL_END,     \* __kernel_end: first byte past the kernel image
  PHYS_MEM_END,   \* first address the manager does not manage
  PAGE_SIZE,      \* bytes per frame
  WORD_BITS,      \* bits per bitmap word
  WORD_BYTES,     \* bytes per bitmap word
  Addresses       \* arguments free_frame is called with

VARIABLES
  bitmap,           \* word index -> set of the bits that are 1
  phys_mem_start,   \* address of frame 0 (0 until pmm_init)
  total_frames,     \* number of frames tracked (0 until pmm_init)
  ret,              \* result of the last alloc_frame call
  held              \* history: frames returned by alloc_frame, not freed since

vars == <<bitmap, phys_mem_start, total_frames, ret, held>>

-----------------------------------------------------------------------------
(* Geometry of the managed region, as pmm_init computes it.                *)

\* The code's (value + align - 1) & ~(align - 1), for a power-of-two align.
round_up(value, align) == ((value + align - 1) \div align) * align

bitmap_addr  == round_up(KERNEL_END, PAGE_SIZE)
max_frames   == (PHYS_MEM_END - bitmap_addr) \div PAGE_SIZE
bitmap_words == (max_frames + WORD_BITS - 1) \div WORD_BITS
bitmap_end   == bitmap_addr + bitmap_words * WORD_BYTES

\* Fault: the frames start where the bitmap does.
FirstFrame_OverBitmap == bitmap_addr

FirstFrame == round_up(bitmap_end, PAGE_SIZE)
FrameCount == (PHYS_MEM_END - FirstFrame) \div PAGE_SIZE

Bits  == 0 .. WORD_BITS - 1
Words == 0 .. bitmap_words - 1

\* The image and the bitmap fit below PHYS_MEM_END: otherwise the unsigned
\* subtractions of pmm_init wrap around.
ASSUME PMMAssumption ==
  /\ {KERNEL_END, PHYS_MEM_END, PAGE_SIZE, WORD_BITS, WORD_BYTES} \subseteq Nat \ {0}
  /\ bitmap_addr <= PHYS_MEM_END
  /\ FirstFrame <= PHYS_MEM_END
  /\ Addresses \subseteq Nat

-----------------------------------------------------------------------------
Init ==
  /\ bitmap = [i \in {} |-> {}]
  /\ phys_mem_start = 0
  /\ total_frames = 0
  /\ ret = 0
  /\ held = {}

\* Fault: the first bit past the last frame is left clear.
Padding_OffByOne(i) ==
  IF i = FrameCount \div WORD_BITS /\ FrameCount % WORD_BITS # 0
  THEN {b \in Bits : b > FrameCount % WORD_BITS}
  ELSE {}

\* Bits of word i past the last frame: marked used so that no scan returns them.
Padding(i) ==
  IF i = FrameCount \div WORD_BITS /\ FrameCount % WORD_BITS # 0
  THEN {b \in Bits : b >= FrameCount % WORD_BITS}
  ELSE {}

\* Fault: the provisional frame count, which ignores the bitmap, is kept.
pmm_init_Provisional ==
  /\ phys_mem_start = 0
  /\ phys_mem_start' = FirstFrame
  /\ total_frames' = max_frames
  /\ bitmap' = [i \in Words |-> Padding(i)]
  /\ UNCHANGED <<ret, held>>

\* Called once, by mmu_init.
pmm_init ==
  /\ phys_mem_start = 0
  /\ phys_mem_start' = FirstFrame
  /\ total_frames' = FrameCount
  /\ bitmap' = [i \in Words |-> Padding(i)]
  /\ UNCHANGED <<ret, held>>

\* Fault: the number of words is rounded down.
OpenWords_RoundedDown ==
  {i \in 0 .. (total_frames \div WORD_BITS) - 1 : bitmap[i] # Bits}

\* The words alloc_frame scans that have a clear bit.
OpenWords ==
  {i \in 0 .. ((total_frames + WORD_BITS - 1) \div WORD_BITS) - 1 : bitmap[i] # Bits}

FrameAddress(idx) == phys_mem_start + idx * PAGE_SIZE

alloc_frame ==
  LET i == Min(OpenWords)
      bit_index == Min(Bits \ bitmap[i])
      address == FrameAddress(i * WORD_BITS + bit_index)
  IN  /\ OpenWords # {}
      /\ bitmap' = [bitmap EXCEPT ![i] = @ \cup {bit_index}]
      /\ ret' = address
      /\ held' = held \cup {address}
      /\ UNCHANGED <<phys_mem_start, total_frames>>

alloc_frame_oom ==
  /\ OpenWords = {}
  /\ ret' = 0
  /\ UNCHANGED <<bitmap, phys_mem_start, total_frames, held>>

FrameIndex(addr) == (addr - phys_mem_start) \div PAGE_SIZE

\* Fault: an address inside a frame is taken for the frame.
IsFrame_Unaligned(addr) ==
  /\ addr >= phys_mem_start
  /\ addr < PHYS_MEM_END
  /\ FrameIndex(addr) < total_frames

\* The address passes free_frame's three early returns.
IsFrame(addr) ==
  /\ addr >= phys_mem_start
  /\ addr < PHYS_MEM_END
  /\ addr % PAGE_SIZE = 0
  /\ FrameIndex(addr) < total_frames

\* Clearing a bit that is already clear leaves the word as it is, so the
\* code's test of the bit needs no case of its own.
free_frame(addr) ==
  /\ bitmap' = IF IsFrame(addr)
               THEN [bitmap EXCEPT ![FrameIndex(addr) \div WORD_BITS] =
                                     @ \ {FrameIndex(addr) % WORD_BITS}]
               ELSE bitmap
  /\ held' = held \ {addr}
  /\ UNCHANGED <<phys_mem_start, total_frames, ret>>

Next ==
  \/ pmm_init
  \/ alloc_frame
  \/ alloc_frame_oom
  \/ \E addr \in Addresses : free_frame(addr)

Spec == Init /\ [][Next]_vars

-----------------------------------------------------------------------------
(* Properties.                                                             *)

Started == phys_mem_start # 0

\* Type invariant: before pmm_init everything is zero, afterwards the bitmap
\* has one word per WORD_BITS frames of the provisional frame count.
TypeOK ==
  /\ \/ /\ phys_mem_start = 0
        /\ total_frames = 0
        /\ bitmap = [i \in {} |-> {}]
     \/ /\ phys_mem_start = FirstFrame
        /\ total_frames = FrameCount
        /\ bitmap \in [Words -> SUBSET Bits]
  /\ ret \in Nat
  /\ held \subseteq Nat

InUse(idx) == (idx % WORD_BITS) \in bitmap[idx \div WORD_BITS]

\* The bitmap and the callers agree on who owns what: the frames alloc_frame
\* has handed out and not taken back are exactly the frames whose bit is set.
\* So no frame is handed out twice, and a free of a misaligned, out-of-range
\* or already free address never releases somebody else's frame.  The last is
\* the work of free_frame's tests, and more than pmm.h:77-80 says of them: "does
\* *not* validate these preconditions".
BitmapMatchesHeld ==
  held = {FrameAddress(idx) : idx \in {i \in 0 .. total_frames - 1 : InUse(i)}}

\* Every frame handed out is page aligned and lies whole between the end of
\* the bitmap and PHYS_MEM_END: the allocator gives away neither its own
\* metadata, nor the kernel image, nor the bits past the last frame.
HeldFramesManaged ==
  \A a \in held : /\ a % PAGE_SIZE = 0
                  /\ a >= bitmap_end
                  /\ a + PAGE_SIZE <= PHYS_MEM_END

\* The bits of the last word that stand for no frame stay set: alloc_frame
\* does not test what it finds against total_frames, only these bits keep it
\* from returning an address past PHYS_MEM_END.
PaddingInUse ==
  \A i \in Words, b \in Bits :
    /\ i < (total_frames + WORD_BITS - 1) \div WORD_BITS
    /\ i * WORD_BITS + b >= total_frames
    => b \in bitmap[i]

\* The inductive invariant of PMM_proofs.tla.
IInv == TypeOK /\ BitmapMatchesHeld /\ PaddingInUse

ManagedFrames == {FirstFrame + idx * PAGE_SIZE : idx \in 0 .. FrameCount - 1}

FreeFrames == {FrameAddress(idx) : idx \in {i \in 0 .. total_frames - 1 : ~InUse(i)}}

FA == INSTANCE FrameAllocator WITH
        Frames <- ManagedFrames, up <- Started, free <- FreeFrames, ret <- ret

\* The bitmap implements the first-fit allocator of FrameAllocator.tla: the
\* scan returns the lowest free frame, and 0 only when none is free; a free of
\* an address that is no frame is a stutter, against pmm.h:80.
ImplementsFrameAllocator == FA!Spec
=============================================================================
