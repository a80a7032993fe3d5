----------------------------- MODULE PMM_proofs -----------------------------
(***************************************************************************)
(* Proofs about PMM.tla.  IInv is inductive: TypeOK and BitmapMatchesHeld  *)
(* alone are not, because alloc_frame does not test the bit it finds       *)
(* against total_frames; PaddingInUse is what keeps that bit a frame's.    *)
(***************************************************************************)
EXTENDS PMM, NumberLemmas

-----------------------------------------------------------------------------
\* pmm_init's arithmetic: the frames start page aligned behind the bitmap and
\* end at PHYS_MEM_END, and the bitmap, sized for the larger provisional
\* count, has a word for each of them.
LEMMA Geometry ==
  /\ FirstFrame \in Nat \ {0}
  /\ FirstFrame % PAGE_SIZE = 0
  /\ FirstFrame >= bitmap_end
  /\ FrameCount \in Nat
  /\ FirstFrame + FrameCount * PAGE_SIZE <= PHYS_MEM_END
  /\ bitmap_words \in Nat
  /\ (FrameCount + WORD_BITS - 1) \div WORD_BITS <= bitmap_words
<1>0. /\ KERNEL_END \in Nat \ {0} /\ PHYS_MEM_END \in Nat \ {0}
      /\ PAGE_SIZE \in Nat \ {0} /\ WORD_BITS \in Nat \ {0} /\ WORD_BYTES \in Nat \ {0}
      /\ bitmap_addr <= PHYS_MEM_END /\ FirstFrame <= PHYS_MEM_END
  BY PMMAssumption
<1> USE <1>0
<1>1. ASSUME NEW v \in Nat
      PROVE  /\ round_up(v, PAGE_SIZE) \in Nat /\ round_up(v, PAGE_SIZE) >= v
             /\ round_up(v, PAGE_SIZE) % PAGE_SIZE = 0
  <2> DEFINE q == (v + PAGE_SIZE - 1) \div PAGE_SIZE
  <2>1. q \in Nat
    OBVIOUS
  <2>2. /\ v + PAGE_SIZE - 1 = q * PAGE_SIZE + ((v + PAGE_SIZE - 1) % PAGE_SIZE)
        /\ (v + PAGE_SIZE - 1) % PAGE_SIZE \in 0 .. PAGE_SIZE - 1
    BY DivMod, SMTT(30)
  <2>3. q * PAGE_SIZE >= v /\ q * PAGE_SIZE \in Nat
    BY <2>1, <2>2
  <2>4. (q * PAGE_SIZE) % PAGE_SIZE = 0
    <3> HIDE DEF q
    <3> QED
      BY <2>1
  <2> QED
    BY <2>3, <2>4 DEF round_up
<1>2. bitmap_addr \in Nat /\ bitmap_addr >= KERNEL_END
  BY <1>1 DEF bitmap_addr
<1>3. max_frames \in Nat
  <2>1. PHYS_MEM_END - bitmap_addr \in Nat
    BY <1>2
  <2>2. max_frames = (PHYS_MEM_END - bitmap_addr) \div PAGE_SIZE
    BY DEF max_frames
  <2> QED
    BY <2>1, <2>2
<1>4. bitmap_words \in Nat
  <2>1. max_frames + WORD_BITS - 1 \in Nat
    BY <1>3
  <2>2. bitmap_words = (max_frames + WORD_BITS - 1) \div WORD_BITS
    BY DEF bitmap_words
  <2> QED
    BY <2>1, <2>2
<1>5. bitmap_end \in Nat /\ bitmap_end >= bitmap_addr
  BY <1>2, <1>4, SMT DEF bitmap_end
<1>6. FirstFrame \in Nat \ {0} /\ FirstFrame % PAGE_SIZE = 0 /\ FirstFrame >= bitmap_end
  BY <1>1, <1>2, <1>5 DEF FirstFrame
<1>7. FrameCount \in Nat /\ FirstFrame + FrameCount * PAGE_SIZE <= PHYS_MEM_END
  <2> DEFINE room == PHYS_MEM_END - FirstFrame
  <2>1. room \in Nat
    BY <1>6
  <2>2. room \div PAGE_SIZE \in Nat /\ (room \div PAGE_SIZE) * PAGE_SIZE <= room
    BY <2>1
  <2> QED
    BY <1>6, <2>1, <2>2 DEF FrameCount
<1>8. FrameCount <= max_frames
  <2>1. PHYS_MEM_END - FirstFrame <= PHYS_MEM_END - bitmap_addr
    BY <1>2, <1>5, <1>6
  <2> QED
    BY <1>2, <1>6, <2>1, DivMonotone DEF FrameCount, max_frames
<1>9. (FrameCount + WORD_BITS - 1) \div WORD_BITS <= bitmap_words
  <2>1. FrameCount + WORD_BITS - 1 <= max_frames + WORD_BITS - 1
    BY <1>3, <1>7, <1>8
  <2> QED
    BY <1>3, <1>7, <2>1, DivMonotone DEF bitmap_words
<1> QED
  BY <1>4, <1>6, <1>7, <1>9

\* alloc_frame scans the word of every frame.
LEMMA FrameWordScanned ==
  \A idx \in 0 .. FrameCount - 1 :
    idx \div WORD_BITS <= (FrameCount + WORD_BITS - 1) \div WORD_BITS - 1
<1> SUFFICES ASSUME NEW idx \in 0 .. FrameCount - 1
             PROVE  idx \div WORD_BITS <= (FrameCount + WORD_BITS - 1) \div WORD_BITS - 1
  OBVIOUS
<1> DEFINE q == idx \div WORD_BITS + 1
           r == idx % WORD_BITS
<1>1. WORD_BITS \in Nat \ {0} /\ FrameCount \in Nat /\ idx \in Nat
  BY PMMAssumption, Geometry
<1>2. idx + WORD_BITS = q * WORD_BITS + r
  BY <1>1, DivMod
<1>3. q \in Int /\ r \in 0 .. WORD_BITS - 1
  BY <1>1
<1> HIDE DEF q, r
<1>4. (q * WORD_BITS + r) \div WORD_BITS = q
  BY <1>1, <1>3, DivModUnique
<1>5. (idx + WORD_BITS) \div WORD_BITS <= (FrameCount + WORD_BITS - 1) \div WORD_BITS
  BY <1>1, DivMonotone
<1>6. q <= (FrameCount + WORD_BITS - 1) \div WORD_BITS
  BY <1>2, <1>4, <1>5
<1>7. (FrameCount + WORD_BITS - 1) \div WORD_BITS \in Int /\ idx \div WORD_BITS \in Int
  BY <1>1
<1> QED
  BY <1>6, <1>7 DEF q

\* Sizes are positive, and every frame's word and bit exist.
LEMMA FrameBits ==
  /\ PAGE_SIZE \in Nat \ {0} /\ WORD_BITS \in Nat \ {0}
  /\ \A idx \in 0 .. FrameCount - 1 :
       idx \div WORD_BITS \in Words /\ idx % WORD_BITS \in Bits
  /\ \A i \in 0 .. ((FrameCount + WORD_BITS - 1) \div WORD_BITS) - 1 : i \in Words
<1>1. PAGE_SIZE \in Nat \ {0} /\ WORD_BITS \in Nat \ {0}
  BY PMMAssumption
<1>2. ASSUME NEW idx \in 0 .. FrameCount - 1
      PROVE  idx \div WORD_BITS \in Words /\ idx % WORD_BITS \in Bits
  <2>1. FrameCount \in Nat /\ idx \in Nat
    BY Geometry
  <2>2. idx \div WORD_BITS \in Nat /\ idx % WORD_BITS \in Bits
    BY <1>1, <2>1 DEF Bits
  <2>3. (FrameCount + WORD_BITS - 1) \div WORD_BITS \in Int
    BY <1>1, <2>1
  <2> QED
    BY <2>2, <2>3, FrameWordScanned, Geometry DEF Words
<1>3. (FrameCount + WORD_BITS - 1) \div WORD_BITS \in Int
  BY <1>1, Geometry
<1> QED
  BY <1>1, <1>2, <1>3, Geometry DEF Words

\* A frame's address determines its index, and free_frame recovers it.
LEMMA FrameAddresses ==
  ASSUME phys_mem_start = FirstFrame, total_frames = FrameCount
  PROVE  /\ \A j \in 0 .. FrameCount - 1 :
              /\ FrameAddress(j) \in Nat
              /\ IsFrame(FrameAddress(j)) /\ FrameIndex(FrameAddress(j)) = j
              /\ FrameAddress(j) + PAGE_SIZE <= PHYS_MEM_END
         /\ \A addr \in Nat : IsFrame(addr) =>
              /\ FrameIndex(addr) \in 0 .. FrameCount - 1
              /\ addr = FrameAddress(FrameIndex(addr))
<1>1. PAGE_SIZE \in Nat \ {0} /\ PHYS_MEM_END \in Nat
  BY PMMAssumption
<1>2. PICK f \in Nat : FirstFrame = f * PAGE_SIZE
  <2>1. FirstFrame = (FirstFrame \div PAGE_SIZE) * PAGE_SIZE + (FirstFrame % PAGE_SIZE)
    BY <1>1, Geometry, DivMod
  <2> QED
    BY <1>1, <2>1, Geometry
<1>3. ASSUME NEW j \in 0 .. FrameCount - 1
      PROVE  /\ FrameAddress(j) \in Nat
             /\ IsFrame(FrameAddress(j)) /\ FrameIndex(FrameAddress(j)) = j
             /\ FrameAddress(j) + PAGE_SIZE <= PHYS_MEM_END
  <2>1. FrameCount \in Nat /\ j \in Nat /\ j + 1 <= FrameCount
    BY Geometry
  <2>2. FrameAddress(j) = f * PAGE_SIZE + j * PAGE_SIZE
    BY <1>2 DEF FrameAddress
  <2>3. FrameAddress(j) = (f + j) * PAGE_SIZE + 0
    BY <1>1, <2>1, <2>2
  <2>4. FrameAddress(j) % PAGE_SIZE = 0
    BY <1>1, <2>1, <2>3, DivModUnique
  <2>5. FrameIndex(FrameAddress(j)) = j
    <3>1. FrameAddress(j) - phys_mem_start = j * PAGE_SIZE + 0
      BY <1>1, <1>2, <2>1, <2>2
    <3> QED
      BY <1>1, <2>1, <3>1, DivModUnique DEF FrameIndex
  <2>6. (j + 1) * PAGE_SIZE <= FrameCount * PAGE_SIZE
    BY <1>1, <2>1
  <2>7. (j + 1) * PAGE_SIZE = j * PAGE_SIZE + PAGE_SIZE /\ j * PAGE_SIZE \in Nat
    BY <1>1, <2>1
  <2>8. FirstFrame + FrameCount * PAGE_SIZE <= PHYS_MEM_END /\ FirstFrame \in Nat
    BY Geometry
  <2>9. FrameCount * PAGE_SIZE \in Nat
    BY <1>1, <2>1
  <2>10. /\ FrameAddress(j) \in Nat /\ FrameAddress(j) >= phys_mem_start
         /\ FrameAddress(j) + PAGE_SIZE <= PHYS_MEM_END
    BY <1>1, <2>6, <2>7, <2>8, <2>9 DEF FrameAddress
  <2> QED
    BY <1>1, <2>1, <2>4, <2>5, <2>10 DEF IsFrame
<1>4. ASSUME NEW addr \in Nat, IsFrame(addr)
      PROVE  FrameIndex(addr) \in 0 .. FrameCount - 1 /\ addr = FrameAddress(FrameIndex(addr))
  <2>1. PICK a \in Nat : addr = a * PAGE_SIZE
    <3>1. addr = (addr \div PAGE_SIZE) * PAGE_SIZE + (addr % PAGE_SIZE)
      BY <1>1, DivMod
    <3> QED
      BY <1>1, <1>4, <3>1 DEF IsFrame
  <2>2. addr - phys_mem_start = (a - f) * PAGE_SIZE + 0
    BY <1>1, <1>2, <2>1
  <2>3. FrameIndex(addr) = a - f
    <3> DEFINE k == a - f
    <3>1. k \in Int
      OBVIOUS
    <3> HIDE DEF k
    <3>2. (k * PAGE_SIZE + 0) \div PAGE_SIZE = k
      BY <1>1, <3>1, DivModUnique
    <3>3. addr - phys_mem_start = k * PAGE_SIZE + 0
      BY <2>2 DEF k
    <3>4. FrameIndex(addr) = k
      BY <3>2, <3>3 DEF FrameIndex
    <3> QED
      BY <3>4 DEF k
  <2>4. a - f >= 0
    <3>1. a * PAGE_SIZE >= f * PAGE_SIZE
      BY <1>2, <1>4, <2>1 DEF IsFrame
    <3> QED
      BY <1>1, <3>1
  <2>5. addr = FirstFrame + (a - f) * PAGE_SIZE
    BY <1>1, <1>2, <2>1
  <2> QED
    BY <1>4, <2>3, <2>4, <2>5, Geometry DEF IsFrame, FrameAddress
<1> QED
  BY <1>3, <1>4

-----------------------------------------------------------------------------
(* The invariant, action by action.                                        *)

\* Before pmm_init nothing is tracked and nothing is held.
LEMMA InitIInv == Init => IInv
<1> SUFFICES ASSUME Init PROVE IInv
  OBVIOUS
<1>1. TypeOK
  BY DEF Init, TypeOK
<1>2. BitmapMatchesHeld
  BY DEF Init, BitmapMatchesHeld
<1>3. PaddingInUse
  <2>1. (0 + WORD_BITS - 1) \div WORD_BITS = 0
    BY FrameBits
  <2> QED
    BY <2>1 DEF Init, PaddingInUse, Words
<1> QED
  BY <1>1, <1>2, <1>3 DEF IInv

\* The padding is the bits from FrameCount on, and only these.
LEMMA PaddingBits ==
  ASSUME NEW i \in Words, NEW b \in Bits
  PROVE  /\ i * WORD_BITS + b >= FrameCount
            /\ i < (FrameCount + WORD_BITS - 1) \div WORD_BITS
            => b \in Padding(i)
         /\ b \in Padding(i) => i * WORD_BITS + b >= FrameCount
<1> DEFINE q == FrameCount \div WORD_BITS
           r == FrameCount % WORD_BITS
           c == (FrameCount + WORD_BITS - 1) \div WORD_BITS
<1>1. WORD_BITS \in Nat \ {0} /\ FrameCount \in Nat /\ i \in Nat /\ b \in 0 .. WORD_BITS - 1
  BY FrameBits, Geometry DEF Words, Bits
<1>2. q \in Nat /\ r \in 0 .. WORD_BITS - 1 /\ FrameCount = q * WORD_BITS + r
  <2>1. FrameCount = q * WORD_BITS + r
    BY <1>1, DivMod
  <2>2. q \in Nat /\ r \in 0 .. WORD_BITS - 1
    BY <1>1
  <2> QED
    BY <2>1, <2>2
<1>3. c \in Int /\ c * WORD_BITS <= FrameCount + WORD_BITS - 1
  <2>1. FrameCount + WORD_BITS - 1 \in Nat
    BY <1>1
  <2> QED
    BY <1>1, <2>1
<1>4. Padding(i) = IF i = q /\ r # 0 THEN {x \in Bits : x >= r} ELSE {}
  BY DEF Padding
<1> HIDE DEF q, r, c
<1>5. ASSUME i * WORD_BITS + b >= FrameCount, i < c
      PROVE  b \in Padding(i)
  <2>1. i >= q
    <3>1. SUFFICES ASSUME i + 1 <= q PROVE FALSE
      BY <1>1, <1>2
    <3>2. (i + 1) * WORD_BITS <= q * WORD_BITS
      BY <1>1, <1>2, <3>1
    <3>3. (i + 1) * WORD_BITS = i * WORD_BITS + WORD_BITS
      BY <1>1
    <3> QED
      BY <1>1, <1>2, <1>5, <3>2, <3>3
  <2>2. i * WORD_BITS + 1 <= FrameCount
    <3>1. (i + 1) * WORD_BITS <= c * WORD_BITS
      BY <1>1, <1>3, <1>5
    <3>2. (i + 1) * WORD_BITS = i * WORD_BITS + WORD_BITS
      BY <1>1
    <3> QED
      BY <1>1, <1>3, <3>1, <3>2
  <2>3. i <= q
    <3>1. SUFFICES ASSUME i >= q + 1 PROVE FALSE
      BY <1>1, <1>2
    <3>2. i * WORD_BITS >= (q + 1) * WORD_BITS
      BY <1>1, <1>2, <3>1
    <3>3. (q + 1) * WORD_BITS = q * WORD_BITS + WORD_BITS
      BY <1>1, <1>2
    <3> QED
      BY <1>1, <1>2, <2>2, <3>2, <3>3
  <2>4. i = q
    BY <1>1, <1>2, <2>1, <2>3
  <2>5. r # 0 /\ b >= r
    BY <1>1, <1>2, <1>5, <2>2, <2>4
  <2> QED
    BY <1>4, <2>4, <2>5
<1>6. ASSUME b \in Padding(i)
      PROVE  i * WORD_BITS + b >= FrameCount
  <2>1. i = q /\ b >= r
    BY <1>4, <1>6
  <2> QED
    BY <1>1, <1>2, <2>1
<1> QED
  BY <1>5, <1>6 DEF c

\* pmm_init marks the padding and leaves every frame free.
LEMMA PmmInitIInv == IInv /\ pmm_init => IInv'
<1> SUFFICES ASSUME IInv, pmm_init PROVE IInv'
  OBVIOUS
<1> USE DEF pmm_init
<1>1. held = {} /\ ret \in Nat
  BY Geometry DEF IInv, TypeOK, BitmapMatchesHeld
<1>2. TypeOK'
  <2>1. \A i \in Words : Padding(i) \in SUBSET Bits
    BY DEF Padding
  <2> QED
    BY <1>1, <2>1 DEF TypeOK
<1>3. BitmapMatchesHeld'
  <2> SUFFICES ASSUME NEW idx \in 0 .. FrameCount - 1, InUse(idx)' PROVE FALSE
    BY <1>1 DEF BitmapMatchesHeld
  <2>1. idx \div WORD_BITS \in Words /\ idx % WORD_BITS \in Bits
    BY FrameBits
  <2>2. idx % WORD_BITS \in Padding(idx \div WORD_BITS)
    BY <2>1 DEF InUse
  <2>3. (idx \div WORD_BITS) * WORD_BITS + (idx % WORD_BITS) >= FrameCount
    BY <2>1, <2>2, PaddingBits
  <2> QED
    BY <2>3, DivMod, FrameBits, Geometry
<1>4. PaddingInUse'
  BY PaddingBits DEF PaddingInUse
<1> QED
  BY <1>2, <1>3, <1>4 DEF IInv

\* alloc_frame finds a clear bit, which by PaddingInUse stands for a frame:
\* the free frame of the least index, and only that frame's bit changes.
LEMMA AllocatedFrame ==
  ASSUME IInv, alloc_frame
  PROVE  /\ phys_mem_start = FirstFrame /\ total_frames = FrameCount
         /\ bitmap \in [Words -> SUBSET Bits] /\ bitmap' \in [Words -> SUBSET Bits]
         /\ UNCHANGED <<phys_mem_start, total_frames>>
         /\ \A w \in Words : bitmap[w] \subseteq bitmap'[w]
         /\ \E idx \in 0 .. FrameCount - 1 :
              /\ ~InUse(idx)
              /\ \A j \in 0 .. FrameCount - 1 : InUse(j)' <=> InUse(j) \/ j = idx
              /\ \A j \in 0 .. FrameCount - 1 : ~InUse(j) => idx <= j
              /\ ret' = FrameAddress(idx)
              /\ held' = held \cup {FrameAddress(idx)}
<1> DEFINE i == Min(OpenWords)
           b == Min(Bits \ bitmap[i])
           idx == i * WORD_BITS + b
<1>1. WORD_BITS \in Nat \ {0}
  BY FrameBits
<1>2. phys_mem_start = FirstFrame /\ total_frames = FrameCount /\ bitmap \in [Words -> SUBSET Bits]
  <2>1. (0 + WORD_BITS - 1) \div WORD_BITS = 0
    BY <1>1
  <2>2. total_frames = 0 => OpenWords = {}
    BY <2>1 DEF OpenWords
  <2> QED
    BY <2>2 DEF alloc_frame, IInv, TypeOK
<1>3. i \in OpenWords /\ \A w \in OpenWords : i <= w
  <2>1. OpenWords \subseteq Nat /\ OpenWords # {}
    BY DEF OpenWords, alloc_frame
  <2> QED
    BY <2>1, MinOfNat
<1>4. i \in Words /\ bitmap[i] # Bits /\ i < (FrameCount + WORD_BITS - 1) \div WORD_BITS
  <2>1. (FrameCount + WORD_BITS - 1) \div WORD_BITS \in Int
    BY <1>1, Geometry
  <2> QED
    BY <1>2, <1>3, <2>1, FrameBits DEF OpenWords
<1>5. b \in Bits /\ b \notin bitmap[i] /\ \A c \in Bits \ bitmap[i] : b <= c
  <2>1. Bits \ bitmap[i] # {} /\ Bits \ bitmap[i] \subseteq Nat
    <3>1. bitmap[i] \subseteq Bits
      BY <1>2, <1>4
    <3>2. Bits \subseteq Nat
      BY <1>1 DEF Bits
    <3> QED
      BY <1>4, <3>1, <3>2
  <2>2. b \in Bits \ bitmap[i] /\ \A c \in Bits \ bitmap[i] : b <= c
    BY <2>1, MinOfNat
  <2> QED
    BY <2>2
<1>6. /\ bitmap' = [bitmap EXCEPT ![i] = @ \cup {b}]
      /\ ret' = FrameAddress(idx)
      /\ held' = held \cup {FrameAddress(idx)}
      /\ UNCHANGED <<phys_mem_start, total_frames>>
  BY DEF alloc_frame
<1> HIDE DEF i, b
<1>7. i \in Nat /\ b \in 0 .. WORD_BITS - 1
  BY <1>4, <1>5 DEF Words, Bits
<1>8. idx \in 0 .. FrameCount - 1
  <2>1. idx \in Nat
    BY <1>1, <1>7
  <2>2. ~(idx >= FrameCount)
    BY <1>2, <1>4, <1>5 DEF IInv, PaddingInUse
  <2> QED
    BY <2>1, <2>2, Geometry
<1>9. idx \div WORD_BITS = i /\ idx % WORD_BITS = b
  BY <1>1, <1>7, DivModUnique
<1>10. \A j \in 0 .. FrameCount - 1 : InUse(j)' <=> InUse(j) \/ j = idx
  <2> SUFFICES ASSUME NEW j \in 0 .. FrameCount - 1
               PROVE  InUse(j)' <=> InUse(j) \/ j = idx
    OBVIOUS
  <2> DEFINE w == j \div WORD_BITS
             c == j % WORD_BITS
  <2>1. w \in Words /\ c \in Bits
    BY FrameBits
  <2>2. j = w * WORD_BITS + c
    BY <1>1, DivMod
  <2> HIDE DEF w, c
  <2>3. w = i /\ c = b => j = idx
    BY <2>2
  <2>4. j = idx => w = i /\ c = b
    BY <1>9 DEF w, c
  <2>5. InUse(j) <=> c \in bitmap[w]
    BY DEF InUse, w, c
  <2>6. InUse(j)' <=> c \in bitmap'[w]
    BY DEF InUse, w, c
  <2>7. c \in bitmap'[w] <=> c \in bitmap[w] \/ (w = i /\ c = b)
    BY <1>2, <1>4, <1>6, <2>1
  <2> QED
    BY <2>3, <2>4, <2>5, <2>6, <2>7
<1>11. ~InUse(idx)
  BY <1>5, <1>9 DEF InUse
<1>12. ASSUME NEW j \in 0 .. FrameCount - 1, ~InUse(j)
       PROVE  idx <= j
  <2> DEFINE w == j \div WORD_BITS
             c == j % WORD_BITS
  <2>1. w \in Words /\ c \in Bits
    BY FrameBits
  <2>2. j = w * WORD_BITS + c
    BY <1>1, DivMod
  <2>3. c \in Bits \ bitmap[w]
    BY <1>12, <2>1 DEF InUse
  <2>4. w <= (FrameCount + WORD_BITS - 1) \div WORD_BITS - 1
    BY FrameWordScanned
  <2> HIDE DEF w, c
  <2>5. w \in OpenWords
    BY <1>1, <1>2, <2>1, <2>3, <2>4, Geometry DEF OpenWords, Words
  <2>6. i <= w
    BY <1>3, <2>5
  <2>7. w \in Nat /\ c \in Nat
    BY <2>1, <1>1 DEF Words, Bits
  <2>8. CASE i = w
    <3>1. b <= c
      BY <1>5, <2>3, <2>8
    <3> QED
      BY <1>1, <1>7, <2>2, <2>7, <2>8, <3>1
  <2>9. CASE i + 1 <= w
    <3>1. (i + 1) * WORD_BITS <= w * WORD_BITS
      BY <1>1, <1>7, <2>7, <2>9
    <3>2. (i + 1) * WORD_BITS = i * WORD_BITS + WORD_BITS
      BY <1>1, <1>7
    <3> QED
      BY <1>1, <1>7, <2>2, <2>7, <3>1, <3>2
  <2> QED
    BY <1>7, <2>6, <2>7, <2>8, <2>9
<1>13. bitmap' \in [Words -> SUBSET Bits] /\ \A w \in Words : bitmap[w] \subseteq bitmap'[w]
  BY <1>2, <1>4, <1>5, <1>6
<1> QED
  BY <1>2, <1>6, <1>8, <1>10, <1>11, <1>12, <1>13

\* alloc_frame hands out exactly the frame whose bit it sets.
LEMMA AllocFrameIInv == IInv /\ alloc_frame => IInv'
<1> SUFFICES ASSUME IInv, alloc_frame PROVE IInv'
  OBVIOUS
<1>1. /\ phys_mem_start = FirstFrame /\ total_frames = FrameCount
      /\ bitmap \in [Words -> SUBSET Bits] /\ bitmap' \in [Words -> SUBSET Bits]
      /\ UNCHANGED <<phys_mem_start, total_frames>>
      /\ \A w \in Words : bitmap[w] \subseteq bitmap'[w]
  BY AllocatedFrame
<1>2. PICK idx \in 0 .. FrameCount - 1 :
        /\ \A j \in 0 .. FrameCount - 1 : InUse(j)' <=> InUse(j) \/ j = idx
        /\ ret' = FrameAddress(idx)
        /\ held' = held \cup {FrameAddress(idx)}
  BY AllocatedFrame
<1>3. FrameAddress(idx) \in Nat
  BY <1>1, FrameAddresses
<1>4. TypeOK'
  BY <1>1, <1>2, <1>3 DEF IInv, TypeOK
<1>5. BitmapMatchesHeld'
  <2>1. held = {FrameAddress(j) : j \in {k \in 0 .. FrameCount - 1 : InUse(k)}}
    BY <1>1 DEF IInv, BitmapMatchesHeld
  <2>2. \A j : FrameAddress(j)' = FrameAddress(j)
    BY <1>1 DEF FrameAddress
  <2>3. {FrameAddress(j) : j \in {k \in 0 .. FrameCount - 1 : InUse(k)'}}
          = held \cup {FrameAddress(idx)}
    BY <1>2, <2>1
  <2> QED
    BY <1>1, <1>2, <2>2, <2>3 DEF BitmapMatchesHeld
<1>6. PaddingInUse'
  BY <1>1 DEF IInv, PaddingInUse
<1> QED
  BY <1>4, <1>5, <1>6 DEF IInv

\* Before pmm_init no address passes free_frame's tests.
LEMMA FramesOnceStarted ==
  ASSUME IInv, NEW addr \in Nat, IsFrame(addr)
  PROVE  /\ phys_mem_start = FirstFrame /\ total_frames = FrameCount
         /\ bitmap \in [Words -> SUBSET Bits]
<1> SUFFICES ASSUME phys_mem_start = 0, total_frames = 0 PROVE FALSE
  BY DEF IInv, TypeOK
<1>1. addr \div PAGE_SIZE \in Nat
  BY FrameBits
<1>2. FrameIndex(addr) = addr \div PAGE_SIZE
  BY DEF FrameIndex
<1> QED
  BY <1>1, <1>2 DEF IsFrame

\* free_frame of an address that is not a frame changes nothing: no caller
\* holds such an address.
LEMMA FreeIgnored ==
  ASSUME NEW addr \in Addresses, IInv, free_frame(addr), ~IsFrame(addr)
  PROVE  UNCHANGED vars
<1>1. UNCHANGED <<bitmap, phys_mem_start, total_frames, ret>> /\ held' = held \ {addr}
  BY DEF free_frame
<1>2. addr \notin held
  <2> SUFFICES ASSUME addr \in held PROVE FALSE
    OBVIOUS
  <2>1. PICK j \in 0 .. total_frames - 1 : addr = FrameAddress(j)
    BY DEF IInv, BitmapMatchesHeld
  <2>2. phys_mem_start = FirstFrame /\ total_frames = FrameCount
    BY <2>1 DEF IInv, TypeOK
  <2> QED
    BY <2>1, <2>2, FrameAddresses
<1> QED
  BY <1>1, <1>2 DEF vars

\* free_frame of a frame clears the bit of that frame and no other.
LEMMA FreedFrame ==
  ASSUME NEW addr \in Addresses, IInv, free_frame(addr), IsFrame(addr)
  PROVE  /\ phys_mem_start = FirstFrame /\ total_frames = FrameCount
         /\ bitmap \in [Words -> SUBSET Bits] /\ bitmap' \in [Words -> SUBSET Bits]
         /\ UNCHANGED <<phys_mem_start, total_frames, ret>> /\ held' = held \ {addr}
         /\ FrameIndex(addr) \in 0 .. FrameCount - 1
         /\ addr = FrameAddress(FrameIndex(addr))
         /\ \A j \in 0 .. FrameCount - 1 : InUse(j)' <=> InUse(j) /\ j # FrameIndex(addr)
         /\ \A w \in Words : \A c \in bitmap[w] :
              w * WORD_BITS + c # FrameIndex(addr) => c \in bitmap'[w]
<1> DEFINE idx == FrameIndex(addr)
           i == idx \div WORD_BITS
           b == idx % WORD_BITS
<1>1. WORD_BITS \in Nat \ {0} /\ addr \in Nat
  BY FrameBits, PMMAssumption
<1>2. phys_mem_start = FirstFrame /\ total_frames = FrameCount /\ bitmap \in [Words -> SUBSET Bits]
  BY <1>1, FramesOnceStarted
<1>3. idx \in 0 .. FrameCount - 1 /\ addr = FrameAddress(idx)
  BY <1>1, <1>2, FrameAddresses
<1>4. /\ bitmap' = [bitmap EXCEPT ![i] = @ \ {b}]
      /\ UNCHANGED <<phys_mem_start, total_frames, ret>> /\ held' = held \ {addr}
  BY DEF free_frame
<1> HIDE DEF idx
<1>5. i \in Words /\ b \in Bits
  BY <1>3, FrameBits
<1>6. idx = i * WORD_BITS + b
  BY <1>1, <1>3, DivMod
<1> HIDE DEF i, b
<1>7. \A j \in 0 .. FrameCount - 1 : InUse(j)' <=> InUse(j) /\ j # idx
  <2> SUFFICES ASSUME NEW j \in 0 .. FrameCount - 1
               PROVE  InUse(j)' <=> InUse(j) /\ j # idx
    OBVIOUS
  <2> DEFINE w == j \div WORD_BITS
             c == j % WORD_BITS
  <2>1. w \in Words /\ c \in Bits
    BY FrameBits
  <2>2. j = w * WORD_BITS + c
    BY <1>1, DivMod
  <2>3. j = idx => w = i /\ c = b
    BY DEF i, b
  <2>4. InUse(j) <=> c \in bitmap[w]
    BY DEF InUse
  <2>5. InUse(j)' <=> c \in bitmap'[w]
    BY DEF InUse
  <2> HIDE DEF w, c
  <2>6. w = i /\ c = b => j = idx
    BY <1>6, <2>2
  <2>7. c \in bitmap'[w] <=> c \in bitmap[w] /\ ~(w = i /\ c = b)
    BY <1>2, <1>4, <1>5, <2>1
  <2> QED
    BY <2>3, <2>4, <2>5, <2>6, <2>7
<1>8. bitmap' \in [Words -> SUBSET Bits]
  BY <1>2, <1>4
<1>9. ASSUME NEW w \in Words, NEW c \in bitmap[w], w * WORD_BITS + c # idx
      PROVE  c \in bitmap'[w]
  <2>1. ~(w = i /\ c = b)
    BY <1>6, <1>9
  <2> QED
    BY <1>2, <1>4, <1>5, <2>1
<1> QED
  BY <1>2, <1>3, <1>4, <1>7, <1>8, <1>9 DEF idx

\* What free_frame clears is a frame's bit, never padding.
LEMMA FreeFrameIInv ==
  ASSUME NEW addr \in Addresses, IInv, free_frame(addr)
  PROVE  IInv'
<1>1. CASE ~IsFrame(addr)
  BY <1>1, FreeIgnored DEF vars, IInv, TypeOK, BitmapMatchesHeld, PaddingInUse, InUse, FrameAddress
<1>2. CASE IsFrame(addr)
  <2> DEFINE idx == FrameIndex(addr)
  <2>1. /\ phys_mem_start = FirstFrame /\ total_frames = FrameCount
        /\ bitmap \in [Words -> SUBSET Bits] /\ bitmap' \in [Words -> SUBSET Bits]
        /\ UNCHANGED <<phys_mem_start, total_frames, ret>> /\ held' = held \ {addr}
        /\ idx \in 0 .. FrameCount - 1 /\ addr = FrameAddress(idx)
        /\ \A j \in 0 .. FrameCount - 1 : InUse(j)' <=> InUse(j) /\ j # idx
        /\ \A w \in Words : \A c \in bitmap[w] : w * WORD_BITS + c # idx => c \in bitmap'[w]
    BY <1>2, FreedFrame
  <2> HIDE DEF idx
  <2>2. TypeOK'
    BY <2>1 DEF IInv, TypeOK
  <2>3. BitmapMatchesHeld'
    <3>1. held = {FrameAddress(j) : j \in {k \in 0 .. FrameCount - 1 : InUse(k)}}
      BY <2>1 DEF IInv, BitmapMatchesHeld
    <3>2. \A j : FrameAddress(j)' = FrameAddress(j)
      BY <2>1 DEF FrameAddress
    <3>3. \A j, k \in 0 .. FrameCount - 1 : FrameAddress(j) = FrameAddress(k) => j = k
      BY <2>1, FrameAddresses
    <3>4. {FrameAddress(j) : j \in {k \in 0 .. FrameCount - 1 : InUse(k)'}} = held \ {addr}
      BY <2>1, <3>1, <3>3
    <3> QED
      BY <2>1, <3>2, <3>4 DEF BitmapMatchesHeld
  <2>4. PaddingInUse'
    <3> SUFFICES ASSUME NEW w \in Words, NEW c \in Bits,
                        w < (FrameCount + WORD_BITS - 1) \div WORD_BITS,
                        w * WORD_BITS + c >= FrameCount
                 PROVE  c \in bitmap'[w]
      BY <2>1 DEF PaddingInUse
    <3>1. c \in bitmap[w]
      BY <2>1 DEF IInv, PaddingInUse
    <3>2. w * WORD_BITS + c # idx
      BY <2>1, Geometry
    <3> QED
      BY <2>1, <3>1, <3>2
  <2> QED
    BY <2>2, <2>3, <2>4 DEF IInv
<1> QED
  BY <1>1, <1>2

\* Every step preserves the invariant.
LEMMA StepIInv == IInv /\ [Next]_vars => IInv'
<1> SUFFICES ASSUME IInv, [Next]_vars PROVE IInv'
  OBVIOUS
<1>1. CASE pmm_init
  BY <1>1, PmmInitIInv
<1>2. CASE alloc_frame
  BY <1>2, AllocFrameIInv
<1>3. CASE alloc_frame_oom
  BY <1>3 DEF alloc_frame_oom, IInv, TypeOK, BitmapMatchesHeld, PaddingInUse, InUse, FrameAddress
<1>4. CASE \E addr \in Addresses : free_frame(addr)
  BY <1>4, FreeFrameIInv
<1>5. CASE UNCHANGED vars
  BY <1>5 DEF vars, IInv, TypeOK, BitmapMatchesHeld, PaddingInUse, InUse, FrameAddress
<1> QED
  BY <1>1, <1>2, <1>3, <1>4, <1>5 DEF Next

\* For every size of memory, page and word: the three parts of the invariant
\* hold in every reachable state.
THEOREM Invariant == Spec => []IInv
<1>1. Init => IInv
  BY InitIInv
<1>2. IInv /\ [Next]_vars => IInv'
  BY StepIInv
<1> QED
  BY <1>1, <1>2, PTL DEF Spec

\* pmm_init, alloc_frame and free_frame keep the bitmap's shape and types.
THEOREM TypeCorrect == Spec => []TypeOK
<1>1. IInv => TypeOK
  BY DEF IInv
<1> QED
  BY <1>1, Invariant, PTL

\* A frame is handed out to one caller at a time: the set bits are exactly
\* the frames that alloc_frame returned and free_frame has not taken back.
THEOREM NoFrameHandedOutTwice == Spec => []BitmapMatchesHeld
<1>1. IInv => BitmapMatchesHeld
  BY DEF IInv
<1> QED
  BY <1>1, Invariant, PTL

\* The bits past the last frame are never cleared.
THEOREM PaddingStaysInUse == Spec => []PaddingInUse
<1>1. IInv => PaddingInUse
  BY DEF IInv
<1> QED
  BY <1>1, Invariant, PTL

\* Every frame handed out is page aligned, behind the bitmap and whole below
\* PHYS_MEM_END.
THEOREM OnlyManagedFramesHandedOut == Spec => []HeldFramesManaged
<1>1. IInv => HeldFramesManaged
  <2> SUFFICES ASSUME IInv, NEW a \in held
               PROVE  /\ a % PAGE_SIZE = 0
                      /\ a >= bitmap_end
                      /\ a + PAGE_SIZE <= PHYS_MEM_END
    BY DEF HeldFramesManaged
  <2>1. PICK j \in 0 .. total_frames - 1 : a = FrameAddress(j)
    BY DEF IInv, BitmapMatchesHeld
  <2>2. phys_mem_start = FirstFrame /\ total_frames = FrameCount
    BY <2>1 DEF IInv, TypeOK
  <2>3. IsFrame(a) /\ a + PAGE_SIZE <= PHYS_MEM_END /\ a \in Nat
    BY <2>1, <2>2, FrameAddresses
  <2>4. bitmap_end \in Int
    BY PMMAssumption, Geometry DEF bitmap_end, bitmap_addr, round_up
  <2> QED
    BY <2>2, <2>3, <2>4, Geometry DEF IsFrame
<1> QED
  BY <1>1, Invariant, PTL

-----------------------------------------------------------------------------
(* The bitmap implements FrameAllocator.                                   *)

\* The least of a set of naturals, for FrameAllocator's Min.
LEMMA FirstFitIsLeast ==
  ASSUME NEW S, S \subseteq Nat, NEW x \in S, \A y \in S : x <= y
  PROVE  FA!FirstFit(S) = x
<1>1. \A y \in S : (\A z \in S : y <= z) => y = x
  OBVIOUS
<1> QED
  BY <1>1 DEF FA!FirstFit, FA!Min

\* Once pmm_init has run, the clear bits are free frames at natural addresses.
LEMMA FreeFramesNat ==
  ASSUME phys_mem_start = FirstFrame, total_frames = FrameCount
  PROVE  FreeFrames \subseteq Nat
BY FrameAddresses DEF FreeFrames

\* Before pmm_init there is nothing to hand out.
LEMMA InitImplements == Init => FA!Init
<1> SUFFICES ASSUME Init PROVE FA!Init
  OBVIOUS
<1> QED
  BY DEF Init, FA!Init, Started, FreeFrames

\* pmm_init makes every managed frame available.
LEMMA PmmInitImplements ==
  ASSUME IInv, pmm_init
  PROVE  FA!Start
<1>1. Started = FALSE /\ Started' = TRUE /\ ret' = ret
  BY Geometry DEF pmm_init, Started
<1>2. \A j \in 0 .. FrameCount - 1 : ~InUse(j)'
  <2> SUFFICES ASSUME NEW j \in 0 .. FrameCount - 1, InUse(j)' PROVE FALSE
    OBVIOUS
  <2>1. j \div WORD_BITS \in Words /\ j % WORD_BITS \in Bits
    BY FrameBits
  <2>2. j % WORD_BITS \in Padding(j \div WORD_BITS)
    BY <2>1 DEF InUse, pmm_init
  <2>3. (j \div WORD_BITS) * WORD_BITS + (j % WORD_BITS) >= FrameCount
    BY <2>1, <2>2, PaddingBits
  <2> QED
    BY <2>3, DivMod, FrameBits, Geometry
<1>3. \A j : FrameAddress(j)' = FirstFrame + j * PAGE_SIZE
  BY DEF FrameAddress, pmm_init
<1>4. FreeFrames' = ManagedFrames
  BY <1>2, <1>3 DEF FreeFrames, ManagedFrames, pmm_init
<1> QED
  BY <1>1, <1>4 DEF FA!Start

\* The clear bit that the scan finds first is the lowest free frame's.
LEMMA AllocFrameImplements ==
  ASSUME IInv, alloc_frame
  PROVE  FA!Alloc
<1>1. /\ phys_mem_start = FirstFrame /\ total_frames = FrameCount
      /\ UNCHANGED <<phys_mem_start, total_frames>>
  BY AllocatedFrame
<1>2. PICK idx \in 0 .. FrameCount - 1 :
        /\ ~InUse(idx)
        /\ \A j \in 0 .. FrameCount - 1 : InUse(j)' <=> InUse(j) \/ j = idx
        /\ \A j \in 0 .. FrameCount - 1 : ~InUse(j) => idx <= j
        /\ ret' = FrameAddress(idx)
  BY AllocatedFrame
<1>3. FreeFrames = {FrameAddress(j) : j \in {k \in 0 .. FrameCount - 1 : ~InUse(k)}}
  BY <1>1 DEF FreeFrames
<1>4. FA!FirstFit(FreeFrames) = FrameAddress(idx)
  <2>1. FrameAddress(idx) \in FreeFrames
    BY <1>2, <1>3
  <2>2. ASSUME NEW j \in 0 .. FrameCount - 1, idx <= j
        PROVE  FrameAddress(idx) <= FrameAddress(j)
    <3>1. PAGE_SIZE \in Nat \ {0} /\ FirstFrame \in Nat /\ idx \in Nat /\ j \in Nat
      BY FrameBits, Geometry
    <3>2. idx * PAGE_SIZE <= j * PAGE_SIZE
      BY <2>2, <3>1
    <3>3. idx * PAGE_SIZE \in Nat /\ j * PAGE_SIZE \in Nat
      BY <3>1
    <3> QED
      BY <1>1, <3>1, <3>2, <3>3 DEF FrameAddress
  <2>3. \A a \in FreeFrames : FrameAddress(idx) <= a
    BY <1>2, <1>3, <2>2
  <2> QED
    BY <1>1, <2>1, <2>3, FirstFitIsLeast, FreeFramesNat
<1>5. FreeFrames' = FreeFrames \ {FrameAddress(idx)}
  <2>1. \A j : FrameAddress(j)' = FrameAddress(j)
    BY <1>1 DEF FrameAddress
  <2>2. \A j, k \in 0 .. FrameCount - 1 : FrameAddress(j) = FrameAddress(k) => j = k
    BY <1>1, FrameAddresses
  <2>3. FreeFrames' = {FrameAddress(j) : j \in {k \in 0 .. FrameCount - 1 : ~InUse(k)'}}
    BY <1>1, <2>1 DEF FreeFrames
  <2> QED
    BY <1>2, <1>3, <2>2, <2>3
<1>6. Started' = Started
  BY <1>1 DEF Started
<1> QED
  BY <1>2, <1>4, <1>5, <1>6 DEF FA!Alloc

\* A scan that finds no word with a clear bit means that no frame is free.
LEMMA AllocFailsImplements ==
  ASSUME IInv, alloc_frame_oom
  PROVE  FA!Alloc
<1>1. FreeFrames = {}
  <2> SUFFICES ASSUME NEW j \in 0 .. total_frames - 1, ~InUse(j) PROVE FALSE
    BY DEF FreeFrames
  <2>1. total_frames = FrameCount /\ j \in 0 .. FrameCount - 1
    BY DEF IInv, TypeOK
  <2>2. j \div WORD_BITS \in Words /\ j % WORD_BITS \in Bits
    BY <2>1, FrameBits
  <2>3. bitmap[j \div WORD_BITS] # Bits
    BY <2>2 DEF InUse
  <2>4. j \div WORD_BITS <= (FrameCount + WORD_BITS - 1) \div WORD_BITS - 1
    BY <2>1, FrameWordScanned
  <2> DEFINE w == j \div WORD_BITS
  <2>5. w \in Nat
    BY <2>2 DEF Words
  <2>6. (FrameCount + WORD_BITS - 1) \div WORD_BITS \in Int
    BY FrameBits, Geometry
  <2> HIDE DEF w
  <2>7. w \in OpenWords
    BY <2>1, <2>3, <2>4, <2>5, <2>6 DEF OpenWords, w
  <2> QED
    BY <2>7 DEF alloc_frame_oom
<1>2. FreeFrames' = {} /\ Started' = Started /\ ret' = 0
  <2>1. FreeFrames' = FreeFrames
    BY DEF alloc_frame_oom, FreeFrames, InUse, FrameAddress
  <2> QED
    BY <1>1, <2>1 DEF alloc_frame_oom, Started
<1> QED
  BY <1>1, <1>2 DEF FA!Alloc, FA!FirstFit

\* free_frame gives back a managed frame, or does nothing.
LEMMA FreeFrameImplements ==
  ASSUME IInv, NEW addr \in Addresses, free_frame(addr)
  PROVE  (\E frame \in ManagedFrames : FA!Free(frame)) \/ UNCHANGED FA!vars
<1>1. CASE ~IsFrame(addr)
  <2>1. UNCHANGED vars
    BY <1>1, FreeIgnored
  <2>2. UNCHANGED <<Started, FreeFrames, ret>>
    BY <2>1 DEF vars, Started, FreeFrames, InUse, FrameAddress
  <2> QED
    BY <2>2 DEF FA!vars
<1>2. CASE IsFrame(addr)
  <2> DEFINE idx == FrameIndex(addr)
  <2>1. /\ phys_mem_start = FirstFrame /\ total_frames = FrameCount
        /\ UNCHANGED <<phys_mem_start, total_frames, ret>>
        /\ idx \in 0 .. FrameCount - 1 /\ addr = FrameAddress(idx)
        /\ \A j \in 0 .. FrameCount - 1 : InUse(j)' <=> InUse(j) /\ j # idx
    BY <1>2, FreedFrame
  <2> HIDE DEF idx
  <2>2. addr \in ManagedFrames
    BY <2>1 DEF ManagedFrames, FrameAddress
  <2>3. FreeFrames' = FreeFrames \cup {addr}
    <3>1. \A j : FrameAddress(j)' = FrameAddress(j)
      BY <2>1 DEF FrameAddress
    <3>2. FreeFrames' = {FrameAddress(j) : j \in {k \in 0 .. FrameCount - 1 : ~InUse(k)'}}
      BY <2>1, <3>1 DEF FreeFrames
    <3>3. FreeFrames = {FrameAddress(j) : j \in {k \in 0 .. FrameCount - 1 : ~InUse(k)}}
      BY <2>1 DEF FreeFrames
    <3> QED
      BY <2>1, <3>2, <3>3
  <2>4. Started /\ Started' = Started
    BY <2>1, Geometry DEF Started
  <2>5. FA!Free(addr)
    BY <2>1, <2>2, <2>3, <2>4 DEF FA!Free, FA!Released
  <2> QED
    BY <2>2, <2>5
<1> QED
  BY <1>1, <1>2

\* Every step of the bitmap is a step of the first-fit allocator or none.
LEMMA StepImplements == IInv /\ [Next]_vars => [FA!Next]_(FA!vars)
<1> SUFFICES ASSUME IInv, [Next]_vars PROVE FA!Next \/ UNCHANGED FA!vars
  OBVIOUS
<1>1. CASE pmm_init
  BY <1>1, PmmInitImplements DEF FA!Next
<1>2. CASE alloc_frame
  BY <1>2, AllocFrameImplements DEF FA!Next
<1>3. CASE alloc_frame_oom
  BY <1>3, AllocFailsImplements DEF FA!Next
<1>4. CASE \E addr \in Addresses : free_frame(addr)
  BY <1>4, FreeFrameImplements DEF FA!Next
<1>5. CASE UNCHANGED vars
  BY <1>5 DEF vars, FA!vars, Started, FreeFrames, InUse, FrameAddress
<1> QED
  BY <1>1, <1>2, <1>3, <1>4, <1>5 DEF Next

\* For every size of memory, page and word the bitmap is a first-fit
\* allocator: alloc_frame returns the lowest free frame, 0 only when none is
\* free, and free_frame gives back one managed frame or does nothing.
THEOREM BitmapImplementsFrameAllocator == Spec => ImplementsFrameAllocator
<1>1. Init => FA!Init
  BY InitImplements
<1>2. IInv /\ [Next]_vars => [FA!Next]_(FA!vars)
  BY StepImplements
<1> QED
  BY <1>1, <1>2, Invariant, PTL DEF Spec, ImplementsFrameAllocator, FA!Spec
=============================================================================
