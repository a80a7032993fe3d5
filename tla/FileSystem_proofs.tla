-------------------------- MODULE FileSystem_proofs --------------------------
(***************************************************************************)
(* Proofs about FileSystem.tla, from what BlockChains.tla says of each     *)
(* call's writes to memory.  Nothing is assumed of what fresh memory holds *)
(* where append_block leaves the next pointer unwritten: the theorems say  *)
(* what holds for as long as the block appended last has read as the end   *)
(* of its chain (EndsFresh).  MCFileSystem_stale shows that it need not.   *)
(***************************************************************************)
EXTENDS BlockChains, SequenceTheorems

-----------------------------------------------------------------------------
(* The inductive invariant.                                                *)

\* Entry n of the directory i.
Entry(ins, i, n) == i \in DOMAIN ins /\ ins[i].type = 2 /\ n \in Nat /\ n < ins[i].size

\* The entries are a forest of inodes, with names that are unique in each directory.
Forest(ins, bs) ==
  /\ \A i, n : Entry(ins, i, n) => /\ CellIn(ins, bs, i, n).inode_id \in i + 1 .. Len(ins)
                                   /\ CellIn(ins, bs, i, n).name \in Names
  /\ \A i, n, j, m : Entry(ins, i, n) /\ Entry(ins, j, m)
       /\ CellIn(ins, bs, i, n).inode_id = CellIn(ins, bs, j, m).inode_id => i = j /\ n = m
  /\ \A i, n, m : Entry(ins, i, n) /\ Entry(ins, i, m)
       /\ CellIn(ins, bs, i, n).name = CellIn(ins, bs, i, m).name => n = m

HasChains(ins, bs) == \E chain : Store(ins, bs, chain)

\* What was written to the files is where it was written.
Held(ins, bs, cells) ==
  \A c \in cells : /\ c.ino \in DOMAIN ins /\ ins[c.ino].type = 1
                  /\ c.at \in Nat /\ c.at < ins[c.ino].size
                  /\ CellIn(ins, bs, c.ino, c.at) = c.byte

Inv ==
  /\ HasChains(inodes, blocks) /\ Forest(inodes, blocks) /\ Held(inodes, blocks, stored)
  /\ Len(inodes) <= MaxInodes /\ Len(blocks) <= MaxBlocks /\ ret \in Int

-----------------------------------------------------------------------------
(* Reading a directory.                                                    *)

LEMMA StoreParts ==
  ASSUME NEW ins, NEW bs, HasChains(ins, bs)
  PROVE  /\ ins \in Seq(Inode) /\ bs \in Seq(Block) /\ DOMAIN ins = 1 .. Len(ins)
         /\ Len(ins) \in Nat /\ Len(bs) \in Nat
         /\ \A i \in DOMAIN ins :
              i \in Nat /\ ins[i].type \in {1, 2} /\ ins[i].size \in Nat /\ ins[i].first_block \in Nat
<1>1. ins \in Seq(Inode) /\ bs \in Seq(Block)
  BY DEF HasChains, Store, BlocksTyped
<1>2. DOMAIN ins = 1 .. Len(ins) /\ Len(ins) \in Nat /\ Len(bs) \in Nat
  BY <1>1
<1>3. \A i \in DOMAIN ins :
        i \in Nat /\ ins[i].type \in {1, 2} /\ ins[i].size \in Nat /\ ins[i].first_block \in Nat
  BY <1>1, <1>2, InodeParts
<1> QED
  BY <1>1, <1>2, <1>3

\* The entries and bytes below the size are in the blocks of the chain.
LEMMA CellInSize ==
  ASSUME NEW ins, NEW bs, HasChains(ins, bs), NEW i \in DOMAIN ins,
         NEW n \in Nat, n < ins[i].size
  PROVE  /\ Hop(bs, ins[i].first_block, n \div Capacity(ins[i].type)) # 0
         /\ CellIn(ins, bs, i, n) \in CellOf(ins[i].type)
<1>1. PICK chain : Store(ins, bs, chain)
  BY DEF HasChains
<1>2. /\ ins \in Seq(Inode) /\ Chained(ins, bs, chain) /\ ins[i].size <= Room(ins, chain, i)
      /\ Room(ins, chain, i) \in Nat /\ ins[i].size \in Nat
  BY <1>1, InodeParts, RoomTyped DEF Store, Fits, Room
<1>3. n < Room(ins, chain, i)
  BY <1>2, SMTT(30)
<1>4. /\ Hop(bs, ins[i].first_block, n \div Capacity(ins[i].type)) =
           chain[i][n \div Capacity(ins[i].type) + 1]
      /\ chain[i][n \div Capacity(ins[i].type) + 1] \in 1 .. Len(bs)
  <2>1. OnChain(ins, bs, chain[i], i, n)
    BY <1>2, <1>3, CellOnChain
  <2> QED
    BY <2>1, Zenon DEF OnChain
<1>5. CellIn(ins, bs, i, n) \in CellOf(ins[i].type)
  BY <1>2, <1>3, CellTyped
<1> QED
  BY <1>4, <1>5

LEMMA DirentIs ==
  ASSUME HasChains(inodes, blocks), NEW i, NEW n, Entry(inodes, i, n)
  PROVE  dirent_at(i, n) = CellIn(inodes, blocks, i, n) /\ dirent_at(i, n) \in Dirents
<1>1. i \in DOMAIN inodes /\ inodes[i].type = 2 /\ n \in Nat /\ n < inodes[i].size
  BY DEF Entry
<1>2. Capacity(inodes[i].type) = dirents_per_block /\ CellOf(inodes[i].type) = Dirents
  BY <1>1 DEF Capacity, CellOf
<1>3. /\ Hop(blocks, inodes[i].first_block, n \div Capacity(inodes[i].type)) # 0
      /\ CellIn(inodes, blocks, i, n) \in Dirents
  BY <1>1, <1>2, CellInSize
<1>4. ~(n >= inodes[i].size)
  BY <1>1, StoreParts
<1> QED
  BY <1>2, <1>3, <1>4, Zenon DEF dirent_at, CellIn

LEMMA DirentPastEnd ==
  ASSUME NEW i, NEW n, n >= inodes[i].size
  PROVE  dirent_at(i, n) = NullDirent
BY DEF dirent_at

\* IndexOf finds the entry of that name, if there is one.
LEMMA IndexOfIs ==
  ASSUME HasChains(inodes, blocks), NEW i \in DOMAIN inodes, inodes[i].type = 2, NEW name
  PROVE  /\ IndexOf(i, name) \in 0 .. inodes[i].size
         /\ Listed(i, name) => /\ Entry(inodes, i, IndexOf(i, name))
                               /\ CellIn(inodes, blocks, i, IndexOf(i, name)).name = name
         /\ \A n : Entry(inodes, i, n) /\ CellIn(inodes, blocks, i, n).name = name => Listed(i, name)
<1> DEFINE size == inodes[i].size
           S    == {size} \cup {n \in 0 .. size - 1 : dirent_at(i, n).name = name}
<1>1. size \in Nat
  BY StoreParts
<1>2. Min(S) \in S /\ \A n \in S : Min(S) <= n
  <2>1. S \subseteq Nat /\ S # {}
    BY <1>1
  <2> HIDE DEF S
  <2> QED
    BY <2>1, MinOfNat
<1>3. \A n \in 0 .. size - 1 : Entry(inodes, i, n)
  BY <1>1 DEF Entry
<1>4. IndexOf(i, name) = Min(S)
  BY DEF IndexOf
<1>5. ASSUME Listed(i, name)
      PROVE  Entry(inodes, i, IndexOf(i, name)) /\ CellIn(inodes, blocks, i, IndexOf(i, name)).name = name
  <2>1. Min(S) # size
    BY <1>1, <1>4, <1>5 DEF Listed
  <2>2. Min(S) \in 0 .. size - 1 /\ dirent_at(i, Min(S)).name = name
    BY <1>2, <2>1
  <2>3. Entry(inodes, i, Min(S))
    BY <1>3, <2>2
  <2>4. dirent_at(i, Min(S)) = CellIn(inodes, blocks, i, Min(S))
    BY <2>3, DirentIs
  <2> QED
    BY <1>4, <2>2, <2>3, <2>4
<1>6. ASSUME NEW n, Entry(inodes, i, n), CellIn(inodes, blocks, i, n).name = name
      PROVE  Listed(i, name)
  <2>1. n \in 0 .. size - 1 /\ dirent_at(i, n).name = name
    BY <1>1, <1>6, DirentIs DEF Entry
  <2>2. Min(S) <= n /\ Min(S) \in Int
    BY <1>1, <1>2, <2>1
  <2> QED
    BY <1>1, <1>4, <2>1, <2>2 DEF Listed
<1>7. Min(S) \in 0 .. size
  BY <1>1, <1>2
<1> QED
  BY <1>4, <1>5, <1>6, <1>7

-----------------------------------------------------------------------------
(* Appended blocks whose next pointer reads as zero.                       *)

\* What a call appends last reads as the end of a chain, because all memory
\* does or because this piece of it happens to.
Fresh == StaleNext = {0} \/ EndsFresh

\* The next pointer of the block that append_block appends.
LEMMA AppendedLast ==
  ASSUME NEW bs \in Seq(Block), NEW first, NEW type \in {1, 2}, NEW stale \in Nat
  PROVE  /\ append_block(bs, first, type, stale) \in Seq(Block)
         /\ Len(append_block(bs, first, type, stale)) = Len(bs) + 1
         /\ append_block(bs, first, type, stale)[Len(bs) + 1].next \in {stale, Len(bs) + 1}
<1> DEFINE new  == FreshBlock(type, stale)
           app  == Append(bs, new)
           tail == Hop(bs, first, ChainLength(bs, first) - 1)
<1>1. new \in Block /\ new.next = stale
  <2>1. FreshBlock(type, 0) = [next |-> 0, data |-> FreshBlock(type, 0).data]
    BY DEF FreshBlock
  <2>2. new = [next |-> stale, data |-> FreshBlock(type, 0).data]
    BY DEF FreshBlock
  <2>3. FreshBlock(type, 0).data \in DirData \cup FileData
    BY FreshTyped DEF DataOf
  <2> QED
    BY <2>2, <2>3 DEF Block
<1> HIDE DEF new
<1>2. app \in Seq(Block) /\ Len(app) = Len(bs) + 1 /\ app[Len(bs) + 1].next = stale
  BY <1>1
<1>3. append_block(bs, first, type, stale) =
        IF first = 0 THEN app ELSE [app EXCEPT ![tail].next = Len(app)]
  BY DEF append_block, new
<1> HIDE DEF app, tail
<1>4. \A t : /\ [app EXCEPT ![t].next = Len(app)] \in Seq(Block)
             /\ Len([app EXCEPT ![t].next = Len(app)]) = Len(app)
             /\ [app EXCEPT ![t].next = Len(app)][Len(bs) + 1].next \in {stale, Len(bs) + 1}
  <2> SUFFICES ASSUME NEW t
               PROVE  /\ [app EXCEPT ![t].next = Len(app)] \in Seq(Block)
                      /\ Len([app EXCEPT ![t].next = Len(app)]) = Len(app)
                      /\ [app EXCEPT ![t].next = Len(app)][Len(bs) + 1].next \in {stale, Len(bs) + 1}
    BY SMTT(30)
  <2> DEFINE r == [app[t] EXCEPT !.next = Len(app)]
  <2>1. CASE t \in 1 .. Len(app)
    <3>1. r \in Block /\ r.next = Len(app)
      BY <1>2, <2>1, SetNext, SMTT(30)
    <3> HIDE DEF r
    <3>2. /\ [app EXCEPT ![t] = r] \in Seq(Block) /\ Len([app EXCEPT ![t] = r]) = Len(app)
          /\ \A k \in 1 .. Len(app) : [app EXCEPT ![t] = r][k] = IF k = t THEN r ELSE app[k]
      BY <1>2, <2>1, <3>1, ExceptTyped
    <3>3. Len(bs) + 1 \in 1 .. Len(app)
      BY <1>2
    <3>4. [app EXCEPT ![t] = r][Len(bs) + 1].next \in {stale, Len(bs) + 1}
      BY <1>2, <3>1, <3>2, <3>3
    <3> QED
      BY <3>2, <3>4 DEF r
  <2>2. CASE t \notin 1 .. Len(app)
    <3>1. [app EXCEPT ![t].next = Len(app)] = app
      BY <1>2, <2>2
    <3> QED
      BY <1>2, <3>1
  <2> QED
    BY <2>1, <2>2
<1> QED
  BY <1>2, <1>3, <1>4

LEMMA CreateFresh ==
  ASSUME Fresh, HasChains(inodes, blocks), NEW parent, NEW name \in CallNames,
         NEW type \in CallTypes, NEW stale \in StaleNext, fs_create(parent, name, type, stale)
  PROVE  fs_create(parent, name, type, 0)
<1> DEFINE dir      == inodes[parent]
           grown(s) == IF Grows(dir) THEN append_block(blocks, dir.first_block, 2, s) ELSE blocks
           first(s) == IF Grows(dir) /\ dir.first_block = 0 THEN Len(grown(s)) ELSE dir.first_block
           b(s)     == Hop(grown(s), first(s), dir.size \div dirents_per_block)
           v        == [inode_id |-> Len(inodes) + 1, name |-> name]
<1>1. stale \in Nat /\ blocks \in Seq(Block)
  BY StoreParts, FileSystemAssumption, SMTT(30)
<1>2. CASE ~Grows(dir)
  BY <1>2 DEF fs_create
<1>3. CASE Grows(dir) /\ stale # 0
  <2>1. blocks' = [grown(stale) EXCEPT ![b(stale)].data[dir.size % dirents_per_block] = v]
    BY Zenon DEF fs_create
  <2>2. /\ grown(stale) \in Seq(Block) /\ Len(grown(stale)) = Len(blocks) + 1
        /\ grown(stale)[Len(blocks) + 1].next \in {stale, Len(blocks) + 1}
    BY <1>1, <1>3, AppendedLast
  <2> HIDE DEF grown, b, v
  <2>3. /\ Len(blocks') = Len(grown(stale))
        /\ blocks'[Len(blocks) + 1].next = grown(stale)[Len(blocks) + 1].next
    <3>1. Len(blocks') = Len(grown(stale))
      BY <2>1, <2>2, LengthKept
    <3>2. \A k \in 1 .. Len(grown(stale)) :
            blocks'[k].next = grown(stale)[k].next
      BY <2>1, <2>2 DEF Block
    <3> QED
      BY <1>1, <2>2, <3>1, <3>2
  <2>4. blocks'[Len(blocks) + 1].next # 0 /\ Len(blocks') = Len(blocks) + 1
    BY <1>1, <1>3, <2>2, <2>3
  <2>5. ~EndsFresh
    BY <1>1, <2>4 DEF EndsFresh
  <2> QED
    BY <1>3, <2>5 DEF Fresh
<1>4. CASE stale = 0
  BY <1>4
<1> QED
  BY <1>2, <1>3, <1>4

\* fs_write's loop, with any content of the next pointers.
Grown(h, old, first, n, stale) ==
  h = [j \in 0 .. n |-> IF j = 0 THEN blocks
                        ELSE append_block(h[j - 1], IF j = 1 THEN old ELSE first, 1, stale)]

LEMMA GrownExists ==
  ASSUME blocks \in Seq(Block), NEW old, NEW first, NEW n \in Nat, NEW stale \in Nat
  PROVE  \E h : /\ Grown(h, old, first, n, stale)
                /\ h[0] = blocks
                /\ n > 0 => /\ h[n] \in Seq(Block) /\ Len(h[n]) > Len(blocks)
                            /\ h[n][Len(h[n])].next \in {stale, Len(h[n])}
<1> DEFINE T    == {bs \in Seq(Block) : Len(bs) >= Len(blocks)}
           step == [j \in 1 .. n |-> [x \in T |->
                      append_block(x, IF j = 1 THEN old ELSE first, 1, stale)]]
<1>1. \A x \in T : \A f : append_block(x, f, 1, stale) \in T
  BY AppendedLast, SMTT(30)
<1>2. step \in [1 .. n -> [T -> T]] /\ blocks \in T
  BY <1>1
<1>3. \A j \in 1 .. n, x \in T :
        step[j][x] = append_block(x, IF j = 1 THEN old ELSE first, 1, stale)
  OBVIOUS
<1> HIDE DEF step
<1>4. PICK h \in [0 .. n -> T] : h[0] = blocks /\ \A j \in 1 .. n : h[j] = step[j][h[j - 1]]
  <2> HIDE DEF T
  <2> QED
    BY <1>2, Iterate, SMTT(30)
<1>5. \A j \in 1 .. n : /\ h[j - 1] \in T
                        /\ h[j] = append_block(h[j - 1], IF j = 1 THEN old ELSE first, 1, stale)
  <2> HIDE DEF T
  <2>1. \A j \in 1 .. n : j - 1 \in 0 .. n
    OBVIOUS
  <2> QED
    BY <1>3, <1>4, <2>1
<1>6. Grown(h, old, first, n, stale)
  <2> HIDE DEF T
  <2>1. \A j \in 0 .. n : j # 0 => j \in 1 .. n
    OBVIOUS
  <2> QED
    BY <1>4, <1>5, <2>1, SMTT(30) DEF Grown
<1>7. ASSUME n > 0
      PROVE  /\ h[n] \in Seq(Block) /\ Len(h[n]) > Len(blocks)
             /\ h[n][Len(h[n])].next \in {stale, Len(h[n])}
  <2>1. n \in 1 .. n
    BY <1>7
  <2>2. PICK f : h[n] = append_block(h[n - 1], f, 1, stale)
    BY <1>5, <2>1
  <2>3. h[n - 1] \in Seq(Block) /\ Len(h[n - 1]) >= Len(blocks)
    BY <1>5, <2>1
  <2>4. /\ h[n] \in Seq(Block) /\ Len(h[n]) = Len(h[n - 1]) + 1
        /\ h[n][Len(h[n - 1]) + 1].next \in {stale, Len(h[n - 1]) + 1}
    <3>1. \A bs \in Seq(Block) :
            /\ append_block(bs, f, 1, stale) \in Seq(Block)
            /\ Len(append_block(bs, f, 1, stale)) = Len(bs) + 1
            /\ append_block(bs, f, 1, stale)[Len(bs) + 1].next \in {stale, Len(bs) + 1}
      BY AppendedLast
    <3> QED
      BY <2>2, <2>3, <3>1, Zenon
  <2> QED
    BY <2>3, <2>4
<1> QED
  BY <1>4, <1>6, <1>7

LEMMA GrownOnce ==
  ASSUME NEW old, NEW first, NEW n \in Nat, NEW stale, NEW g, Grown(g, old, first, n, stale),
         NEW h, Grown(h, old, first, n, stale)
  PROVE  g = h
<1>1. /\ g[0] = h[0] /\ DOMAIN g = 0 .. n /\ DOMAIN h = 0 .. n
      /\ g = [j \in DOMAIN g |-> g[j]] /\ h = [j \in DOMAIN h |-> h[j]]
  BY DEF Grown
<1>2. ASSUME NEW j \in Nat, j + 1 <= n, g[j] = h[j]
      PROVE  g[j + 1] = h[j + 1]
  <2>1. j + 1 \in 0 .. n /\ j + 1 # 0 /\ (j + 1) - 1 = j
    BY <1>2
  <2> QED
    BY <1>2, <2>1, SMTT(30) DEF Grown
<1> DEFINE S == {j \in Nat : j <= n => g[j] = h[j]}
<1>3. 0 \in S /\ \A j \in Nat : j \in S => j + 1 \in S
  BY <1>1, <1>2
<1>4. Nat \subseteq S
  <2> HIDE DEF S
  <2> QED
    BY <1>3, InductionOnNat
<1>5. \A j \in 0 .. n : g[j] = h[j]
  BY <1>4
<1> QED
  BY <1>1, <1>5, Zenon

LEMMA WriteFresh ==
  ASSUME Fresh, HasChains(inodes, blocks), NEW ino, NEW offset \in Offsets,
         NEW src \in Sources, NEW stale \in StaleNext, fs_write(ino, offset, src, stale)
  PROVE  fs_write(ino, offset, src, 0)
<1> DEFINE file  == inodes[ino]
           end   == offset + Len(src)
           count == ChainLength(blocks, file.first_block)
           added == Max({0, BlocksFor(end) - count})
           first == IF file.first_block = 0 /\ added > 0 THEN Len(blocks) + 1 ELSE file.first_block
           g(s)  == CHOOSE g : Grown(g, file.first_block, first, added, s)
<1>1. stale \in Nat /\ 0 \in Nat /\ blocks \in Seq(Block) /\ Len(blocks) \in Nat
  BY StoreParts, FileSystemAssumption
<1>2. added \in Nat
  <2>1. PICK chain : Store(inodes, blocks, chain)
    BY DEF HasChains
  <2>2. ino \in DOMAIN inodes /\ file.type = 1
    BY DEF fs_write, is_file, exists
  <2>3. end \in Nat
    BY FileSystemAssumption
  <2> HIDE DEF end
  <2> QED
    BY <2>1, <2>2, <2>3, AddedIs
<1>3. ASSUME NEW s \in Nat
      PROVE  fs_write(ino, offset, src, s) <=>
               /\ is_file(ino) /\ Len(blocks) + added <= MaxBlocks
               /\ blocks' = CopyIn(g(s)[added], first, offset, src)
               /\ inodes' = [inodes EXCEPT ![ino].first_block = first, ![ino].size = Max({@, end})]
               /\ ret' = Len(src) /\ stored' = Overlay(stored, ino, offset, src)
  BY Zenon DEF fs_write, Grown
<1> HIDE DEF added, first, g
<1>4. ASSUME NEW s \in Nat
      PROVE  /\ g(s)[0] = blocks
             /\ added > 0 => /\ g(s)[added] \in Seq(Block) /\ Len(g(s)[added]) > Len(blocks)
                             /\ g(s)[added][Len(g(s)[added])].next \in {s, Len(g(s)[added])}
  <2> DEFINE P(h) == Grown(h, file.first_block, first, added, s)
  <2>1. PICK h : /\ P(h) /\ h[0] = blocks
                 /\ added > 0 => /\ h[added] \in Seq(Block) /\ Len(h[added]) > Len(blocks)
                                 /\ h[added][Len(h[added])].next \in {s, Len(h[added])}
    BY <1>1, <1>2, GrownExists
  <2>2. P(g(s))
    BY <2>1, Zenon DEF g
  <2>3. g(s) = h
    BY <1>2, <2>1, <2>2, GrownOnce
  <2> QED
    BY <2>1, <2>3
<1>5. CASE added = 0
  BY <1>1, <1>3, <1>4, <1>5
<1>6. CASE added > 0 /\ stale # 0
  <2> DEFINE bs == g(stale)[added]
  <2>1. /\ bs \in Seq(Block) /\ Len(bs) > Len(blocks) /\ bs[Len(bs)].next \in {stale, Len(bs)}
    BY <1>1, <1>4, <1>6
  <2>2. blocks' = CopyIn(bs, first, offset, src)
    BY <1>1, <1>3
  <2> HIDE DEF bs
  <2>3. Len(blocks') = Len(bs) /\ \A b \in 1 .. Len(bs) : blocks'[b].next = bs[b].next
    BY <2>1, <2>2 DEF CopyIn, Place, Block
  <2>4. ~EndsFresh
    BY <1>1, <1>6, <2>1, <2>3 DEF EndsFresh
  <2> QED
    BY <1>6, <2>4 DEF Fresh
<1>7. CASE stale = 0
  BY <1>7
<1> QED
  BY <1>2, <1>5, <1>6, <1>7

-----------------------------------------------------------------------------
(* What the calls do to the entries and bytes, and to nothing else.        *)

\* The inodes after the one numbered p has been given another size.
Resized(ins, p, size, ins2) ==
  /\ ins2 \in Seq(Inode) /\ Len(ins2) = Len(ins) /\ DOMAIN ins2 = DOMAIN ins
  /\ \A i \in DOMAIN ins :
       /\ ins2[i].type = ins[i].type
       /\ ins2[i].size = IF i = p THEN size ELSE ins[i].size

LEMMA Edited ==
  ASSUME NEW ins \in Seq(Inode), NEW p \in DOMAIN ins, NEW size \in Nat, NEW first \in Nat
  PROVE  Resized(ins, p, size, EditInode(ins, p, size, first))
BY EditInodeParts DEF Resized

\* fs_create: an inode more, and an entry for it behind the others of p.
Created(ins, bs, ins2, bs2, p, name, type) ==
  /\ p \in DOMAIN ins /\ ins[p].type = 2 /\ name \in Names
  /\ \A n : Entry(ins, p, n) => CellIn(ins, bs, p, n).name # name
  /\ Len(ins2) = Len(ins) + 1
  /\ ins2[Len(ins) + 1].type = type /\ ins2[Len(ins) + 1].size = 0
  /\ \A i \in DOMAIN ins :
       /\ ins2[i].type = ins[i].type
       /\ ins2[i].size = IF i = p THEN ins[i].size + 1 ELSE ins[i].size
  /\ \A i \in DOMAIN ins, n \in Nat : n < ins2[i].size =>
       CellIn(ins2, bs2, i, n) = IF i = p /\ n = ins[p].size
                                 THEN [inode_id |-> Len(ins) + 1, name |-> name]
                                 ELSE CellIn(ins, bs, i, n)

LEMMA CreateDoes ==
  ASSUME Fresh, HasChains(inodes, blocks), NEW parent, NEW name \in CallNames,
         NEW type \in CallTypes, NEW stale \in StaleNext, fs_create(parent, name, type, stale)
  PROVE  /\ HasChains(inodes', blocks') /\ Len(inodes') <= MaxInodes /\ Len(blocks') <= MaxBlocks
         /\ ret' = Len(inodes) + 1
         /\ Created(inodes, blocks, inodes', blocks', parent, name, type)
<1> DEFINE dir   == inodes[parent]
           new   == Len(inodes) + 1
           grown == IF Grows(dir) THEN append_block(blocks, dir.first_block, 2, 0) ELSE blocks
           first == IF Grows(dir) /\ dir.first_block = 0 THEN Len(grown) ELSE dir.first_block
           v     == [inode_id |-> new, name |-> name]
           mid   == EditInode(inodes, parent, dir.size + 1, first)
<1>1. PICK chain : Store(inodes, blocks, chain)
  BY DEF HasChains
<1>2. /\ CanCreate(parent, name)
      /\ new <= MaxInodes /\ Len(grown) <= MaxBlocks
      /\ inodes' = Append([inodes EXCEPT ![parent].size = @ + 1, ![parent].first_block = first],
                          NewInode(type))
      /\ blocks' = WriteCell(grown, Hop(grown, first, dir.size \div dirents_per_block),
                             dir.size % dirents_per_block, v)
      /\ ret' = new
  <2>1. fs_create(parent, name, type, 0)
    BY CreateFresh
  <2> QED
    BY <2>1, Zenon DEF fs_create, WriteCell
<1>3. /\ inodes \in Seq(Inode) /\ Len(inodes) \in Nat /\ DOMAIN inodes = 1 .. Len(inodes)
      /\ parent \in DOMAIN inodes /\ dir.type = 2 /\ dir.size \in Nat /\ name \in Names /\ type \in {1, 2}
  BY <1>2, StoreParts, FileSystemAssumption, SMTT(30) DEF CanCreate, is_dir, exists, CallNames
<1>4. \A n : Entry(inodes, parent, n) => CellIn(inodes, blocks, parent, n).name # name
  BY <1>2, <1>3, IndexOfIs DEF CanCreate
<1>5. v \in Dirents
  BY <1>3 DEF Dirents
<1>6. inodes' = Append(mid, NewInode(type))
  <2>1. \A s, f : [inodes EXCEPT ![parent].size = s, ![parent].first_block = f] =
                    EditInode(inodes, parent, s, f)
    <3>1. inodes[parent] \in Inode
      BY <1>3
    <3> QED
      BY <1>3, <3>1 DEF EditInode, Inode
  <2> HIDE DEF first
  <2> QED
    BY <1>2, <2>1, Zenon
<1>7. AddsEntry(inodes, blocks, parent, v, grown, first, mid, blocks')
  BY <1>2 DEF AddsEntry
<1> HIDE DEF grown, first, v, mid
<1>8. /\ HasChains(mid, blocks') /\ Len(blocks') = Len(grown) /\ first \in Nat
      /\ \A i \in DOMAIN inodes, n \in Nat :
           n < mid[i].size =>
             CellIn(mid, blocks', i, n) = IF i = parent /\ n = dir.size THEN v
                                          ELSE CellIn(inodes, blocks, i, n)
  BY <1>1, <1>3, <1>5, <1>7, EntryAdded, SMTT(30) DEF HasChains
<1>9. /\ mid \in Seq(Inode) /\ Len(mid) = Len(inodes) /\ DOMAIN mid = DOMAIN inodes
      /\ \A i \in DOMAIN inodes :
           /\ mid[i].type = inodes[i].type
           /\ mid[i].size = IF i = parent THEN dir.size + 1 ELSE inodes[i].size
  <2>3. inodes \in Seq(Inode) /\ parent \in DOMAIN inodes
    BY <1>3
  <2>1. ASSUME NEW s \in Nat, NEW f \in Nat
        PROVE  Resized(inodes, parent, s, EditInode(inodes, parent, s, f))
    BY <2>3, Edited, Zenon
  <2>2. dir.size + 1 \in Nat
    BY <1>3
  <2>4. Resized(inodes, parent, dir.size + 1, mid)
    BY <1>8, <2>1, <2>2, Zenon DEF mid
  <2> HIDE DEF mid
  <2> QED
    BY <2>4, Zenon DEF Resized
<1>10. /\ HasChains(inodes', blocks') /\ Len(inodes') = new
       /\ inodes'[new] = NewInode(type) /\ \A i \in DOMAIN inodes : inodes'[i] = mid[i]
       /\ \A i \in DOMAIN inodes, n \in Nat :
            CellIn(inodes', blocks', i, n) = CellIn(mid, blocks', i, n)
  <2>1. HasChains(inodes', blocks')
    BY <1>3, <1>6, <1>8, InodeStored DEF HasChains
  <2>2. \A i \in DOMAIN inodes, n \in Nat :
          CellIn(inodes', blocks', i, n) = CellIn(mid, blocks', i, n)
    <3>1. PICK c : Store(mid, blocks', c)
      BY <1>8 DEF HasChains
    <3> QED
      <4>1. \A i \in DOMAIN mid, n \in Nat :
              CellIn(Append(mid, NewInode(type)), blocks', i, n) = CellIn(mid, blocks', i, n)
        BY <1>3, <3>1, InodeStored, ZenonT(60)
      <4> QED
        BY <1>6, <1>9, <4>1, Zenon
  <2>3. /\ Len(inodes') = new
        /\ inodes'[new] = NewInode(type) /\ \A i \in DOMAIN inodes : inodes'[i] = mid[i]
    BY <1>3, <1>6, <1>9, SMTT(30)
  <2> QED
    BY <2>1, <2>2, <2>3
<1>11. Created(inodes, blocks, inodes', blocks', parent, name, type)
  <2>1. inodes'[new].type = type /\ inodes'[new].size = 0
    BY <1>10 DEF NewInode
  <2>2. ASSUME NEW i \in DOMAIN inodes
        PROVE  /\ inodes'[i].type = inodes[i].type
               /\ inodes'[i].size = IF i = parent THEN inodes[i].size + 1 ELSE inodes[i].size
    BY <1>9, <1>10
  <2>3. ASSUME NEW i \in DOMAIN inodes, NEW n \in Nat, n < inodes'[i].size
        PROVE  CellIn(inodes', blocks', i, n) =
                 IF i = parent /\ n = dir.size THEN v ELSE CellIn(inodes, blocks, i, n)
    BY <1>8, <1>10, <2>3, SMTT(30)
  <2> QED
    BY <1>3, <1>4, <1>10, <2>1, <2>2, <2>3 DEF Created, v
<1> QED
  BY <1>2, <1>8, <1>10, <1>11, Zenon

\* fs_unlink: the last entry of p takes the place m, and is one less.
Unlinked(ins, bs, ins2, bs2, p, m) ==
  /\ Entry(ins, p, m) /\ Len(ins2) = Len(ins)
  /\ \A i \in DOMAIN ins :
       /\ ins2[i].type = ins[i].type
       /\ ins2[i].size = IF i = p THEN ins[i].size - 1 ELSE ins[i].size
  /\ \A i \in DOMAIN ins, n \in Nat : n < ins2[i].size =>
       CellIn(ins2, bs2, i, n) = CellIn(ins, bs, i, IF i = p /\ n = m THEN ins[p].size - 1 ELSE n)

LEMMA UnlinkDoes ==
  ASSUME HasChains(inodes, blocks), NEW parent, NEW name, fs_unlink(parent, name)
  PROVE  /\ HasChains(inodes', blocks') /\ Len(inodes') = Len(inodes) /\ Len(blocks') = Len(blocks)
         /\ ret' = 0
         /\ Listed(parent, name)
         /\ Unlinked(inodes, blocks, inodes', blocks', parent, IndexOf(parent, name))
<1> DEFINE dir  == inodes[parent]
           m    == IndexOf(parent, name)
           last == dir.size - 1
           v    == CellIn(inodes, blocks, parent, last)
<1>1. PICK chain : Store(inodes, blocks, chain)
  BY DEF HasChains
<1>2. /\ CanUnlink(parent, name)
      /\ blocks' = WriteCell(blocks, Hop(blocks, dir.first_block, m \div dirents_per_block),
                             m % dirents_per_block, dirent_at(parent, last))
      /\ inodes' = [inodes EXCEPT ![parent].size = @ - 1]
      /\ ret' = 0
  BY Zenon DEF fs_unlink, WriteCell
<1>3. /\ inodes \in Seq(Inode) /\ blocks \in Seq(Block) /\ parent \in DOMAIN inodes /\ dir.type = 2
      /\ dir.size \in Nat /\ Listed(parent, name) /\ dir.first_block \in Nat
  BY <1>2, StoreParts DEF CanUnlink, is_dir, exists
<1>4. Entry(inodes, parent, m) /\ m \in 0 .. last
  <2>1. Entry(inodes, parent, m)
    BY <1>3, IndexOfIs
  <2> QED
    BY <1>3, <2>1 DEF Entry
<1>5. last \in Nat /\ Entry(inodes, parent, last)
  BY <1>3, <1>4, SMTT(30) DEF Entry
<1>6. dirent_at(parent, last) = v
  BY <1>5, DirentIs
<1>7. inodes' = EditInode(inodes, parent, last, dir.first_block)
  <2>1. inodes[parent] \in Inode
    BY <1>3
  <2>2. [inodes EXCEPT ![parent].size = last] = EditInode(inodes, parent, last, dir.first_block)
    BY <1>3, <2>1 DEF EditInode, Inode
  <2> QED
    BY <1>2, <2>2, Zenon
<1>8. MovesLast(inodes, blocks, parent, m, inodes', blocks')
  <2>1. blocks' = WriteCell(blocks, Hop(blocks, dir.first_block, m \div dirents_per_block),
                            m % dirents_per_block, v)
    BY <1>2, <1>6
  <2> QED
    BY <1>7, <2>1, Zenon DEF MovesLast
<1> HIDE DEF m, v
<1>9. /\ HasChains(inodes', blocks')
      /\ \A i \in DOMAIN inodes, n \in Nat :
           n < inodes'[i].size =>
             CellIn(inodes', blocks', i, n) =
               CellIn(inodes, blocks, i, IF i = parent /\ n = m THEN last ELSE n)
  BY <1>1, <1>3, <1>4, <1>8, EntryMoved, SMTT(30) DEF HasChains
<1>10. Len(blocks') = Len(blocks)
  BY <1>2, <1>3, LengthKept DEF WriteCell
<1>11. /\ Len(inodes') = Len(inodes)
       /\ \A i \in DOMAIN inodes :
            /\ inodes'[i].type = inodes[i].type
            /\ inodes'[i].size = IF i = parent THEN inodes[i].size - 1 ELSE inodes[i].size
  <2>1. \A s \in Nat, f \in Nat : Resized(inodes, parent, s, EditInode(inodes, parent, s, f))
    BY <1>3, Edited, Zenon
  <2>2. Resized(inodes, parent, last, inodes')
    BY <1>3, <1>5, <1>7, <2>1, Zenon
  <2>3. inodes[parent].size - 1 = last
    OBVIOUS
  <2> QED
    BY <2>2, <2>3, Zenon DEF Resized
<1> QED
  BY <1>2, <1>3, <1>4, <1>9, <1>10, <1>11 DEF Unlinked, m

\* fs_write: the bytes of src from offset on, and the size to match.
Written(ins, bs, ins2, bs2, p, offset, src) ==
  /\ p \in DOMAIN ins /\ ins[p].type = 1 /\ Len(ins2) = Len(ins)
  /\ \A i \in DOMAIN ins :
       /\ ins2[i].type = ins[i].type
       /\ ins2[i].size = IF i = p /\ offset + Len(src) > ins[p].size THEN offset + Len(src)
                         ELSE ins[i].size
  /\ \A i \in DOMAIN ins, n \in Nat : n < ins2[i].size =>
       IF i = p /\ n \in offset .. offset + Len(src) - 1
       THEN CellIn(ins2, bs2, i, n) = src[n - offset + 1]
       ELSE n < ins[i].size => CellIn(ins2, bs2, i, n) = CellIn(ins, bs, i, n)

LEMMA WriteDoes ==
  ASSUME Fresh, HasChains(inodes, blocks), NEW ino, NEW offset \in Offsets,
         NEW src \in Sources, NEW stale \in StaleNext, fs_write(ino, offset, src, stale)
  PROVE  /\ HasChains(inodes', blocks') /\ Len(inodes') = Len(inodes) /\ Len(blocks') <= MaxBlocks
         /\ ret' = Len(src)
         /\ Written(inodes, blocks, inodes', blocks', ino, offset, src)
<1> DEFINE file  == inodes[ino]
           end   == offset + Len(src)
           count == ChainLength(blocks, file.first_block)
           added == Max({0, BlocksFor(end) - count})
           first == IF file.first_block = 0 /\ added > 0 THEN Len(blocks) + 1 ELSE file.first_block
           h     == CHOOSE h : Appends(h, blocks, file.first_block, first, added)
<1>1. PICK chain : Store(inodes, blocks, chain)
  BY DEF HasChains
<1>2. /\ is_file(ino)
      /\ Len(blocks) + added <= MaxBlocks
      /\ inodes' = [inodes EXCEPT ![ino].first_block = first, ![ino].size = Max({@, end})]
      /\ ret' = Len(src)
  BY DEF fs_write
<1>3. blocks' = CopyIn(h[added], first, offset, src)
  <2>1. fs_write(ino, offset, src, 0)
    BY WriteFresh
  <2> QED
    BY <2>1, Zenon DEF fs_write, Appends
<1>4. /\ inodes \in Seq(Inode) /\ blocks \in Seq(Block) /\ ino \in DOMAIN inodes /\ file.type = 1
      /\ file.size \in Nat /\ offset \in Nat /\ src \in Seq(Bytes) /\ Len(src) \in Nat /\ end \in Nat
  BY <1>2, StoreParts, FileSystemAssumption, SMTT(30) DEF is_file, exists
<1>5. added \in Nat
  <2> HIDE DEF end
  <2> QED
    BY <1>1, <1>4, AddedIs
<1> HIDE DEF added, first, end
<1>6. Appends(h, blocks, file.first_block, first, added)
  <2>1. \E g : Appends(g, blocks, file.first_block, first, added)
    BY <1>4, <1>5, AppendsExist
  <2> QED
    BY <2>1, Zenon
<1> HIDE DEF h
<1>7. inodes' = EditInode(inodes, ino, Max({file.size, end}), first)
  <2>1. inodes[ino] \in Inode
    BY <1>4
  <2>2. \A s, f : [inodes EXCEPT ![ino].first_block = f, ![ino].size = s] = EditInode(inodes, ino, s, f)
    BY <1>4, <2>1, ZenonT(60) DEF EditInode, Inode
  <2> QED
    BY <1>2, <2>2, Zenon
<1>8. FileWritten(inodes, blocks, ino, offset, src, added, first, h, inodes', blocks')
  BY <1>3, <1>6, <1>7, Zenon DEF FileWritten, added, first, end
<1>9. /\ Len(blocks') = Len(blocks) + added /\ first \in Nat
      /\ HasChains(inodes', blocks')
      /\ \A i \in DOMAIN inodes, n \in Nat :
           n < inodes'[i].size =>
             IF i = ino /\ n \in offset .. offset + Len(src) - 1
             THEN CellIn(inodes', blocks', i, n) = src[n - offset + 1]
             ELSE n < inodes[i].size => CellIn(inodes', blocks', i, n) = CellIn(inodes, blocks, i, n)
  BY <1>1, <1>4, <1>8, BytesWritten, SMTT(30) DEF HasChains
<1>10. Max({file.size, end}) = IF end > file.size THEN end ELSE file.size
  <2>1. Max({file.size, end}) = IF file.size >= end THEN file.size ELSE end
    <3>1. file.size \in Int /\ end \in Int
      BY <1>4
    <3> QED
      BY <3>1, MaxOfTwo
  <2> QED
    BY <1>4, <2>1, SMTT(30)
<1>11. /\ Len(inodes') = Len(inodes)
       /\ \A i \in DOMAIN inodes :
            /\ inodes'[i].type = inodes[i].type
            /\ inodes'[i].size = IF i = ino THEN Max({file.size, end}) ELSE inodes[i].size
  <2>3. inodes \in Seq(Inode) /\ ino \in DOMAIN inodes
    BY <1>4
  <2>1. ASSUME NEW s \in Nat, NEW f \in Nat
        PROVE  Resized(inodes, ino, s, EditInode(inodes, ino, s, f))
    BY <2>3, Edited, Zenon
  <2>2. Max({file.size, end}) \in Nat
    BY <1>4, <1>10
  <2>4. Resized(inodes, ino, Max({file.size, end}), inodes')
    BY <1>7, <1>9, <2>1, <2>2, Zenon
  <2> QED
    BY <2>4, Zenon DEF Resized
<1>12. \A i \in DOMAIN inodes :
         inodes'[i].size = IF i = ino /\ offset + Len(src) > inodes[ino].size THEN offset + Len(src)
                           ELSE inodes[i].size
  BY <1>10, <1>11 DEF end
<1>13. Written(inodes, blocks, inodes', blocks', ino, offset, src)
  BY <1>4, <1>9, <1>11, <1>12 DEF Written
<1> QED
  BY <1>2, <1>9, <1>11, <1>13

LEMMA InitDoes ==
  ASSUME HasChains(inodes, blocks), fs_init
  PROVE  /\ HasChains(inodes', blocks') /\ Len(inodes') = 1 /\ blocks' = blocks /\ ret' = ret
         /\ inodes = <<>> /\ DOMAIN inodes' = {1} /\ inodes'[1] = NewInode(2)
<1>1. PICK chain : Store(inodes, blocks, chain)
  BY DEF HasChains
<1>2. inodes = <<>> /\ inodes' = Append(inodes, NewInode(2)) /\ blocks' = blocks /\ ret' = ret
  BY DEF fs_init
<1>3. Store(Append(inodes, NewInode(2)), blocks, WithInode(chain, Len(inodes)))
  BY <1>1, InodeStored
<1>4. HasChains(inodes', blocks')
  BY <1>2, <1>3 DEF HasChains
<1>5. Len(inodes') = 1 /\ DOMAIN inodes' = {1} /\ inodes'[1] = NewInode(2)
  BY DEF fs_init
<1> QED
  BY <1>2, <1>4, <1>5

-----------------------------------------------------------------------------
(* The entries stay a forest.                                              *)

\* Every entry after fs_create is the new one or was there before.
LEMMA CreatedEntries ==
  ASSUME NEW ins, NEW bs, HasChains(ins, bs), NEW ins2, NEW bs2, HasChains(ins2, bs2),
         NEW p, NEW name, NEW type, Created(ins, bs, ins2, bs2, p, name, type),
         NEW i, NEW n, Entry(ins2, i, n)
  PROVE  \/ /\ i = p /\ n = ins[p].size
            /\ CellIn(ins2, bs2, i, n) = [inode_id |-> Len(ins) + 1, name |-> name]
         \/ Entry(ins, i, n) /\ CellIn(ins2, bs2, i, n) = CellIn(ins, bs, i, n)
<1>1. /\ i \in DOMAIN ins2 /\ ins2[i].type = 2 /\ n \in Nat /\ n < ins2[i].size
      /\ DOMAIN ins = 1 .. Len(ins) /\ DOMAIN ins2 = 1 .. Len(ins2) /\ Len(ins) \in Nat
      /\ Len(ins2) = Len(ins) + 1 /\ ins2[Len(ins) + 1].size = 0 /\ p \in DOMAIN ins
  BY StoreParts DEF Entry, Created
<1>2. i \in DOMAIN ins
  <2>1. i # Len(ins) + 1
    BY <1>1
  <2> QED
    BY <1>1, <2>1
<1>3. /\ ins2[i].type = ins[i].type /\ ins2[i].size = IF i = p THEN ins[i].size + 1 ELSE ins[i].size
      /\ ins[i].size \in Nat
      /\ CellIn(ins2, bs2, i, n) = IF i = p /\ n = ins[p].size
                                   THEN [inode_id |-> Len(ins) + 1, name |-> name]
                                   ELSE CellIn(ins, bs, i, n)
  BY <1>1, <1>2, StoreParts DEF Created
<1> QED
  BY <1>1, <1>2, <1>3, SMTT(30) DEF Entry

LEMMA ForestCreated ==
  ASSUME NEW ins, NEW bs, HasChains(ins, bs), NEW ins2, NEW bs2, HasChains(ins2, bs2),
         NEW p, NEW name, NEW type, Created(ins, bs, ins2, bs2, p, name, type), Forest(ins, bs)
  PROVE  Forest(ins2, bs2)
<1> DEFINE new     == Len(ins) + 1
           old(i, n) == CellIn(ins, bs, i, n)
           at(i, n)  == CellIn(ins2, bs2, i, n)
           Added(i, n) == i = p /\ n = ins[p].size
                          /\ at(i, n).inode_id = new /\ at(i, n).name = name
           Kept(i, n)  == Entry(ins, i, n) /\ at(i, n) = old(i, n)
<1>1. \A i, n : Entry(ins2, i, n) => Added(i, n) \/ Kept(i, n)
  BY CreatedEntries
<1>2. /\ p \in 1 .. Len(ins) /\ name \in Names /\ Len(ins2) = Len(ins) + 1 /\ Len(ins) \in Nat
      /\ \A n : Entry(ins, p, n) => old(p, n).name # name
  BY StoreParts DEF Created
<1>3. \A i, n : Entry(ins, i, n) => /\ old(i, n).inode_id \in i + 1 .. Len(ins)
                                    /\ old(i, n).name \in Names
                                    /\ i \in Nat
  BY StoreParts DEF Forest, Entry
<1>4. \A i, n, j, m : Entry(ins, i, n) /\ Entry(ins, j, m)
        /\ old(i, n).inode_id = old(j, m).inode_id => i = j /\ n = m
  BY DEF Forest
<1>5. \A i, n, m : Entry(ins, i, n) /\ Entry(ins, i, m)
        /\ old(i, n).name = old(i, m).name => n = m
  BY DEF Forest
<1> HIDE DEF old, at
<1>6. ASSUME NEW i, NEW n, Entry(ins2, i, n)
      PROVE  at(i, n).inode_id \in i + 1 .. Len(ins2) /\ at(i, n).name \in Names
  <2>1. CASE Added(i, n)
    BY <1>2, <2>1
  <2>2. CASE Kept(i, n)
    BY <1>2, <1>3, <2>2
  <2> QED
    BY <1>1, <1>6, <2>1, <2>2
<1>7. \A i, n : Kept(i, n) => at(i, n).inode_id # new
  BY <1>2, <1>3
<1>8. ASSUME NEW i, NEW n, NEW j, NEW m, Entry(ins2, i, n), Entry(ins2, j, m),
             at(i, n).inode_id = at(j, m).inode_id
      PROVE  i = j /\ n = m
  BY <1>1, <1>4, <1>7, <1>8
<1>9. ASSUME NEW i, NEW n, NEW m, Entry(ins2, i, n), Entry(ins2, i, m),
             at(i, n).name = at(i, m).name
      PROVE  n = m
  BY <1>1, <1>2, <1>5, <1>9
<1> QED
  BY <1>6, <1>8, <1>9 DEF Forest, at

\* Every entry after fs_unlink was one before; no two were the same.
LEMMA ForestUnlinked ==
  ASSUME NEW ins, NEW bs, HasChains(ins, bs), NEW ins2, NEW bs2, HasChains(ins2, bs2),
         NEW p, NEW m, Unlinked(ins, bs, ins2, bs2, p, m), Forest(ins, bs)
  PROVE  Forest(ins2, bs2)
<1> DEFINE from(i, n) == IF i = p /\ n = m THEN ins[p].size - 1 ELSE n
           old(i, n)  == CellIn(ins, bs, i, n)
           at(i, n)   == CellIn(ins2, bs2, i, n)
<1>1. ASSUME NEW i, NEW n, Entry(ins2, i, n)
      PROVE  /\ Entry(ins, i, from(i, n)) /\ at(i, n) = old(i, from(i, n))
             /\ i = p => n < ins[p].size - 1
             /\ n \in Nat /\ ins[p].size \in Nat
  <2>1. /\ i \in DOMAIN ins2 /\ ins2[i].type = 2 /\ n \in Nat /\ n < ins2[i].size
        /\ DOMAIN ins = 1 .. Len(ins) /\ DOMAIN ins2 = 1 .. Len(ins2)
        /\ Len(ins2) = Len(ins) /\ Entry(ins, p, m)
    BY <1>1, StoreParts DEF Entry, Unlinked
  <2>2. /\ i \in DOMAIN ins /\ ins[i].size \in Nat /\ ins[p].size \in Nat /\ ins[p].size > 0
    BY <2>1, StoreParts, SMTT(30) DEF Entry
  <2>3. /\ ins2[i].type = ins[i].type /\ ins2[i].size = IF i = p THEN ins[i].size - 1 ELSE ins[i].size
        /\ at(i, n) = old(i, from(i, n))
    BY <2>1, <2>2 DEF Unlinked
  <2> HIDE DEF at, old
  <2>4. from(i, n) \in Nat /\ from(i, n) < ins[i].size
    BY <2>1, <2>2, <2>3, SMTT(30)
  <2> QED
    BY <2>1, <2>2, <2>3, <2>4 DEF Entry
<1>2. ASSUME NEW i, NEW n, NEW k, Entry(ins2, i, n), Entry(ins2, i, k), from(i, n) = from(i, k)
      PROVE  n = k
  BY <1>1, <1>2
<1>3. Len(ins2) = Len(ins)
  BY DEF Unlinked
<1>4. \A i, n : Entry(ins, i, n) => /\ old(i, n).inode_id \in i + 1 .. Len(ins)
                                    /\ old(i, n).name \in Names
  BY DEF Forest
<1>5. \A i, n, j, k : Entry(ins, i, n) /\ Entry(ins, j, k)
        /\ old(i, n).inode_id = old(j, k).inode_id => i = j /\ n = k
  BY DEF Forest
<1>6. \A i, n, k : Entry(ins, i, n) /\ Entry(ins, i, k)
        /\ old(i, n).name = old(i, k).name => n = k
  BY DEF Forest
<1> HIDE DEF old, at, from
<1>7. ASSUME NEW i, NEW n, Entry(ins2, i, n)
      PROVE  at(i, n).inode_id \in i + 1 .. Len(ins2) /\ at(i, n).name \in Names
  BY <1>1, <1>3, <1>4, <1>7
<1>8. ASSUME NEW i, NEW n, NEW j, NEW k, Entry(ins2, i, n), Entry(ins2, j, k),
             at(i, n).inode_id = at(j, k).inode_id
      PROVE  i = j /\ n = k
  BY <1>1, <1>2, <1>5, <1>8
<1>9. ASSUME NEW i, NEW n, NEW k, Entry(ins2, i, n), Entry(ins2, i, k),
             at(i, n).name = at(i, k).name
      PROVE  n = k
  BY <1>1, <1>2, <1>6, <1>9
<1> QED
  BY <1>7, <1>8, <1>9 DEF Forest, at

\* fs_write leaves every entry alone.
LEMMA ForestWritten ==
  ASSUME NEW ins, NEW bs, HasChains(ins, bs), NEW ins2, NEW bs2, HasChains(ins2, bs2),
         NEW p, NEW offset, NEW src, Written(ins, bs, ins2, bs2, p, offset, src), Forest(ins, bs)
  PROVE  Forest(ins2, bs2)
<1>1. ASSUME NEW i, NEW n, Entry(ins2, i, n)
      PROVE  Entry(ins, i, n) /\ CellIn(ins2, bs2, i, n) = CellIn(ins, bs, i, n)
  <2>1. /\ i \in DOMAIN ins2 /\ ins2[i].type = 2 /\ n \in Nat /\ n < ins2[i].size
        /\ DOMAIN ins = 1 .. Len(ins) /\ DOMAIN ins2 = 1 .. Len(ins2)
        /\ Len(ins2) = Len(ins) /\ p \in DOMAIN ins /\ ins[p].type = 1
    BY <1>1, StoreParts DEF Entry, Written
  <2>2. i \in DOMAIN ins /\ ins2[i].type = ins[i].type /\ i # p
    BY <2>1 DEF Written
  <2>3. ins2[i].size = ins[i].size
    BY <2>2 DEF Written
  <2>4. CellIn(ins2, bs2, i, n) = CellIn(ins, bs, i, n)
    BY <2>1, <2>2, <2>3 DEF Written
  <2> QED
    BY <2>1, <2>2, <2>3, <2>4, SMTT(30) DEF Entry
<1>2. Len(ins2) = Len(ins)
  BY DEF Written
<1> QED
  BY <1>1, <1>2 DEF Forest

-----------------------------------------------------------------------------
(* What has been written stays where it was written.                       *)

\* Calls that leave the files as they are leave what they hold.
LEMMA HeldKept ==
  ASSUME NEW ins, NEW bs, NEW ins2, NEW bs2, NEW cells, Held(ins, bs, cells),
         \A i \in DOMAIN ins : ins[i].type = 1 =>
           /\ i \in DOMAIN ins2 /\ ins2[i].type = 1 /\ ins2[i].size = ins[i].size
           /\ \A n \in Nat : n < ins[i].size => CellIn(ins2, bs2, i, n) = CellIn(ins, bs, i, n)
  PROVE  Held(ins2, bs2, cells)
<1>1. ASSUME NEW c \in cells
      PROVE  /\ c.ino \in DOMAIN ins2 /\ ins2[c.ino].type = 1
             /\ c.at \in Nat /\ c.at < ins2[c.ino].size
             /\ CellIn(ins2, bs2, c.ino, c.at) = c.byte
  <2>1. /\ c.ino \in DOMAIN ins /\ ins[c.ino].type = 1 /\ c.at \in Nat /\ c.at < ins[c.ino].size
        /\ CellIn(ins, bs, c.ino, c.at) = c.byte
    BY DEF Held
  <2> QED
    BY <2>1
<1> QED
  BY <1>1 DEF Held

LEMMA HeldCreated ==
  ASSUME NEW ins, NEW bs, HasChains(ins, bs), NEW ins2, NEW bs2, HasChains(ins2, bs2), NEW cells,
         NEW p, NEW name, NEW type, Created(ins, bs, ins2, bs2, p, name, type), Held(ins, bs, cells)
  PROVE  Held(ins2, bs2, cells)
<1>1. ASSUME NEW i \in DOMAIN ins, ins[i].type = 1
      PROVE  /\ i \in DOMAIN ins2 /\ ins2[i].type = 1 /\ ins2[i].size = ins[i].size
             /\ \A n \in Nat : n < ins[i].size => CellIn(ins2, bs2, i, n) = CellIn(ins, bs, i, n)
  <2>1. i # p /\ i \in DOMAIN ins2
    BY <1>1, StoreParts DEF Created
  <2>2. ins2[i].type = 1 /\ ins2[i].size = ins[i].size
    BY <1>1, <2>1 DEF Created
  <2> QED
    BY <2>1, <2>2 DEF Created
<1> QED
  BY <1>1, HeldKept

LEMMA HeldUnlinked ==
  ASSUME NEW ins, NEW bs, HasChains(ins, bs), NEW ins2, NEW bs2, HasChains(ins2, bs2), NEW cells,
         NEW p, NEW m, Unlinked(ins, bs, ins2, bs2, p, m), Held(ins, bs, cells)
  PROVE  Held(ins2, bs2, cells)
<1>1. ASSUME NEW i \in DOMAIN ins, ins[i].type = 1
      PROVE  /\ i \in DOMAIN ins2 /\ ins2[i].type = 1 /\ ins2[i].size = ins[i].size
             /\ \A n \in Nat : n < ins[i].size => CellIn(ins2, bs2, i, n) = CellIn(ins, bs, i, n)
  <2>1. i # p /\ i \in DOMAIN ins2
    BY <1>1, StoreParts DEF Unlinked, Entry
  <2>2. ins2[i].type = 1 /\ ins2[i].size = ins[i].size
    BY <1>1, <2>1 DEF Unlinked
  <2> QED
    BY <2>1, <2>2 DEF Unlinked
<1> QED
  BY <1>1, HeldKept

\* After fs_write the bytes of src are there too, over those in their place.
LEMMA HeldWritten ==
  ASSUME NEW ins, NEW bs, HasChains(ins, bs), NEW ins2, NEW bs2, HasChains(ins2, bs2), NEW cells,
         NEW p, NEW offset \in Nat, NEW src \in Seq(Bytes),
         Written(ins, bs, ins2, bs2, p, offset, src), Held(ins, bs, cells)
  PROVE  Held(ins2, bs2, Overlay(cells, p, offset, src))
<1> DEFINE end == offset + Len(src)
<1>1. /\ p \in DOMAIN ins /\ ins[p].type = 1 /\ DOMAIN ins2 = DOMAIN ins
      /\ \A i \in DOMAIN ins : /\ ins[i].size \in Nat /\ ins2[i].type = ins[i].type
                               /\ ins2[i].size = IF i = p /\ end > ins[p].size THEN end ELSE ins[i].size
      /\ end \in Nat /\ Len(src) \in Nat /\ DOMAIN src = 1 .. Len(src)
  BY StoreParts DEF Written
<1>2. \A i \in DOMAIN ins, n \in Nat : n < ins2[i].size =>
        IF i = p /\ n \in offset .. end - 1
        THEN CellIn(ins2, bs2, i, n) = src[n - offset + 1]
        ELSE n < ins[i].size => CellIn(ins2, bs2, i, n) = CellIn(ins, bs, i, n)
  BY SMTT(30) DEF Written
<1>3. ASSUME NEW c \in cells, c.ino # p \/ c.at \notin offset .. end - 1
      PROVE  /\ c.ino \in DOMAIN ins2 /\ ins2[c.ino].type = 1
             /\ c.at \in Nat /\ c.at < ins2[c.ino].size
             /\ CellIn(ins2, bs2, c.ino, c.at) = c.byte
  <2>1. /\ c.ino \in DOMAIN ins /\ ins[c.ino].type = 1 /\ c.at \in Nat /\ c.at < ins[c.ino].size
        /\ CellIn(ins, bs, c.ino, c.at) = c.byte
    BY DEF Held
  <2>2. c.at < ins2[c.ino].size
    BY <1>1, <2>1, SMTT(30)
  <2>3. CellIn(ins2, bs2, c.ino, c.at) = CellIn(ins, bs, c.ino, c.at)
    <3> HIDE DEF end
    <3> QED
      BY <1>2, <1>3, <2>1, <2>2
  <2> QED
    BY <1>1, <2>1, <2>2, <2>3
<1>4. ASSUME NEW i \in DOMAIN src
      PROVE  /\ ins2[p].type = 1 /\ offset + i - 1 \in Nat /\ offset + i - 1 < ins2[p].size
             /\ CellIn(ins2, bs2, p, offset + i - 1) = src[i]
  <2>1. /\ offset + i - 1 \in offset .. end - 1 /\ offset + i - 1 \in Nat
        /\ offset + i - 1 - offset + 1 = i
    BY <1>1
  <2>2. offset + i - 1 < ins2[p].size /\ ins2[p].type = 1
    <3>1. /\ ins[p].size \in Nat /\ ins2[p].type = 1
          /\ ins2[p].size = IF end > ins[p].size THEN end ELSE ins[p].size
      BY <1>1, Zenon
    <3>2. ins2[p].size >= end /\ ins2[p].size \in Nat
      BY <1>1, <3>1
    <3> QED
      BY <1>1, <2>1, <3>1, <3>2
  <2>3. CellIn(ins2, bs2, p, offset + i - 1) = src[offset + i - 1 - offset + 1]
    <3> DEFINE n == offset + i - 1
    <3>1. p \in DOMAIN ins /\ n \in Nat /\ n < ins2[p].size /\ n \in offset .. end - 1
      BY <1>1, <2>1, <2>2
    <3> HIDE DEF n, end
    <3>2. CellIn(ins2, bs2, p, n) = src[n - offset + 1]
      BY <1>2, <3>1, Zenon
    <3> QED
      BY <3>2 DEF n
  <2> QED
    BY <2>1, <2>2, <2>3
<1>5. ASSUME NEW c \in Overlay(cells, p, offset, src)
      PROVE  /\ c.ino \in DOMAIN ins2 /\ ins2[c.ino].type = 1
             /\ c.at \in Nat /\ c.at < ins2[c.ino].size
             /\ CellIn(ins2, bs2, c.ino, c.at) = c.byte
  <2>1. CASE c \in cells /\ (c.ino # p \/ c.at \notin offset .. end - 1)
    BY <1>3, <2>1
  <2>2. CASE \E i \in DOMAIN src : c = [ino |-> p, at |-> offset + i - 1, byte |-> src[i]]
    BY <1>1, <1>4, <2>2
  <2> QED
    BY <1>5, <2>1, <2>2 DEF Overlay
<1> QED
  BY <1>5 DEF Held

-----------------------------------------------------------------------------
(* The invariant holds in every state.                                     *)

LEMMA NoInodes ==
  ASSUME NEW bs, BlocksTyped(bs)
  PROVE  HasChains(<<>>, bs) /\ Forest(<<>>, bs)
<1>1. Store(<<>>, bs, <<>>)
  BY DEF Store, Chained, Fits
<1>2. \A i, n : ~Entry(<<>>, i, n)
  BY DEF Entry
<1> QED
  BY <1>1, <1>2 DEF HasChains, Forest

LEMMA InvInit == Init => Inv
<1> SUFFICES ASSUME Init PROVE Inv
  OBVIOUS
<1>1. inodes = <<>> /\ blocks = <<>> /\ ret = 0 /\ stored = {}
  BY DEF Init
<1>2. BlocksTyped(<<>>) /\ Len(<<>>) = 0
  BY DEF BlocksTyped
<1>3. HasChains(<<>>, <<>>) /\ Forest(<<>>, <<>>)
  BY <1>2, NoInodes
<1>4. Held(inodes, blocks, stored)
  BY <1>1 DEF Held
<1> QED
  BY <1>1, <1>2, <1>3, <1>4, FileSystemAssumption DEF Inv

\* Every call of the kernel, as one of these, or one that fails.
LEMMA InvNext ==
  ASSUME Fresh, Inv, [Next]_vars
  PROVE  Inv'
<1>1. /\ HasChains(inodes, blocks) /\ Forest(inodes, blocks) /\ Held(inodes, blocks, stored)
      /\ Len(inodes) <= MaxInodes /\ Len(blocks) <= MaxBlocks /\ ret \in Int
      /\ Len(inodes) \in Nat
  BY StoreParts DEF Inv
<1>2. ASSUME fs_init
      PROVE  Inv'
  <2>1. /\ HasChains(inodes', blocks') /\ Len(inodes') = 1 /\ blocks' = blocks /\ ret' = ret
        /\ DOMAIN inodes' = {1} /\ inodes'[1] = NewInode(2)
    BY <1>1, <1>2, InitDoes
  <2>2. \A i, n : ~Entry(inodes', i, n)
    BY <2>1 DEF Entry, NewInode
  <2>3. Forest(inodes', blocks')
    BY <2>2 DEF Forest
  <2>4. Held(inodes', blocks', stored')
    <3>1. stored' = stored /\ inodes = <<>>
      BY <1>2 DEF fs_init
    <3>2. stored = {}
      BY <1>1, <3>1 DEF Held
    <3> QED
      BY <3>1, <3>2 DEF Held
  <2> QED
    BY <1>1, <2>1, <2>3, <2>4, FileSystemAssumption DEF Inv
<1>3. ASSUME NEW parent, NEW name \in CallNames, NEW type \in CallTypes, NEW stale \in StaleNext,
             fs_create(parent, name, type, stale)
      PROVE  Inv'
  <2>1. /\ HasChains(inodes', blocks') /\ Len(inodes') <= MaxInodes /\ Len(blocks') <= MaxBlocks
        /\ ret' = Len(inodes) + 1
        /\ Created(inodes, blocks, inodes', blocks', parent, name, type)
    BY <1>1, <1>3, CreateDoes
  <2>2. Forest(inodes', blocks')
    BY <1>1, <2>1, ForestCreated
  <2>3. Held(inodes', blocks', stored')
    <3>1. stored' = stored
      BY <1>3, Zenon DEF fs_create
    <3> QED
      BY <1>1, <2>1, <3>1, HeldCreated
  <2> QED
    BY <1>1, <2>1, <2>2, <2>3 DEF Inv
<1>4. ASSUME NEW parent, NEW name, fs_unlink(parent, name)
      PROVE  Inv'
  <2>1. /\ HasChains(inodes', blocks') /\ Len(inodes') = Len(inodes) /\ Len(blocks') = Len(blocks)
        /\ ret' = 0
        /\ Unlinked(inodes, blocks, inodes', blocks', parent, IndexOf(parent, name))
    BY <1>1, <1>4, UnlinkDoes
  <2>2. Forest(inodes', blocks')
    BY <1>1, <2>1, ForestUnlinked
  <2>3. Held(inodes', blocks', stored')
    <3>1. stored' = stored
      BY <1>4, Zenon DEF fs_unlink
    <3> QED
      BY <1>1, <2>1, <3>1, HeldUnlinked
  <2> QED
    BY <1>1, <2>1, <2>2, <2>3 DEF Inv
<1>5. ASSUME NEW ino, NEW offset \in Offsets, NEW src \in Sources, NEW stale \in StaleNext,
             fs_write(ino, offset, src, stale)
      PROVE  Inv'
  <2>1. /\ HasChains(inodes', blocks') /\ Len(inodes') = Len(inodes) /\ Len(blocks') <= MaxBlocks
        /\ ret' = Len(src)
        /\ Written(inodes, blocks, inodes', blocks', ino, offset, src)
    BY <1>1, <1>5, WriteDoes
  <2>2. Forest(inodes', blocks')
    BY <1>1, <2>1, ForestWritten
  <2>3. offset \in Nat /\ src \in Seq(Bytes) /\ Len(src) \in Nat
    BY FileSystemAssumption
  <2>4. Held(inodes', blocks', stored')
    <3>1. stored' = Overlay(stored, ino, offset, src)
      BY <1>5, Zenon DEF fs_write
    <3> QED
      BY <1>1, <2>1, <2>3, <3>1, HeldWritten
  <2> QED
    BY <1>1, <2>1, <2>2, <2>3, <2>4 DEF Inv
<1>6. ASSUME UNCHANGED <<inodes, blocks, stored>>, ret' \in Int
      PROVE  Inv'
  BY <1>1, <1>6 DEF Inv
<1>7. ASSUME NEW parent, NEW name,
             fs_create_fails(parent, name) \/ fs_unlink_fails(parent, name) \/ fs_write_fails(parent)
      PROVE  Inv'
  <2>1. UNCHANGED <<inodes, blocks, stored>> /\ ret' \in Int
    BY <1>7 DEF fs_create_fails, fs_unlink_fails, fs_write_fails, INVALID_INO
  <2> QED
    BY <1>6, <2>1
<1>8. ASSUME UNCHANGED vars
      PROVE  Inv'
  BY <1>1, <1>6, <1>8 DEF vars
<1> QED
  BY <1>2, <1>3, <1>4, <1>5, <1>7, <1>8 DEF Next

LEMMA InvAlways == Spec /\ [][Fresh]_vars => []Inv
<1>1. Inv /\ [Next]_vars /\ [Fresh]_vars => Inv'
  <2>1. Inv /\ [Next]_vars /\ Fresh => Inv'
    BY InvNext
  <2>2. Inv /\ UNCHANGED vars => Inv'
    BY DEF vars, Inv, HasChains, Forest, Entry, Held
  <2> QED
    BY <2>1, <2>2
<1> QED
  BY <1>1, InvInit, PTL DEF Spec

-----------------------------------------------------------------------------
(* The properties of the states.                                           *)

LEMMA TypesFollow == Inv => TypeOK
<1> SUFFICES ASSUME Inv PROVE TypeOK
  OBVIOUS
<1>1. PICK chain : Store(inodes, blocks, chain)
  BY DEF Inv, HasChains
<1>2. /\ inodes \in Seq(Inode) /\ BlocksTyped(blocks) /\ Chained(inodes, blocks, chain)
      /\ blocks \in Seq(Block) /\ Len(blocks) \in Nat /\ DOMAIN inodes = 1 .. Len(inodes)
  BY <1>1 DEF Store, BlocksTyped
<1>3. ASSUME NEW i \in DOMAIN inodes
      PROVE  inodes[i] \in [type : {1, 2}, size : Nat, first_block : 0 .. Len(blocks)]
  <2>1. IsChain(blocks, inodes[i].first_block, chain[i]) /\ inodes[i] \in Inode
    BY <1>2, ChainedParts
  <2>2. inodes[i].first_block \in 0 .. Len(blocks)
    BY <1>2, <2>1, SMTT(30) DEF IsChain
  <2> QED
    BY <2>1, <2>2 DEF Inode
<1>4. \A b \in DOMAIN blocks : blocks[b].next \in 0 .. Len(blocks)
  <2>1. \A b \in 1 .. Len(blocks) : blocks[b].next \in Nat /\ blocks[b].next <= Len(blocks)
    BY <1>2, BlockParts DEF BlocksTyped
  <2> QED
    BY <1>2, <2>1, SMTT(30)
<1>5. inodes \in Seq([type : {1, 2}, size : Nat, first_block : 0 .. Len(blocks)])
  BY <1>2, <1>3, SeqRetyped, ZenonT(60)
<1> QED
  BY <1>4, <1>5 DEF TypeOK, Inv

LEMMA ChainIs ==
  ASSUME NEW chain, Chained(inodes, blocks, chain), Len(blocks) \in Nat, NEW i \in DOMAIN inodes
  PROVE  /\ Chain(i) = {chain[i][k] : k \in 1 .. Len(chain[i])}
         /\ Cardinality(Chain(i)) = Len(chain[i])
<1> DEFINE c     == chain[i]
           n     == Len(c)
           first == inodes[i].first_block
<1>1. IsChain(blocks, first, c) /\ n \in Nat /\ n <= Len(blocks) /\ \A k \in 1 .. n : c[k] \in 1 .. Len(blocks)
  BY ChainedParts
<1>2. \A k \in 0 .. Len(blocks) : Hop(blocks, first, k) = Along(c, k)
  BY <1>1, HopOnChain
<1>3. \A k, l \in 1 .. n : c[k] = c[l] => k = l
  BY DEF Chained
<1> HIDE DEF c
<1>4. Chain(i) = {c[k] : k \in 1 .. n}
  <2>1. ASSUME NEW b \in Chain(i)
        PROVE  \E k \in 1 .. n : b = c[k]
    <3>1. PICK k \in 0 .. Len(blocks) : b = Along(c, k) /\ b # 0
      BY <1>2 DEF Chain
    <3> QED
      BY <1>1, <3>1 DEF Along
  <2>2. ASSUME NEW k \in 1 .. n
        PROVE  c[k] \in Chain(i)
    <3>1. k - 1 \in 0 .. Len(blocks) /\ k - 1 < n /\ (k - 1) + 1 = k
      BY <1>1
    <3>2. Hop(blocks, first, k - 1) = c[k] /\ c[k] # 0
      BY <1>1, <1>2, <3>1, SMTT(30) DEF Along
    <3> QED
      BY <3>1, <3>2 DEF Chain
  <2> QED
    BY <2>1, <2>2
<1>5. Cardinality(Chain(i)) = n
  <2> DEFINE f == [k \in 1 .. n |-> c[k]]
  <2>1. f \in Bijection(1 .. n, Chain(i))
    BY <1>3, <1>4 DEF Bijection, Injection, Surjection, IsInjective
  <2>2. ExistsBijection(1 .. n, Chain(i))
    BY <2>1 DEF ExistsBijection
  <2> QED
    BY <1>1, <2>2, FS_CountingElements
<1> QED
  BY <1>4, <1>5 DEF c

LEMMA ChainsFollow == Inv => ChainsSound
<1> SUFFICES ASSUME Inv PROVE ChainsSound
  OBVIOUS
<1>1. PICK chain : Store(inodes, blocks, chain)
  BY DEF Inv, HasChains
<1>2. /\ Chained(inodes, blocks, chain) /\ Fits(inodes, chain) /\ Len(blocks) \in Nat
  BY <1>1 DEF Store, BlocksTyped
<1>3. \A i \in DOMAIN inodes : /\ Chain(i) = {chain[i][k] : k \in 1 .. Len(chain[i])}
                               /\ Cardinality(Chain(i)) = Len(chain[i])
  BY <1>2, ChainIs
<1>4. ASSUME NEW i \in DOMAIN inodes, NEW j \in DOMAIN inodes, i # j
      PROVE  Chain(i) \cap Chain(j) = {}
  <2>1. \A k \in 1 .. Len(chain[i]), l \in 1 .. Len(chain[j]) : chain[i][k] # chain[j][l]
    BY <1>2, <1>4 DEF Chained
  <2> QED
    BY <1>3, <2>1, SMTT(30)
<1>5. ASSUME NEW i \in DOMAIN inodes, NEW k \in 0 .. Len(blocks)
      PROVE  /\ Hop(blocks, inodes[i].first_block, k) = Along(chain[i], k)
             /\ Len(chain[i]) \in Nat /\ Len(chain[i]) <= Len(blocks)
  BY <1>2, ChainedParts, HopOnChain
<1>6. ASSUME NEW i \in DOMAIN inodes
      PROVE  Hop(blocks, inodes[i].first_block, Len(blocks)) = 0
  BY <1>2, <1>5 DEF Along
<1>7. ASSUME NEW i \in DOMAIN inodes, NEW k \in 0 .. Len(blocks), NEW l \in 0 .. Len(blocks),
             Hop(blocks, inodes[i].first_block, k) = Hop(blocks, inodes[i].first_block, l), k # l
      PROVE  Hop(blocks, inodes[i].first_block, k) = 0
  <2> SUFFICES ASSUME Along(chain[i], k) # 0 PROVE FALSE
    BY <1>5
  <2>1. Along(chain[i], k) = Along(chain[i], l) /\ Len(chain[i]) \in Nat
    BY <1>5, <1>7
  <2>2. /\ k + 1 \in 1 .. Len(chain[i]) /\ l + 1 \in 1 .. Len(chain[i])
        /\ chain[i][k + 1] = chain[i][l + 1]
    BY <2>1, SMTT(30) DEF Along
  <2>3. k + 1 = l + 1
    BY <1>2, <2>2 DEF Chained
  <2> QED
    BY <1>7, <2>3
<1>8. ASSUME NEW i \in DOMAIN inodes
      PROVE  inodes[i].size <= Cardinality(Chain(i)) *
               (IF inodes[i].type = 2 THEN dirents_per_block ELSE BlockBytes)
  <2>1. inodes[i].size <= Capacity(inodes[i].type) * Len(chain[i])
    BY <1>2 DEF Fits
  <2>2. Capacity(inodes[i].type) \in Nat /\ Len(chain[i]) \in Nat
    BY <1>2, CapacityPositive, ChainedParts
  <2>3. Capacity(inodes[i].type) * Len(chain[i]) = Len(chain[i]) * Capacity(inodes[i].type)
    BY <2>2
  <2> QED
    BY <1>3, <2>1, <2>3 DEF Capacity
<1> QED
  BY <1>4, <1>6, <1>7, <1>8 DEF ChainsSound

LEMMA ForestFollows == Inv => EntriesFormForest
<1> SUFFICES ASSUME Inv PROVE EntriesFormForest
  OBVIOUS
<1> DEFINE links == {l \in Directories \X (0 .. MaxInodes) : l[2] < inodes[l[1]].size}
           at(l) == dirent_at(l[1], l[2])
<1>1. HasChains(inodes, blocks) /\ Forest(inodes, blocks)
  BY DEF Inv
<1>2. ASSUME NEW l \in links
      PROVE  Entry(inodes, l[1], l[2]) /\ at(l) = CellIn(inodes, blocks, l[1], l[2])
             /\ l = <<l[1], l[2]>>
  <2>1. Entry(inodes, l[1], l[2]) /\ l = <<l[1], l[2]>>
    BY DEF Directories, Entry
  <2> QED
    BY <1>1, <2>1, DirentIs
<1> HIDE DEF links, at
<1>3. \A l \in links : at(l).inode_id \in l[1] + 1 .. Len(inodes)
  BY <1>1, <1>2 DEF Forest
<1>4. ASSUME NEW l \in links, NEW m \in links, at(l).inode_id = at(m).inode_id
      PROVE  l = m
  <2>1. l[1] = m[1] /\ l[2] = m[2]
    BY <1>1, <1>2, <1>4 DEF Forest
  <2> QED
    BY <1>2, <2>1
<1>5. ASSUME NEW l \in links, NEW m \in links, l[1] = m[1], at(l).name = at(m).name
      PROVE  l = m
  <2>1. l[2] = m[2]
    BY <1>1, <1>2, <1>5 DEF Forest
  <2> QED
    BY <1>2, <1>5, <2>1
<1> QED
  BY <1>3, <1>4, <1>5 DEF EntriesFormForest, links, at

-----------------------------------------------------------------------------
(* Reading a file.                                                         *)

\* The bytes of a file from position m + 1 to position n.
Slice(ins, bs, i, m, n) == [k \in 1 .. n - m |-> CellIn(ins, bs, i, m + k - 1)]

LEMMA SliceTyped ==
  ASSUME NEW ins, NEW bs, HasChains(ins, bs), NEW i \in DOMAIN ins, ins[i].type = 1,
         NEW m \in Nat, NEW n \in m .. ins[i].size
  PROVE  Slice(ins, bs, i, m, n) \in Seq(Bytes) /\ Len(Slice(ins, bs, i, m, n)) = n - m
<1>1. ASSUME NEW k \in 1 .. n - m
      PROVE  CellIn(ins, bs, i, m + k - 1) \in Bytes
  <2>1. m + k - 1 \in Nat /\ m + k - 1 < ins[i].size
    BY StoreParts
  <2> QED
    BY <2>1, CellInSize DEF CellOf
<1>2. n - m \in Nat
  BY StoreParts
<1> QED
  BY <1>1, <1>2 DEF Slice

\* fs_read returns the slice, or tells that it is past the blocks of the file.
LEMMA ReadIs ==
  ASSUME HasChains(inodes, blocks), NEW i \in DOMAIN inodes, inodes[i].type = 1,
         NEW offset \in Nat, NEW len \in Nat
  PROVE  \/ /\ offset < inodes[i].size
            /\ fs_read(i, offset, len).bytes =
                 Slice(inodes, blocks, i, offset, offset + Min({len, inodes[i].size - offset}))
            /\ fs_read(i, offset, len).ret = Min({len, inodes[i].size - offset})
         \/ /\ offset >= inodes[i].size
            /\ fs_read(i, offset, len).bytes = <<>>
            /\ fs_read(i, offset, len).ret \in {0, -1}
            /\ fs_read(i, offset, len).ret = -1 => offset > inodes[i].size
<1> DEFINE size  == inodes[i].size
           first == inodes[i].first_block
           bi    == offset \div BlockBytes
           n     == Min({len, size - offset})
           read  == fs_read(i, offset, len)
           past  == bi > 0 /\ Hop(blocks, first, bi - 1) = 0
           slice == [k \in 1 .. n |-> blocks[Hop(blocks, first, (offset + k - 1) \div BlockBytes)]
                                        .data[(offset + k - 1) % BlockBytes]]
<1>1. /\ size \in Nat /\ BlockBytes \in Nat \ {0} /\ is_file(i)
      /\ Capacity(inodes[i].type) = BlockBytes
  BY StoreParts, FileSystemAssumption DEF is_file, exists, Capacity
<1>2. read = IF past THEN Read(-1, <<>>) ELSE IF offset >= size THEN Read(0, <<>>) ELSE Read(n, slice)
  BY <1>1, Zenon DEF fs_read
<1>3. ASSUME past PROVE offset > size
  <2>1. PICK chain : Store(inodes, blocks, chain)
    BY DEF HasChains
  <2>2. /\ IsChain(blocks, first, chain[i]) /\ Len(chain[i]) \in Nat
        /\ size <= BlockBytes * Len(chain[i])
    BY <1>1, <2>1, ChainedParts DEF Store, Fits
  <2>3. /\ bi \in Nat /\ offset % BlockBytes \in 0 .. BlockBytes - 1
        /\ offset = bi * BlockBytes + (offset % BlockBytes)
    <3>1. offset \in Int
      OBVIOUS
    <3> QED
      BY <1>1, <3>1, DivMod, Zenon
  <2> HIDE DEF bi
  <2>4. bi - 1 \in Nat /\ Along(chain[i], bi - 1) = 0
    <3>1. bi - 1 \in Nat
      BY <1>3, <2>3
    <3> QED
      BY <1>3, <2>2, <3>1, HopOnChain
  <2>5. Len(chain[i]) + 1 <= bi
    <3>1. ~(bi - 1 < Len(chain[i]))
      <4> SUFFICES ASSUME bi - 1 < Len(chain[i]) PROVE FALSE
        OBVIOUS
      <4>1. chain[i][bi] = 0 /\ bi \in 1 .. Len(chain[i])
        BY <2>2, <2>3, <2>4 DEF Along
      <4> QED
        BY <4>1, <2>2, SMTT(30) DEF IsChain
    <3> QED
      BY <2>2, <2>3, <3>1
  <2>6. BlockBytes * (Len(chain[i]) + 1) <= BlockBytes * bi
        /\ BlockBytes * (Len(chain[i]) + 1) = BlockBytes * Len(chain[i]) + BlockBytes
        /\ BlockBytes * bi = bi * BlockBytes
    <3>1. Len(chain[i]) + 1 \in Nat /\ BlockBytes \in Nat /\ bi \in Nat
      BY <1>1, <2>2, <2>3
    <3>2. BlockBytes * (Len(chain[i]) + 1) <= BlockBytes * bi
      BY <2>5, <3>1, TimesMonotone
    <3>3. \A a, b \in Nat : a * (b + 1) = a * b + a
      BY SMTT(30)
    <3>4. BlockBytes * (Len(chain[i]) + 1) = BlockBytes * Len(chain[i]) + BlockBytes
      BY <2>2, <3>1, <3>3
    <3>5. BlockBytes * bi = bi * BlockBytes
      BY <3>1, SMTT(30)
    <3> QED
      BY <3>2, <3>4, <3>5
  <2> QED
    BY <1>1, <2>2, <2>3, <2>6, SMTT(30)
<1>4. ASSUME offset < size
      PROVE  n \in 0 .. size - offset /\ slice = Slice(inodes, blocks, i, offset, offset + n)
  <2>1. n = IF len <= size - offset THEN len ELSE size - offset
    <3>1. len \in Nat /\ size - offset \in Nat
      BY <1>1, <1>4
    <3> QED
      BY <3>1, MinOfTwo
  <2> HIDE DEF n
  <2>2. n \in 0 .. size - offset
    BY <1>1, <1>4, <2>1
  <2>3. (offset + n) - offset = n
    BY <2>2
  <2>4. \A k \in 1 .. n : CellIn(inodes, blocks, i, offset + k - 1) =
          blocks[Hop(blocks, first, (offset + k - 1) \div BlockBytes)].data[(offset + k - 1) % BlockBytes]
    BY <1>1, Zenon DEF CellIn
  <2> QED
    BY <2>2, <2>3, <2>4 DEF Slice
<1> HIDE DEF past, n, slice, read
<1>5. CASE offset < size
  <2>1. read = Read(n, slice)
    BY <1>1, <1>2, <1>3, <1>5
  <2> QED
    BY <1>4, <1>5, <2>1 DEF Read, read, n
<1>6. CASE offset >= size
  <2>1. (read = Read(-1, <<>>) /\ offset > size) \/ read = Read(0, <<>>)
    BY <1>2, <1>3, <1>6, SMTT(30)
  <2> QED
    BY <1>6, <2>1 DEF Read, read
<1> QED
  BY <1>1, <1>5, <1>6

\* The content of a file is all of its bytes.
LEMMA ContentIs ==
  ASSUME HasChains(inodes, blocks), NEW i \in DOMAIN inodes, inodes[i].type = 1
  PROVE  ContentOf(i) = Slice(inodes, blocks, i, 0, inodes[i].size)
<1> DEFINE size  == inodes[i].size
           slice == Slice(inodes, blocks, i, 0, size)
<1>1. size \in Nat /\ ContentOf(i) = fs_read(i, 0, size).bytes
  BY StoreParts DEF ContentOf, is_file, exists
<1>2. slice \in Seq(Bytes) /\ Len(slice) = size
  <2>1. 0 \in Nat /\ size \in 0 .. size /\ size - 0 = size
    BY <1>1
  <2> QED
    BY <2>1, SliceTyped, ZenonT(60)
<1>3. CASE size > 0
  <2>1. Min({size, size - 0}) = size
    BY <1>1, MinOfTwo
  <2> HIDE DEF size, slice
  <2>2. fs_read(i, 0, size).bytes = Slice(inodes, blocks, i, 0, 0 + Min({size, size - 0}))
    BY <1>1, <1>3, ReadIs DEF size
  <2>3. 0 + Min({size, size - 0}) = size
    BY <1>1, <2>1
  <2> QED
    BY <1>1, <2>2, <2>3 DEF slice, size
<1>4. CASE size = 0
  <2>1. ~(0 < size) /\ 0 \in Nat /\ size \in Nat
    BY <1>4
  <2>3. fs_read(i, 0, size).bytes = <<>>
    <3> HIDE DEF slice
    <3> QED
      BY <2>1, ReadIs
  <2>2. slice = <<>>
    BY <1>2, <1>4
  <2> QED
    BY <1>1, <2>2, <2>3
<1> QED
  BY <1>1, <1>3, <1>4

LEMMA ReadsFollow == Inv => ReadsAnySlice
<1> SUFFICES ASSUME Inv PROVE ReadsAnySlice
  OBVIOUS
<1>1. HasChains(inodes, blocks) /\ Held(inodes, blocks, stored)
  BY DEF Inv
<1>2. ASSUME NEW i \in Files, NEW c \in {c \in stored : c.ino = i}
      PROVE  c.at < inodes[i].size
  BY <1>1 DEF Held
<1>3. ASSUME NEW i \in Files, NEW offset \in 0 .. inodes[i].size, NEW len \in 0 .. inodes[i].size + 1
      PROVE  /\ fs_read(i, offset, len).ret = Min({len, inodes[i].size - offset})
             /\ Len(fs_read(i, offset, len).bytes) = fs_read(i, offset, len).ret
             /\ \A c \in {c \in stored : c.ino = i} :
                  c.at \in offset .. offset + fs_read(i, offset, len).ret - 1 =>
                    fs_read(i, offset, len).bytes[c.at - offset + 1] = c.byte
  <2> DEFINE size  == inodes[i].size
             read  == fs_read(i, offset, len)
             n     == Min({len, size - offset})
             slice == Slice(inodes, blocks, i, offset, offset + n)
  <2>1. /\ i \in DOMAIN inodes /\ inodes[i].type = 1 /\ size \in Nat
        /\ offset \in Nat /\ len \in Nat /\ offset <= size
    BY <1>1, StoreParts DEF Files
  <2>2. n = IF len <= size - offset THEN len ELSE size - offset
    <3>1. size - offset \in Nat
      BY <2>1
    <3> QED
      BY <2>1, <3>1, MinOfTwo
  <2>3. \/ offset < size /\ read.bytes = slice /\ read.ret = n
        \/ /\ offset >= size /\ read.bytes = <<>> /\ read.ret \in {0, -1}
           /\ read.ret = -1 => offset > size
    BY <1>1, <2>1, ReadIs, SMTT(30)
  <2> HIDE DEF size, read, n
  <2>4. n \in Nat /\ offset + n \in offset .. size /\ (offset + n) - offset = n
    BY <2>1, <2>2
  <2>5. CASE offset < size /\ read.bytes = slice /\ read.ret = n
    <3>1. Len(slice) = n
      <4>1. Len(slice) = (offset + n) - offset
        BY <1>1, <2>1, <2>4, SliceTyped, SMTT(30) DEF size
      <4> QED
        BY <2>4, <4>1
    <3>2. ASSUME NEW c \in stored, c.ino = i, c.at \in offset .. offset + n - 1
          PROVE  slice[c.at - offset + 1] = c.byte
      <4>1. CellIn(inodes, blocks, i, c.at) = c.byte
        BY <1>1, <3>2 DEF Held
      <4>2. c.at - offset + 1 \in 1 .. (offset + n) - offset /\ offset + (c.at - offset + 1) - 1 = c.at
        BY <2>1, <2>4, <3>2
      <4> QED
        BY <4>1, <4>2 DEF Slice
    <3> QED
      BY <2>5, <3>1, <3>2 DEF read, size, n
  <2>6. CASE offset >= size /\ read.bytes = <<>> /\ read.ret \in {0, -1} /\ (read.ret = -1 => offset > size)
    <3>1. read.ret = 0 /\ n = 0 /\ Len(read.bytes) = 0
      BY <2>1, <2>2, <2>6
    <3>2. offset .. offset + 0 - 1 = {}
      BY <2>1
    <3> QED
      BY <3>1, <3>2 DEF read, size, n
  <2> QED
    BY <2>3, <2>5, <2>6
<1> QED
  BY <1>2, <1>3, ZenonT(60) DEF ReadsAnySlice

-----------------------------------------------------------------------------
(* Where names lead.                                                       *)

\* The directory i has an entry of that name for the inode t.
Leads(ins, bs, i, name, t) ==
  \E n : /\ Entry(ins, i, n)
         /\ CellIn(ins, bs, i, n).name = name /\ CellIn(ins, bs, i, n).inode_id = t

LEMMA LeadsOnce ==
  ASSUME NEW ins, NEW bs, Forest(ins, bs), NEW i, NEW name,
         NEW t, Leads(ins, bs, i, name, t), NEW u, Leads(ins, bs, i, name, u)
  PROVE  t = u
BY DEF Leads, Forest

LEMMA LeadsTo ==
  ASSUME NEW ins, NEW bs, HasChains(ins, bs), Forest(ins, bs),
         NEW i, NEW name, NEW t, Leads(ins, bs, i, name, t)
  PROVE  /\ i \in DOMAIN ins /\ ins[i].type = 2 /\ name \in Names
         /\ t \in DOMAIN ins /\ t # 0 /\ t > i
<1>1. PICK n : Entry(ins, i, n) /\ CellIn(ins, bs, i, n).name = name
               /\ CellIn(ins, bs, i, n).inode_id = t
  BY DEF Leads
<1>2. i \in DOMAIN ins /\ ins[i].type = 2
  BY <1>1 DEF Entry
<1>3. DOMAIN ins = 1 .. Len(ins) /\ Len(ins) \in Nat
  BY StoreParts
<1>4. t \in i + 1 .. Len(ins) /\ name \in Names
  BY <1>1 DEF Forest
<1> QED
  BY <1>2, <1>3, <1>4

\* Enter follows the entry of that name, and returns 0 if there is none.
EnterFollows ==
  \A i, name, t : Leads(inodes, blocks, i, name, t) <=> Enter(i, name) = t /\ t # INVALID_INO

LEMMA EnterIs == Inv => EnterFollows
<1> SUFFICES ASSUME Inv, NEW i, NEW name, NEW t
             PROVE  Leads(inodes, blocks, i, name, t) <=> Enter(i, name) = t /\ t # INVALID_INO
  BY DEF EnterFollows
<1>1. HasChains(inodes, blocks) /\ Forest(inodes, blocks)
  BY DEF Inv
<1>2. CASE ~is_dir(i)
  <2>1. Enter(i, name) = INVALID_INO
    BY <1>2 DEF Enter
  <2>2. ~Leads(inodes, blocks, i, name, t)
    BY <1>1, <1>2, LeadsTo DEF is_dir, exists
  <2> QED
    BY <2>1, <2>2
<1>3. CASE is_dir(i)
  <2>1. /\ i \in DOMAIN inodes /\ inodes[i].type = 2
        /\ Enter(i, name) = dirent_at(i, IndexOf(i, name)).inode_id
    BY <1>3 DEF Enter, is_dir, exists
  <2>2. CASE Listed(i, name)
    <3>1. /\ Entry(inodes, i, IndexOf(i, name))
          /\ CellIn(inodes, blocks, i, IndexOf(i, name)).name = name
      BY <1>1, <2>1, <2>2, IndexOfIs
    <3>2. CellIn(inodes, blocks, i, IndexOf(i, name)).inode_id = Enter(i, name)
      BY <1>1, <2>1, <3>1, DirentIs
    <3>3. Leads(inodes, blocks, i, name, Enter(i, name))
      BY <3>1, <3>2 DEF Leads
    <3>4. Enter(i, name) # INVALID_INO
      BY <1>1, <3>3, LeadsTo DEF INVALID_INO
    <3> QED
      BY <1>1, <3>3, <3>4, LeadsOnce
  <2>3. CASE ~Listed(i, name)
    <3>1. ~Leads(inodes, blocks, i, name, t)
      BY <1>1, <2>1, <2>3, IndexOfIs, SMTT(30) DEF Leads
    <3>2. IndexOf(i, name) >= inodes[i].size
      BY <1>1, <2>1, <2>3, IndexOfIs, StoreParts, SMTT(30) DEF Listed
    <3>3. dirent_at(i, IndexOf(i, name)) = NullDirent
      BY <3>2, DirentPastEnd
    <3> QED
      BY <2>1, <3>1, <3>3 DEF NullDirent, INVALID_INO
  <2> QED
    BY <2>2, <2>3
<1> QED
  BY <1>2, <1>3

\* fs_create adds one link.
LEMMA CreatedLeads ==
  ASSUME NEW ins, NEW bs, HasChains(ins, bs), NEW ins2, NEW bs2, HasChains(ins2, bs2),
         NEW p, NEW name, NEW type, Created(ins, bs, ins2, bs2, p, name, type), NEW i, NEW s, NEW t
  PROVE  Leads(ins2, bs2, i, s, t) <=>
           Leads(ins, bs, i, s, t) \/ (i = p /\ s = name /\ t = Len(ins) + 1)
<1>1. ASSUME Leads(ins2, bs2, i, s, t)
      PROVE  Leads(ins, bs, i, s, t) \/ (i = p /\ s = name /\ t = Len(ins) + 1)
  <2>1. PICK n : Entry(ins2, i, n) /\ CellIn(ins2, bs2, i, n).name = s
                 /\ CellIn(ins2, bs2, i, n).inode_id = t
    BY <1>1 DEF Leads
  <2>2. \/ /\ i = p /\ n = ins[p].size
           /\ CellIn(ins2, bs2, i, n) = [inode_id |-> Len(ins) + 1, name |-> name]
        \/ Entry(ins, i, n) /\ CellIn(ins2, bs2, i, n) = CellIn(ins, bs, i, n)
    BY <2>1, CreatedEntries
  <2> QED
    BY <2>1, <2>2 DEF Leads
<1>2. /\ DOMAIN ins = 1 .. Len(ins) /\ DOMAIN ins2 = 1 .. Len(ins2) /\ Len(ins) \in Nat
      /\ Len(ins2) = Len(ins) + 1 /\ p \in DOMAIN ins /\ ins[p].type = 2
      /\ ins[p].size \in Nat
  BY StoreParts DEF Created
<1>3. \A j \in DOMAIN ins : j \in DOMAIN ins2
  BY <1>2
<1>4. ASSUME Leads(ins, bs, i, s, t)
      PROVE  Leads(ins2, bs2, i, s, t)
  <2>1. PICK n : Entry(ins, i, n) /\ CellIn(ins, bs, i, n).name = s
                 /\ CellIn(ins, bs, i, n).inode_id = t
    BY <1>4 DEF Leads
  <2>2. i \in DOMAIN ins /\ ins[i].type = 2 /\ n \in Nat /\ n < ins[i].size /\ ins[i].size \in Nat
    BY <2>1, StoreParts DEF Entry
  <2>3. ins2[i].type = 2 /\ ins2[i].size = IF i = p THEN ins[i].size + 1 ELSE ins[i].size
    BY <2>2 DEF Created
  <2>4. n < ins2[i].size /\ ~(i = p /\ n = ins[p].size)
    BY <2>2, <2>3
  <2>5. Entry(ins2, i, n)
    BY <1>3, <2>2, <2>3, <2>4, SMTT(30) DEF Entry
  <2>6. CellIn(ins2, bs2, i, n) = CellIn(ins, bs, i, n)
    BY <2>2, <2>4 DEF Created
  <2> QED
    BY <2>1, <2>5, <2>6 DEF Leads
<1>5. Leads(ins2, bs2, p, name, Len(ins) + 1)
  <2> DEFINE n == ins[p].size
  <2>1. n \in Nat /\ ins2[p].type = 2 /\ ins2[p].size = n + 1 /\ n < ins2[p].size
    BY <1>2 DEF Created
  <2>2. CellIn(ins2, bs2, p, n) = [inode_id |-> Len(ins) + 1, name |-> name]
    BY <1>2, <2>1 DEF Created
  <2>3. Entry(ins2, p, n)
    BY <1>2, <1>3, <2>1 DEF Entry
  <2> QED
    BY <2>2, <2>3, SMTT(30) DEF Leads
<1> QED
  BY <1>1, <1>4, <1>5

\* fs_unlink takes one link away.
LEMMA UnlinkedLeads ==
  ASSUME NEW ins, NEW bs, HasChains(ins, bs), NEW ins2, NEW bs2, HasChains(ins2, bs2),
         NEW p, NEW m, Unlinked(ins, bs, ins2, bs2, p, m), Forest(ins, bs), NEW i, NEW s, NEW t
  PROVE  Leads(ins2, bs2, i, s, t) <=>
           Leads(ins, bs, i, s, t) /\ ~(i = p /\ s = CellIn(ins, bs, p, m).name)
<1> DEFINE last == ins[p].size - 1
           from(n) == IF i = p /\ n = m THEN last ELSE n
<1>1. /\ DOMAIN ins = 1 .. Len(ins) /\ DOMAIN ins2 = 1 .. Len(ins2) /\ Len(ins2) = Len(ins)
      /\ Entry(ins, p, m) /\ p \in DOMAIN ins /\ ins[p].size \in Nat /\ m \in Nat /\ m <= last
      /\ last \in Nat /\ ins[p].type = 2
  BY StoreParts, SMTT(30) DEF Unlinked, Entry
<1>2. \A j \in DOMAIN ins : /\ j \in DOMAIN ins2 /\ ins2[j].type = ins[j].type
                            /\ ins2[j].size = IF j = p THEN last ELSE ins[j].size
                            /\ ins[j].size \in Nat
  BY <1>1, StoreParts DEF Unlinked
<1>3. \A j \in DOMAIN ins, n \in Nat : n < ins2[j].size =>
         CellIn(ins2, bs2, j, n) = CellIn(ins, bs, j, IF j = p /\ n = m THEN last ELSE n)
  BY DEF Unlinked
<1>9. \A n, k : Entry(ins, i, n) /\ Entry(ins, i, k)
        /\ CellIn(ins, bs, i, n).name = CellIn(ins, bs, i, k).name => n = k
  BY DEF Forest
<1> HIDE DEF last
<1>4. ASSUME Leads(ins2, bs2, i, s, t)
      PROVE  Leads(ins, bs, i, s, t) /\ ~(i = p /\ s = CellIn(ins, bs, p, m).name)
  <2>1. PICK n : Entry(ins2, i, n) /\ CellIn(ins2, bs2, i, n).name = s
                 /\ CellIn(ins2, bs2, i, n).inode_id = t
    BY <1>4 DEF Leads
  <2>2. i \in DOMAIN ins /\ ins[i].type = 2 /\ n \in Nat /\ n < ins2[i].size
    BY <1>1, <1>2, <2>1, SMTT(30) DEF Entry
  <2>3. CellIn(ins2, bs2, i, n) = CellIn(ins, bs, i, from(n))
    BY <1>3, <2>2
  <2>4. from(n) \in Nat /\ from(n) < ins[i].size /\ (i = p => from(n) # m)
    BY <1>1, <1>2, <2>2, SMTT(30) DEF last
  <2>5. Entry(ins, i, from(n))
    BY <2>2, <2>4 DEF Entry
  <2>6. ASSUME i = p PROVE s # CellIn(ins, bs, p, m).name
    BY <1>1, <1>9, <2>1, <2>3, <2>4, <2>5, <2>6
  <2> QED
    BY <2>1, <2>3, <2>5, <2>6 DEF Leads
<1>5. ASSUME Leads(ins, bs, i, s, t), ~(i = p /\ s = CellIn(ins, bs, p, m).name)
      PROVE  Leads(ins2, bs2, i, s, t)
  <2>1. PICK k : Entry(ins, i, k) /\ CellIn(ins, bs, i, k).name = s
                 /\ CellIn(ins, bs, i, k).inode_id = t
    BY <1>5 DEF Leads
  <2> DEFINE n == IF i = p /\ k = last THEN m ELSE k
  <2>2. i \in DOMAIN ins /\ ins[i].type = 2 /\ k \in Nat /\ k < ins[i].size
    BY <2>1 DEF Entry
  <2>3. i = p => k # m
    BY <1>5, <2>1
  <2>4. n \in Nat /\ n < ins2[i].size /\ from(n) = k
    BY <1>1, <1>2, <2>2, <2>3, SMTT(30) DEF last
  <2>5. CellIn(ins2, bs2, i, n) = CellIn(ins, bs, i, k)
    BY <1>3, <2>2, <2>4
  <2>6. Entry(ins2, i, n)
    BY <1>2, <2>2, <2>4 DEF Entry
  <2> QED
    BY <2>1, <2>5, <2>6 DEF Leads
<1> QED
  BY <1>4, <1>5

LEMMA WrittenLeads ==
  ASSUME NEW ins, NEW bs, HasChains(ins, bs), NEW ins2, NEW bs2, HasChains(ins2, bs2),
         NEW p, NEW offset, NEW src, Written(ins, bs, ins2, bs2, p, offset, src), NEW i, NEW s, NEW t
  PROVE  Leads(ins2, bs2, i, s, t) <=> Leads(ins, bs, i, s, t)
<1>1. ASSUME NEW n
      PROVE  /\ Entry(ins2, i, n) <=> Entry(ins, i, n)
             /\ Entry(ins2, i, n) => CellIn(ins2, bs2, i, n) = CellIn(ins, bs, i, n)
  <2>1. /\ DOMAIN ins = DOMAIN ins2 /\ ins[p].type = 1
        /\ i \in DOMAIN ins => ins2[i].type = ins[i].type /\ (i # p => ins2[i].size = ins[i].size)
    BY StoreParts DEF Written
  <2>2. Entry(ins2, i, n) <=> Entry(ins, i, n)
    BY <2>1 DEF Entry
  <2>3. ASSUME Entry(ins2, i, n)
        PROVE  CellIn(ins2, bs2, i, n) = CellIn(ins, bs, i, n)
    <3>1. i \in DOMAIN ins /\ i # p /\ n \in Nat /\ n < ins2[i].size /\ n < ins[i].size
      BY <2>1, <2>3 DEF Entry
    <3> QED
      BY <3>1 DEF Written
  <2> QED
    BY <2>2, <2>3
<1> QED
  BY <1>1 DEF Leads

\* What the calls do to the names and to where they lead.
LEMMA LinkKept ==
  ASSUME EnterFollows, EnterFollows', NEW i, NEW s,
         \A t : Leads(inodes', blocks', i, s, t) <=> Leads(inodes, blocks, i, s, t)
  PROVE  Enter(i, s)' = Enter(i, s)
BY DEF EnterFollows

LEMMA LinksKept ==
  ASSUME Inv, UNCHANGED <<inodes, blocks>>, NEW i, NEW s
  PROVE  Enter(i, s)' = Enter(i, s)
BY DEF Enter, is_dir, exists, IndexOf, dirent_at

LEMMA InitLinks ==
  ASSUME EnterFollows, EnterFollows', HasChains(inodes, blocks), fs_init, NEW i, NEW s
  PROVE  Enter(i, s) = INVALID_INO /\ Enter(i, s)' = INVALID_INO
<1>1. inodes = <<>> /\ DOMAIN inodes' = {1} /\ inodes'[1] = NewInode(2)
  BY InitDoes
<1>2. \A t : ~Leads(inodes, blocks, i, s, t) /\ ~Leads(inodes', blocks', i, s, t)
  BY <1>1 DEF Leads, Entry, NewInode
<1> QED
  BY <1>2 DEF EnterFollows

LEMMA CreateLinks ==
  ASSUME Fresh, Inv, EnterFollows, EnterFollows', NEW parent, NEW name \in CallNames,
         NEW type \in CallTypes, NEW stale \in StaleNext, fs_create(parent, name, type, stale)
  PROVE  /\ Enter(parent, name) = INVALID_INO
         /\ \A i, s : Enter(i, s)' = IF i = parent /\ s = name THEN Len(inodes) + 1 ELSE Enter(i, s)
<1>1. /\ HasChains(inodes, blocks) /\ HasChains(inodes', blocks')
      /\ Created(inodes, blocks, inodes', blocks', parent, name, type)
  BY CreateDoes DEF Inv
<1>2. \A i, s, t : Leads(inodes', blocks', i, s, t) <=>
                     Leads(inodes, blocks, i, s, t) \/ (i = parent /\ s = name /\ t = Len(inodes) + 1)
  BY <1>1, CreatedLeads
<1>3. \A t : ~Leads(inodes, blocks, parent, name, t)
  BY <1>1 DEF Created, Leads
<1>4. Enter(parent, name) = INVALID_INO
  BY <1>3 DEF EnterFollows
<1>5. Enter(parent, name)' = Len(inodes) + 1
  BY <1>2 DEF EnterFollows
<1>6. ASSUME NEW i, NEW s, ~(i = parent /\ s = name)
      PROVE  Enter(i, s)' = Enter(i, s)
  BY <1>2, <1>6, LinkKept
<1> QED
  BY <1>4, <1>5, <1>6

LEMMA UnlinkLinks ==
  ASSUME Inv, EnterFollows, EnterFollows', NEW parent, NEW name, fs_unlink(parent, name)
  PROVE  /\ Enter(parent, name) # INVALID_INO /\ name \in Names
         /\ \A i, s : Enter(i, s)' = IF i = parent /\ s = name THEN INVALID_INO ELSE Enter(i, s)
<1> DEFINE m == IndexOf(parent, name)
<1>1. /\ HasChains(inodes, blocks) /\ HasChains(inodes', blocks') /\ Forest(inodes, blocks)
      /\ Listed(parent, name) /\ Unlinked(inodes, blocks, inodes', blocks', parent, m)
  BY UnlinkDoes DEF Inv
<1>2. Entry(inodes, parent, m) /\ CellIn(inodes, blocks, parent, m).name = name
  <2>1. parent \in DOMAIN inodes /\ inodes[parent].type = 2
    BY <1>1 DEF Unlinked, Entry
  <2> QED
    BY <1>1, <2>1, IndexOfIs
<1> HIDE DEF m
<1>3. \A i, s, t : Leads(inodes', blocks', i, s, t) <=>
                     Leads(inodes, blocks, i, s, t) /\ ~(i = parent /\ s = name)
  BY <1>1, <1>2, UnlinkedLeads
<1>4. Leads(inodes, blocks, parent, name, CellIn(inodes, blocks, parent, m).inode_id)
  BY <1>2 DEF Leads
<1>5. Enter(parent, name) # INVALID_INO /\ name \in Names
  BY <1>1, <1>4, LeadsTo DEF EnterFollows
<1>6. Enter(parent, name)' = INVALID_INO
  BY <1>3 DEF EnterFollows
<1>7. ASSUME NEW i, NEW s, ~(i = parent /\ s = name)
      PROVE  Enter(i, s)' = Enter(i, s)
  BY <1>3, <1>7, LinkKept
<1> QED
  BY <1>5, <1>6, <1>7

LEMMA WriteLinks ==
  ASSUME Fresh, Inv, EnterFollows, EnterFollows', NEW ino, NEW offset \in Offsets,
         NEW src \in Sources, NEW stale \in StaleNext, fs_write(ino, offset, src, stale), NEW i, NEW s
  PROVE  Enter(i, s)' = Enter(i, s)
<1>1. /\ HasChains(inodes, blocks) /\ HasChains(inodes', blocks')
      /\ Written(inodes, blocks, inodes', blocks', ino, offset, src)
  BY WriteDoes DEF Inv
<1>2. \A t : Leads(inodes', blocks', i, s, t) <=> Leads(inodes, blocks, i, s, t)
  BY <1>1, WrittenLeads
<1> QED
  BY <1>2, LinkKept

-----------------------------------------------------------------------------
(* Where paths lead.                                                       *)

\* at is the way of fs_lookup along the path.
Way(at, path) ==
  at = [i \in 0 .. Len(path) |-> IF i = 0 THEN ROOT_INO ELSE Enter(at[i - 1], path[i])]

WaysExist ==
  \A path : Len(path) \in Nat =>
    \E at : Way(at, path) /\ Resolve(path) = at[Len(path)]

LEMMA EnterTyped ==
  ASSUME Inv, NEW i, NEW s
  PROVE  Enter(i, s) \in {INVALID_INO} \cup DOMAIN inodes
<1>1. EnterFollows
  BY EnterIs
<1>2. Enter(i, s) # INVALID_INO => Leads(inodes, blocks, i, s, Enter(i, s))
  BY <1>1 DEF EnterFollows
<1>3. HasChains(inodes, blocks) /\ Forest(inodes, blocks)
  BY DEF Inv
<1>4. Enter(i, s) # INVALID_INO => Enter(i, s) \in DOMAIN inodes
  BY <1>2, <1>3, LeadsTo
<1> QED
  BY <1>4

LEMMA WayExists == Inv => WaysExist
<1> SUFFICES ASSUME Inv, NEW path, Len(path) \in Nat
             PROVE  \E at : Way(at, path) /\ Resolve(path) = at[Len(path)]
  BY DEF WaysExist
<1> DEFINE n    == Len(path)
           T    == {ROOT_INO, INVALID_INO} \cup DOMAIN inodes
           step == [j \in 1 .. n |-> [x \in T |-> Enter(x, path[j])]]
           way  == CHOOSE at : Way(at, path)
<1>1. step \in [1 .. n -> [T -> T]]
  <2>1. \A x \in T, j \in 1 .. n : Enter(x, path[j]) \in T
    BY EnterTyped
  <2> HIDE DEF T
  <2> QED
    BY <2>1
<1>2. \A j \in 1 .. n, x \in T : step[j][x] = Enter(x, path[j])
  OBVIOUS
<1>3. ROOT_INO \in T /\ n \in Nat
  OBVIOUS
<1> HIDE DEF step, n, T
<1>4. PICK g \in [0 .. n -> T] : g[0] = ROOT_INO /\ \A j \in 1 .. n : g[j] = step[j][g[j - 1]]
  BY <1>1, <1>3, Iterate, SMTT(60)
<1>5. ASSUME NEW j \in 0 .. n
      PROVE  g[j] = IF j = 0 THEN ROOT_INO ELSE Enter(g[j - 1], path[j])
  <2>1. CASE j = 0
    BY <1>4, <2>1
  <2>2. CASE j # 0
    <3>1. j \in 1 .. n /\ j - 1 \in 0 .. n
      BY <1>3, <2>2
    <3>2. g[j - 1] \in T /\ g[j] = step[j][g[j - 1]]
      BY <1>4, <3>1
    <3> QED
      BY <1>2, <2>2, <3>1, <3>2
  <2> QED
    BY <2>1, <2>2
<1>6. Way(g, path)
  BY <1>4, <1>5 DEF Way, n
<1>7. Way(way, path)
  BY <1>6, Zenon
<1>8. Resolve(path) = way[n]
  BY Zenon DEF Resolve, Way, n
<1> QED
  BY <1>7, <1>8 DEF n

LEMMA WaySteps ==
  ASSUME NEW at, NEW path, Len(path) \in Nat, Way(at, path)
  PROVE  at[0] = ROOT_INO /\ \A j \in 0 .. Len(path) - 1 : at[j + 1] = Enter(at[j], path[j + 1])
<1>1. at[0] = ROOT_INO
  BY DEF Way
<1>2. ASSUME NEW j \in 0 .. Len(path) - 1
      PROVE  at[j + 1] = Enter(at[j], path[j + 1])
  <2>1. j + 1 \in 0 .. Len(path) /\ j + 1 # 0 /\ (j + 1) - 1 = j
    OBVIOUS
  <2> QED
    BY <2>1 DEF Way
<1> QED
  BY <1>1, <1>2

\* Nothing is inside what does not exist.
NothingInside == \A s : Enter(INVALID_INO, s) = INVALID_INO

LEMMA NothingIs == Inv => NothingInside
<1> SUFFICES ASSUME Inv, NEW s PROVE Enter(INVALID_INO, s) = INVALID_INO
  BY DEF NothingInside
<1>1. DOMAIN inodes = 1 .. Len(inodes)
  BY StoreParts DEF Inv
<1> QED
  BY <1>1 DEF Enter, is_dir, exists, INVALID_INO

\* No name leads elsewhere than before.
LinksKeep ==
  \A i, s : Enter(i, s) # INVALID_INO => Enter(i, s)' \in {Enter(i, s), INVALID_INO}

\* Then no path does.
LEMMA PathKept ==
  ASSUME WaysExist, WaysExist', NothingInside, NothingInside', LinksKeep, NEW path, Len(path) \in Nat,
         Resolve(path) # INVALID_INO
  PROVE  Resolve(path)' \in {Resolve(path), INVALID_INO}
<1>1. PICK at : Way(at, path) /\ Resolve(path) = at[Len(path)]
  BY DEF WaysExist
<1>2. PICK to : Way(to, path)' /\ Resolve(path)' = to[Len(path)]
  BY DEF WaysExist
<1>3. at[0] = ROOT_INO /\ \A j \in 0 .. Len(path) - 1 : at[j + 1] = Enter(at[j], path[j + 1])
  BY <1>1, WaySteps
<1>4. to[0] = ROOT_INO /\ \A j \in 0 .. Len(path) - 1 : to[j + 1] = Enter(to[j], path[j + 1])'
  <2>1. to[0] = ROOT_INO
    BY <1>2 DEF Way, ROOT_INO
  <2>2. ASSUME NEW j \in 0 .. Len(path) - 1
        PROVE  to[j + 1] = Enter(to[j], path[j + 1])'
    <3>1. j + 1 \in 0 .. Len(path) /\ j + 1 # 0 /\ (j + 1) - 1 = j
      OBVIOUS
    <3> QED
      BY <1>2, <3>1 DEF Way
  <2> QED
    BY <2>1, <2>2
<1> DEFINE n    == Len(path)
           Kept == {j \in Nat : j <= n => (at[j] # INVALID_INO => to[j] \in {at[j], INVALID_INO})}
<1>5. 0 \in Kept
  BY <1>3, <1>4
<1>6. ASSUME NEW j \in Nat, j \in Kept
      PROVE  j + 1 \in Kept
  <2> SUFFICES ASSUME j + 1 <= n, at[j + 1] # INVALID_INO
               PROVE  to[j + 1] \in {at[j + 1], INVALID_INO}
    OBVIOUS
  <2>1. j \in 0 .. n - 1
    OBVIOUS
  <2>2. at[j + 1] = Enter(at[j], path[j + 1]) /\ to[j + 1] = Enter(to[j], path[j + 1])'
    BY <1>3, <1>4, <2>1
  <2>3. at[j] # INVALID_INO
    BY <2>2 DEF NothingInside
  <2>4. to[j] \in {at[j], INVALID_INO}
    BY <1>6, <2>1, <2>3
  <2>5. CASE to[j] = at[j]
    BY <2>2, <2>5 DEF LinksKeep
  <2>6. CASE to[j] = INVALID_INO
    BY <2>2, <2>6 DEF NothingInside
  <2> QED
    BY <2>4, <2>5, <2>6
<1>7. n \in Kept
  <2>1. Nat \subseteq Kept
    <3> HIDE DEF Kept
    <3> QED
      BY <1>5, <1>6, InductionOnNat
  <2> QED
    BY <2>1
<1>8. at[n] # INVALID_INO => to[n] \in {at[n], INVALID_INO}
  BY <1>7
<1> QED
  BY <1>1, <1>2, <1>8

\* Every call keeps its promise; only fs_init makes something of nothing.
LEMMA StepKeepsLinks ==
  ASSUME Fresh, Inv, EnterFollows, EnterFollows', [Next]_vars
  PROVE  LinksKeep
<1>1. ASSUME fs_init
      PROVE  LinksKeep
  BY <1>1, InitLinks DEF LinksKeep, Inv
<1>2. ASSUME NEW parent, NEW name \in CallNames, NEW type \in CallTypes, NEW stale \in StaleNext,
             fs_create(parent, name, type, stale)
      PROVE  LinksKeep
  BY <1>2, CreateLinks DEF LinksKeep
<1>3. ASSUME NEW parent, NEW name, fs_unlink(parent, name)
      PROVE  LinksKeep
  BY <1>3, UnlinkLinks DEF LinksKeep
<1>4. ASSUME NEW ino, NEW offset \in Offsets, NEW src \in Sources, NEW stale \in StaleNext,
             fs_write(ino, offset, src, stale)
      PROVE  LinksKeep
  BY <1>4, WriteLinks DEF LinksKeep
<1>5. ASSUME UNCHANGED <<inodes, blocks>>
      PROVE  LinksKeep
  BY <1>5, LinksKept DEF LinksKeep
<1>6. ASSUME NEW parent, NEW name,
             fs_create_fails(parent, name) \/ fs_unlink_fails(parent, name) \/ fs_write_fails(parent)
      PROVE  LinksKeep
  BY <1>5, <1>6 DEF fs_create_fails, fs_unlink_fails, fs_write_fails
<1>7. ASSUME UNCHANGED vars
      PROVE  LinksKeep
  BY <1>5, <1>7 DEF vars
<1> QED
  BY <1>1, <1>2, <1>3, <1>4, <1>6, <1>7 DEF Next

\* The path fs_lookup follows is one.
LEMMA PathsAre ==
  ASSUME NEW path \in Paths
  PROVE  Len(SubSeq(path, 1, Min({Len(path), MAX_SEGMENTS}))) \in Nat
<1>1. PICK n \in 0 .. MAX_SEGMENTS : path \in [1 .. n -> Names]
  BY DEF Paths
<1>2. path \in Seq(Names) /\ Len(path) = n /\ n \in Nat /\ MAX_SEGMENTS \in Nat
  BY <1>1, FileSystemAssumption
<1>3. Min({Len(path), MAX_SEGMENTS}) = n
  BY <1>1, <1>2, MinOfTwo
<1>4. SubSeq(path, 1, n) \in Seq(Names)
  BY <1>2
<1> QED
  BY <1>3, <1>4

-----------------------------------------------------------------------------
(* What readdir and read make visible.                                     *)

\* The entries readdir returns are those fs_lookup follows.
EntriesAreLinks ==
  \A i : EntriesOf(i) = [name \in Names |-> Enter(i, name)]

LEMMA EntriesFollow == Inv => EntriesAreLinks
<1> SUFFICES ASSUME Inv, NEW i PROVE EntriesOf(i) = [name \in Names |-> Enter(i, name)]
  BY DEF EntriesAreLinks
<1>1. HasChains(inodes, blocks) /\ Forest(inodes, blocks) /\ EnterFollows
  BY EnterIs DEF Inv
<1>2. CASE ~is_dir(i)
  <2>1. \A name : EntryOf(i, name) = {} /\ Enter(i, name) = INVALID_INO
    BY <1>2 DEF EntryOf, Enter
  <2> QED
    BY <2>1 DEF EntriesOf
<1>3. CASE is_dir(i)
  <2> DEFINE size == inodes[i].size
  <2>1. i \in DOMAIN inodes /\ inodes[i].type = 2 /\ size \in Nat
    BY <1>1, <1>3, StoreParts DEF is_dir, exists
  <2>2. \A n \in 0 .. size - 1 : Entry(inodes, i, n)
    BY <2>1 DEF Entry
  <2>3. ASSUME NEW n \in 0 .. size - 1
        PROVE  /\ dirent_at(i, n) = CellIn(inodes, blocks, i, n)
               /\ dirent_at(i, n) # NullDirent
    <3>1. dirent_at(i, n) = CellIn(inodes, blocks, i, n)
      BY <1>1, <2>2, DirentIs
    <3>2. CellIn(inodes, blocks, i, n).inode_id \in i + 1 .. Len(inodes) /\ i \in Nat
      BY <1>1, <2>1, <2>2, StoreParts, SMTT(30) DEF Forest
    <3>3. dirent_at(i, n).inode_id # 0
      BY <3>1, <3>2
    <3> QED
      BY <3>1, <3>3 DEF NullDirent, INVALID_INO
  <2>4. fs_readdir_all(i) = {CellIn(inodes, blocks, i, n) : n \in 0 .. size - 1}
    <3>1. {n \in 0 .. size - 1 : \A j \in 0 .. n : dirent_at(i, j) # NullDirent} = 0 .. size - 1
      BY <2>1, <2>3
    <3>2. fs_readdir_all(i) = {dirent_at(i, n) : n \in 0 .. size - 1}
      BY <3>1, Zenon DEF fs_readdir_all
    <3> QED
      BY <2>3, <3>2
  <2>5. ASSUME NEW name
        PROVE  (IF EntryOf(i, name) = {} THEN INVALID_INO
                ELSE (CHOOSE d \in EntryOf(i, name) : TRUE).inode_id) = Enter(i, name)
    <3>1. EntryOf(i, name) = {d \in fs_readdir_all(i) : d.name = name}
      BY <1>3 DEF EntryOf
    <3>2. ASSUME NEW d \in EntryOf(i, name)
          PROVE  Leads(inodes, blocks, i, name, d.inode_id)
      <4>1. PICK n \in 0 .. size - 1 : d = CellIn(inodes, blocks, i, n) /\ d.name = name
        BY <2>4, <3>1
      <4> QED
        BY <2>2, <4>1 DEF Leads
    <3>3. CASE EntryOf(i, name) = {}
      <4>1. ~Leads(inodes, blocks, i, name, Enter(i, name))
        <5> SUFFICES ASSUME Leads(inodes, blocks, i, name, Enter(i, name)) PROVE FALSE
          OBVIOUS
        <5>1. PICK n : Entry(inodes, i, n) /\ CellIn(inodes, blocks, i, n).name = name
          BY DEF Leads
        <5>2. n \in 0 .. size - 1
          BY <2>1, <5>1 DEF Entry
        <5>3. CellIn(inodes, blocks, i, n) \in fs_readdir_all(i)
          BY <2>4, <5>2
        <5> QED
          BY <3>1, <3>3, <5>1, <5>3
      <4> QED
        BY <1>1, <3>3, <4>1 DEF EnterFollows
    <3>4. CASE EntryOf(i, name) # {}
      <4> DEFINE d == CHOOSE d \in EntryOf(i, name) : TRUE
      <4>1. d \in EntryOf(i, name)
        BY <3>4
      <4> HIDE DEF d
      <4>2. d.inode_id = Enter(i, name)
        BY <1>1, <3>2, <4>1 DEF EnterFollows
      <4> QED
        BY <3>4, <4>2 DEF d
    <3> QED
      BY <3>3, <3>4
  <2>6. EntriesOf(i) = [name \in Names |-> IF EntryOf(i, name) = {} THEN INVALID_INO
                                           ELSE (CHOOSE d \in EntryOf(i, name) : TRUE).inode_id]
    BY DEF EntriesOf
  <2> QED
    BY <2>5, <2>6
<1> QED
  BY <1>2, <1>3

\* The content of a file, nothing for what is not one.
Content(ins, bs, i) ==
  IF i \in DOMAIN ins /\ ins[i].type = 1 THEN Slice(ins, bs, i, 0, ins[i].size) ELSE <<>>

ContentsAreSlices == \A i : ContentOf(i) = Content(inodes, blocks, i)

LEMMA ContentsFollow == Inv => ContentsAreSlices
BY ContentIs DEF Inv, ContentsAreSlices, Content, ContentOf, is_file, exists

\* The content after a call is the content before if the cells are the same.
LEMMA ContentKept ==
  ASSUME NEW ins, NEW bs, HasChains(ins, bs), NEW ins2, NEW bs2, NEW i,
         i \in DOMAIN ins <=> i \in DOMAIN ins2,
         i \in DOMAIN ins => ins2[i].type = ins[i].type,
         i \in DOMAIN ins /\ ins[i].type = 1 =>
           /\ ins2[i].size = ins[i].size
           /\ \A n \in Nat : n < ins[i].size => CellIn(ins2, bs2, i, n) = CellIn(ins, bs, i, n)
  PROVE  Content(ins2, bs2, i) = Content(ins, bs, i)
<1>1. CASE i \in DOMAIN ins /\ ins[i].type = 1
  <2>1. ins[i].size \in Nat
    BY <1>1, StoreParts
  <2>2. ASSUME NEW k \in 1 .. ins[i].size - 0
        PROVE  CellIn(ins2, bs2, i, 0 + k - 1) = CellIn(ins, bs, i, 0 + k - 1)
    <3>1. 0 + k - 1 \in Nat /\ 0 + k - 1 < ins[i].size
      BY <2>1
    <3> QED
      BY <1>1, <3>1
  <2>3. Slice(ins2, bs2, i, 0, ins[i].size) = Slice(ins, bs, i, 0, ins[i].size)
    BY <2>2 DEF Slice
  <2> QED
    BY <1>1, <2>3 DEF Content
<1>2. CASE ~(i \in DOMAIN ins /\ ins[i].type = 1)
  BY <1>2 DEF Content
<1> QED
  BY <1>1, <1>2

LEMMA CreatedContent ==
  ASSUME NEW ins, NEW bs, HasChains(ins, bs), NEW ins2, NEW bs2, HasChains(ins2, bs2),
         NEW p, NEW name, NEW type, Created(ins, bs, ins2, bs2, p, name, type), NEW i
  PROVE  Content(ins2, bs2, i) = Content(ins, bs, i)
<1>1. /\ DOMAIN ins = 1 .. Len(ins) /\ DOMAIN ins2 = 1 .. Len(ins2) /\ Len(ins) \in Nat
      /\ Len(ins2) = Len(ins) + 1 /\ ins2[Len(ins) + 1].size = 0
      /\ p \in DOMAIN ins /\ ins[p].type = 2
  BY StoreParts DEF Created
<1>2. CASE i = Len(ins) + 1
  <2>1. i \notin DOMAIN ins /\ i \in DOMAIN ins2 /\ ins2[i].size = 0
    BY <1>1, <1>2
  <2>2. Slice(ins2, bs2, i, 0, 0) = <<>>
    BY DEF Slice
  <2> QED
    BY <2>1, <2>2 DEF Content
<1>3. CASE i # Len(ins) + 1
  <2>1. i \in DOMAIN ins <=> i \in DOMAIN ins2
    BY <1>1, <1>3
  <2>2. i \in DOMAIN ins => ins2[i].type = ins[i].type
    BY DEF Created
  <2>3. ASSUME i \in DOMAIN ins, ins[i].type = 1
        PROVE  /\ ins2[i].size = ins[i].size
               /\ \A n \in Nat : n < ins[i].size => CellIn(ins2, bs2, i, n) = CellIn(ins, bs, i, n)
    <3>1. i # p /\ ins2[i].size = ins[i].size
      BY <1>1, <2>3 DEF Created
    <3> QED
      BY <2>3, <3>1 DEF Created
  <2> QED
    BY <2>1, <2>2, <2>3, ContentKept
<1> QED
  BY <1>2, <1>3

LEMMA UnlinkedContent ==
  ASSUME NEW ins, NEW bs, HasChains(ins, bs), NEW ins2, NEW bs2, HasChains(ins2, bs2),
         NEW p, NEW m, Unlinked(ins, bs, ins2, bs2, p, m), NEW i
  PROVE  Content(ins2, bs2, i) = Content(ins, bs, i)
<1>1. DOMAIN ins = DOMAIN ins2 /\ ins[p].type = 2
  BY StoreParts DEF Unlinked, Entry
<1>2. i \in DOMAIN ins => ins2[i].type = ins[i].type
  BY DEF Unlinked
<1>3. ASSUME i \in DOMAIN ins, ins[i].type = 1
      PROVE  /\ ins2[i].size = ins[i].size
             /\ \A n \in Nat : n < ins[i].size => CellIn(ins2, bs2, i, n) = CellIn(ins, bs, i, n)
  <2>1. i # p /\ ins2[i].size = ins[i].size
    BY <1>1, <1>3 DEF Unlinked
  <2> QED
    BY <1>3, <2>1 DEF Unlinked
<1> QED
  BY <1>1, <1>2, <1>3, ContentKept

\* What fs_write makes of the content of a file of that size.
ContentWritten(old, new, size, offset, src) ==
  /\ old \in Seq(Bytes) /\ Len(old) = size
  /\ new \in Seq(Bytes)
  /\ Len(new) = IF offset + Len(src) > size THEN offset + Len(src) ELSE size
  /\ \A k \in 1 .. Len(new) :
       IF k \in offset + 1 .. offset + Len(src) THEN new[k] = src[k - offset]
       ELSE k <= size => new[k] = old[k]

LEMMA WrittenContent ==
  ASSUME NEW ins, NEW bs, HasChains(ins, bs), NEW ins2, NEW bs2, HasChains(ins2, bs2),
         NEW p, NEW offset \in Nat, NEW src \in Seq(Bytes), Written(ins, bs, ins2, bs2, p, offset, src)
  PROVE  /\ \A i : i # p => Content(ins2, bs2, i) = Content(ins, bs, i)
         /\ ContentWritten(Content(ins, bs, p), Content(ins2, bs2, p), ins[p].size, offset, src)
<1> DEFINE old == Slice(ins, bs, p, 0, ins[p].size)
           new == Slice(ins2, bs2, p, 0, ins2[p].size)
<1>1. /\ DOMAIN ins = DOMAIN ins2 /\ p \in DOMAIN ins /\ ins[p].type = 1 /\ ins2[p].type = 1
      /\ ins[p].size \in Nat /\ ins2[p].size \in Nat /\ Len(src) \in Nat
      /\ ins2[p].size = IF offset + Len(src) > ins[p].size THEN offset + Len(src) ELSE ins[p].size
  BY StoreParts, SMTT(30) DEF Written
<1>2. Content(ins, bs, p) = old /\ Content(ins2, bs2, p) = new
  BY <1>1 DEF Content
<1>3. ASSUME NEW i, i # p
      PROVE  Content(ins2, bs2, i) = Content(ins, bs, i)
  <2>1. i \in DOMAIN ins => ins2[i].type = ins[i].type /\ ins2[i].size = ins[i].size
    BY <1>3 DEF Written
  <2>2. i \in DOMAIN ins =>
          \A n \in Nat : n < ins[i].size => CellIn(ins2, bs2, i, n) = CellIn(ins, bs, i, n)
    BY <1>3, <2>1 DEF Written
  <2> QED
    BY <1>1, <2>1, <2>2, ContentKept
<1>4. /\ old \in Seq(Bytes) /\ Len(old) = ins[p].size
      /\ new \in Seq(Bytes) /\ Len(new) = ins2[p].size
  <2>1. /\ 0 \in Nat /\ ins[p].size \in 0 .. ins[p].size /\ ins[p].size - 0 = ins[p].size
        /\ ins2[p].size \in 0 .. ins2[p].size /\ ins2[p].size - 0 = ins2[p].size
        /\ p \in DOMAIN ins2
    BY <1>1
  <2>2. old \in Seq(Bytes) /\ Len(old) = ins[p].size
    BY <1>1, <2>1, SliceTyped, ZenonT(60)
  <2>3. new \in Seq(Bytes) /\ Len(new) = ins2[p].size
    BY <1>1, <2>1, SliceTyped, ZenonT(60)
  <2> QED
    BY <2>2, <2>3
<1>5. ASSUME NEW k \in 1 .. Len(new)
      PROVE  IF k \in offset + 1 .. offset + Len(src) THEN new[k] = src[k - offset]
             ELSE k <= ins[p].size => new[k] = old[k]
  <2>1. /\ k - 1 \in Nat /\ k - 1 < ins2[p].size /\ k \in 1 .. ins2[p].size - 0 /\ 0 + k - 1 = k - 1
        /\ k <= ins[p].size => k \in 1 .. ins[p].size - 0 /\ k - 1 < ins[p].size
        /\ k \in offset + 1 .. offset + Len(src) <=> k - 1 \in offset .. offset + Len(src) - 1
        /\ (k - 1) - offset + 1 = k - offset
    BY <1>1, <1>4, SMTT(30)
  <2>2. /\ new[k] = CellIn(ins2, bs2, p, k - 1)
        /\ k <= ins[p].size => old[k] = CellIn(ins, bs, p, k - 1)
    BY <2>1 DEF Slice
  <2> HIDE DEF old, new
  <2>3. IF k - 1 \in offset .. offset + Len(src) - 1
        THEN CellIn(ins2, bs2, p, k - 1) = src[(k - 1) - offset + 1]
        ELSE k - 1 < ins[p].size => CellIn(ins2, bs2, p, k - 1) = CellIn(ins, bs, p, k - 1)
    BY <1>1, <2>1 DEF Written
  <2> QED
    BY <2>1, <2>2, <2>3
<1> HIDE DEF old, new
<1> QED
  BY <1>1, <1>2, <1>3, <1>4, <1>5 DEF ContentWritten

-----------------------------------------------------------------------------
(* The filesystem implements the tree.                                     *)

Seen == EnterFollows /\ EntriesAreLinks /\ ContentsAreSlices

LEMMA SeenFollows == Inv => Seen
BY EnterIs, EntriesFollow, ContentsFollow DEF Seen

\* The state the tree is in.
Kinds    == [i \in 1 .. MaxInodes |-> KindOf(i)]
Entries  == [i \in 1 .. MaxInodes |-> EntriesOf(i)]
Contents == [i \in 1 .. MaxInodes |-> ContentOf(i)]

LEMMA InodesInRange ==
  ASSUME Inv
  PROVE  /\ DOMAIN inodes = 1 .. Len(inodes) /\ Len(inodes) \in Nat
         /\ DOMAIN inodes \subseteq 1 .. MaxInodes
         /\ \A i \in DOMAIN inodes : inodes[i].type \in {1, 2}
<1>1. Len(inodes) <= MaxInodes /\ HasChains(inodes, blocks) /\ MaxInodes \in Nat
  BY FileSystemAssumption DEF Inv
<1> QED
  BY <1>1, StoreParts

\* Directories and files are those of the tree.
LEMMA SameKinds ==
  ASSUME Inv, NEW i
  PROVE  /\ FT!IsDirectory(i) <=> is_dir(i)
         /\ FT!IsFile(i) <=> is_file(i)
<1>1. /\ DOMAIN inodes \subseteq 1 .. MaxInodes
      /\ \A j \in DOMAIN inodes : inodes[j].type \in {1, 2}
  BY InodesInRange
<1> QED
  BY <1>1 DEF FT!IsDirectory, FT!IsFile, KindOf, is_dir, is_file, exists

\* How the mapped state changes follows from the links and the contents.
LEMMA KindsChange ==
  ASSUME Inv, Inv', NEW new \in 1 .. MaxInodes, NEW type,
         \A i \in 1 .. MaxInodes : KindOf(i)' = IF i = new THEN type ELSE KindOf(i)
  PROVE  Kinds' = [Kinds EXCEPT ![new] = type]
BY DEF Kinds

LinkSet(p, name, t) ==
  \A i, s : Enter(i, s)' = IF i = p /\ s = name THEN t ELSE Enter(i, s)

LEMMA EntriesChange ==
  ASSUME EntriesAreLinks, EntriesAreLinks', NEW p \in 1 .. MaxInodes, NEW name \in Names, NEW t,
         LinkSet(p, name, t)
  PROVE  Entries' = [Entries EXCEPT ![p][name] = t]
<1>1. Entries = [i \in 1 .. MaxInodes |-> [s \in Names |-> Enter(i, s)]]
  BY DEF EntriesAreLinks, Entries
<1>2. Entries' = [i \in 1 .. MaxInodes |-> [s \in Names |-> Enter(i, s)']]
  BY DEF EntriesAreLinks, Entries
<1>3. Entries' = [i \in 1 .. MaxInodes |-> [s \in Names |->
                    IF i = p /\ s = name THEN t ELSE Enter(i, s)]]
  BY <1>2 DEF LinkSet
<1> QED
  BY <1>1, <1>3

LEMMA EntriesKept ==
  ASSUME EntriesAreLinks, EntriesAreLinks', \A i, s : Enter(i, s)' = Enter(i, s)
  PROVE  Entries' = Entries
BY DEF EntriesAreLinks, Entries

LEMMA ContentsKept ==
  ASSUME ContentsAreSlices, ContentsAreSlices',
         \A i : Content(inodes', blocks', i) = Content(inodes, blocks, i)
  PROVE  Contents' = Contents
BY DEF ContentsAreSlices, Contents

LEMMA EntryOfTree ==
  ASSUME Inv, NEW i \in 1 .. MaxInodes, NEW name \in Names
  PROVE  Entries[i][name] = Enter(i, name)
BY EntriesFollow DEF EntriesAreLinks, Entries

LEMMA InitIsStart ==
  ASSUME Inv, Seen, Inv', Seen', fs_init
  PROVE  FT!Start
<1>1. /\ inodes = <<>> /\ DOMAIN inodes' = {1} /\ inodes'[1] = NewInode(2)
      /\ ret' = ret /\ HasChains(inodes, blocks)
  BY InitDoes DEF Inv
<1>2. 1 \in 1 .. MaxInodes
  BY FileSystemAssumption
<1>3. Kinds[1] = 0 /\ Kinds' = [Kinds EXCEPT ![1] = 2]
  <2>1. \A i : KindOf(i) = 0 /\ KindOf(i)' = IF i = 1 THEN 2 ELSE 0
    BY <1>1 DEF KindOf, exists, NewInode
  <2> QED
    BY <1>2, <2>1 DEF Kinds
<1>4. Entries' = Entries
  BY <1>1, InitLinks, EntriesKept DEF Seen
<1>5. \A i : Content(inodes, blocks, i) = <<>> /\ Content(inodes', blocks', i) = <<>>
  BY <1>1 DEF Content, NewInode
<1>6. Contents' = Contents
  BY <1>5, ContentsKept DEF Seen
<1> QED
  BY <1>1, <1>3, <1>4, <1>6 DEF FT!Start, FT!ROOT_INO, Kinds, Entries, Contents

LEMMA CreateIsCreate ==
  ASSUME Fresh, Inv, Seen, Inv', Seen', NEW parent, NEW name \in CallNames,
         NEW type \in CallTypes, NEW stale \in StaleNext, fs_create(parent, name, type, stale)
  PROVE  FT!Create(parent, name, type)
<1>0. PICK new : new = Len(inodes) + 1
  OBVIOUS
<1>1. /\ HasChains(inodes, blocks) /\ HasChains(inodes', blocks')
      /\ Created(inodes, blocks, inodes', blocks', parent, name, type)
      /\ ret' = new /\ Len(inodes') <= MaxInodes
  BY <1>0, CreateDoes DEF Inv
<1>2. /\ parent \in DOMAIN inodes /\ inodes[parent].type = 2 /\ name \in Names
      /\ Len(inodes') = new /\ inodes'[new].type = type
      /\ \A i \in DOMAIN inodes : inodes'[i].type = inodes[i].type
  BY <1>0, <1>1 DEF Created
<1>3. /\ parent \in 1 .. MaxInodes /\ new \in 1 .. MaxInodes
      /\ DOMAIN inodes = 1 .. Len(inodes) /\ DOMAIN inodes' = 1 .. Len(inodes')
      /\ Len(inodes) \in Nat
  BY <1>0, <1>1, <1>2, InodesInRange, StoreParts, FileSystemAssumption
<1>4. FT!IsDirectory(parent)
  <2>1. is_dir(parent)
    BY <1>2 DEF is_dir, exists
  <2> QED
    BY <2>1, SameKinds
<1>5. Enter(parent, name) = INVALID_INO
      /\ LinkSet(parent, name, new)
  BY <1>0, CreateLinks DEF Seen, LinkSet
<1>6. \A i \in 1 .. MaxInodes : KindOf(i)' = IF i = new THEN type ELSE KindOf(i)
  BY <1>0, <1>2, <1>3 DEF KindOf, exists
<1>7. Kinds[new] = 0 /\ new # 0
  BY <1>0, <1>3 DEF Kinds, KindOf, exists
<1>8. Kinds' = [Kinds EXCEPT ![new] = type]
  BY <1>3, <1>6, KindsChange
<1>9. Entries' = [Entries EXCEPT ![parent][name] = new]
  <2>1. EntriesAreLinks /\ EntriesAreLinks'
    BY DEF Seen
  <2> QED
    BY <1>2, <1>3, <1>5, <2>1, EntriesChange
<1>10. \A i : Content(inodes', blocks', i) = Content(inodes, blocks, i)
  BY <1>1, CreatedContent
<1>11. Contents' = Contents
  BY <1>10, ContentsKept DEF Seen
<1>12. Entries[parent][name] = INVALID_INO
  BY <1>2, <1>3, <1>5, EntryOfTree
<1> QED
  BY <1>1, <1>2, <1>3, <1>4, <1>7, <1>8, <1>9, <1>11, <1>12
     DEF FT!Create, FT!INVALID_INO, INVALID_INO, Kinds, Entries, Contents

\* A name that leads somewhere is listed, and the other way round.
LEMMA ListedIs ==
  ASSUME Inv, NEW i, is_dir(i), NEW name
  PROVE  /\ Listed(i, name) <=> Enter(i, name) # INVALID_INO
         /\ Listed(i, name) => dirent_at(i, IndexOf(i, name)).inode_id = Enter(i, name)
<1>1. /\ HasChains(inodes, blocks) /\ Forest(inodes, blocks) /\ EnterFollows
      /\ i \in DOMAIN inodes /\ inodes[i].type = 2
  BY EnterIs DEF Inv, is_dir, exists
<1>2. Enter(i, name) = dirent_at(i, IndexOf(i, name)).inode_id
  BY DEF Enter
<1>3. ASSUME Listed(i, name)
      PROVE  Enter(i, name) # INVALID_INO
  <2>1. Entry(inodes, i, IndexOf(i, name)) /\ CellIn(inodes, blocks, i, IndexOf(i, name)).name = name
    BY <1>1, <1>3, IndexOfIs
  <2>2. Leads(inodes, blocks, i, name, CellIn(inodes, blocks, i, IndexOf(i, name)).inode_id)
    BY <2>1 DEF Leads
  <2> QED
    BY <1>1, <2>2, LeadsTo DEF EnterFollows
<1>4. ASSUME Enter(i, name) # INVALID_INO
      PROVE  Listed(i, name)
  <2>1. Leads(inodes, blocks, i, name, Enter(i, name))
    BY <1>1, <1>4 DEF EnterFollows
  <2>2. PICK n : Entry(inodes, i, n) /\ CellIn(inodes, blocks, i, n).name = name
    BY <2>1 DEF Leads
  <2> QED
    BY <1>1, <2>2, IndexOfIs
<1> QED
  BY <1>2, <1>3, <1>4

\* A directory has entries exactly when its size is not 0.
LEMMA EmptyIs ==
  ASSUME Inv, NEW i \in 1 .. MaxInodes
  PROVE  Entries[i] = FT!NoEntries <=> ~(is_dir(i) /\ inodes[i].size # 0)
<1>1. /\ HasChains(inodes, blocks) /\ Forest(inodes, blocks) /\ EnterFollows
      /\ Entries[i] = [name \in Names |-> Enter(i, name)]
  BY EnterIs, EntriesFollow DEF Inv, EntriesAreLinks, Entries
<1>2. ASSUME is_dir(i), inodes[i].size # 0
      PROVE  Entries[i] # FT!NoEntries
  <2>1. Entry(inodes, i, 0)
    BY <1>1, <1>2, StoreParts DEF Entry, is_dir, exists
  <2> DEFINE d == CellIn(inodes, blocks, i, 0)
  <2>2. Leads(inodes, blocks, i, d.name, d.inode_id)
    BY <2>1 DEF Leads
  <2> HIDE DEF d
  <2>3. d.name \in Names /\ Enter(i, d.name) # INVALID_INO
    BY <1>1, <2>2, LeadsTo DEF EnterFollows
  <2> QED
    BY <1>1, <2>3 DEF FT!NoEntries, FT!INVALID_INO, INVALID_INO
<1>3. ASSUME ~(is_dir(i) /\ inodes[i].size # 0)
      PROVE  Entries[i] = FT!NoEntries
  <2>1. ASSUME NEW name, Enter(i, name) # INVALID_INO
        PROVE  FALSE
    <3>1. Leads(inodes, blocks, i, name, Enter(i, name))
      BY <1>1, <2>1 DEF EnterFollows
    <3>2. PICK n : Entry(inodes, i, n)
      BY <3>1 DEF Leads
    <3>3. i \in DOMAIN inodes /\ inodes[i].type = 2 /\ n \in Nat /\ n < inodes[i].size
      BY <3>2 DEF Entry
    <3> QED
      BY <1>3, <3>3 DEF is_dir, exists
  <2>2. \A name : Enter(i, name) = 0
    BY <2>1 DEF INVALID_INO
  <2> QED
    BY <1>1, <2>2 DEF FT!NoEntries, FT!INVALID_INO
<1> QED
  BY <1>2, <1>3

\* fs_unlink removes what the tree says can be removed.
LEMMA SameRemovable ==
  ASSUME Inv, NEW parent, NEW name
  PROVE  /\ FT!Removable(parent, name) => CanUnlink(parent, name)
         /\ CanUnlink(parent, name) /\ name \in Names => FT!Removable(parent, name)
<1>1. FT!IsDirectory(parent) <=> is_dir(parent)
  BY SameKinds
<1>2. CASE ~is_dir(parent)
  BY <1>1, <1>2 DEF FT!Removable, CanUnlink
<1>3. CASE is_dir(parent)
  <2> DEFINE t == Enter(parent, name)
  <2>1. parent \in DOMAIN inodes /\ parent \in 1 .. MaxInodes
    BY <1>3, InodesInRange DEF is_dir, exists
  <2>2. /\ Listed(parent, name) <=> t # INVALID_INO
        /\ Listed(parent, name) => dirent_at(parent, IndexOf(parent, name)).inode_id = t
    BY <1>3, ListedIs
  <2>3. name \in Names => Entries[parent][name] = t
    BY <2>1, EntryOfTree
  <2>4. CASE t = INVALID_INO
    BY <2>2, <2>3, <2>4 DEF FT!Removable, FT!INVALID_INO, INVALID_INO, CanUnlink, Entries
  <2>5. CASE t # INVALID_INO
    <3>1. Leads(inodes, blocks, parent, name, t)
      BY <2>5, EnterIs DEF EnterFollows
    <3>2. t \in DOMAIN inodes /\ name \in Names
      BY <3>1, LeadsTo DEF Inv
    <3>3. t \in 1 .. MaxInodes
      BY <3>2, InodesInRange
    <3>4. Entries[t] = FT!NoEntries <=> ~(inodes[t].type = 2 /\ inodes[t].size # 0)
      BY <3>2, <3>3, EmptyIs DEF is_dir, exists
    <3>5. FT!Removable(parent, name) <=> Entries[t] = FT!NoEntries
      BY <1>1, <1>3, <2>3, <2>5, <3>2 DEF FT!Removable, FT!INVALID_INO, INVALID_INO, Entries
    <3>6. CanUnlink(parent, name) <=> ~(inodes[t].type = 2 /\ inodes[t].size # 0)
      BY <1>3, <2>2, <2>5 DEF CanUnlink
    <3> QED
      BY <3>4, <3>5, <3>6
  <2> QED
    BY <2>4, <2>5
<1> QED
  BY <1>2, <1>3

LEMMA UnlinkIsUnlink ==
  ASSUME Inv, Seen, Inv', Seen', NEW parent, NEW name, fs_unlink(parent, name)
  PROVE  FT!Unlink(parent, name)
<1>1. /\ HasChains(inodes, blocks) /\ HasChains(inodes', blocks')
      /\ Unlinked(inodes, blocks, inodes', blocks', parent, IndexOf(parent, name))
      /\ ret' = 0 /\ Len(inodes') = Len(inodes) /\ CanUnlink(parent, name)
  BY UnlinkDoes DEF Inv, fs_unlink
<1>2. /\ name \in Names
      /\ LinkSet(parent, name, INVALID_INO)
  BY UnlinkLinks DEF Seen, LinkSet
<1>3. FT!Removable(parent, name)
  BY <1>1, <1>2, SameRemovable
<1>4. parent \in 1 .. MaxInodes
  BY <1>1, InodesInRange DEF Unlinked, Entry
<1>5. \A i : KindOf(i)' = KindOf(i)
  <2>1. DOMAIN inodes' = DOMAIN inodes
    BY <1>1, StoreParts
  <2>2. \A i \in DOMAIN inodes : inodes'[i].type = inodes[i].type
    BY <1>1 DEF Unlinked
  <2> QED
    BY <2>1, <2>2 DEF KindOf, exists
<1>6. Kinds' = Kinds
  BY <1>5 DEF Kinds
<1>7. Entries' = [Entries EXCEPT ![parent][name] = INVALID_INO]
  <2>1. EntriesAreLinks /\ EntriesAreLinks'
    BY DEF Seen
  <2> QED
    BY <1>2, <1>4, <2>1, EntriesChange
<1>8. \A i : Content(inodes', blocks', i) = Content(inodes, blocks, i)
  BY <1>1, UnlinkedContent
<1>9. Contents' = Contents
  BY <1>8, ContentsKept DEF Seen
<1> QED
  BY <1>1, <1>3, <1>6, <1>7, <1>9, SMTT(30)
     DEF FT!Unlink, FT!INVALID_INO, INVALID_INO, Kinds, Entries, Contents

LEMMA WriteIsWrite ==
  ASSUME Fresh, Inv, Seen, Inv', Seen', NEW ino, NEW offset \in Offsets,
         NEW src \in Sources, NEW stale \in StaleNext, fs_write(ino, offset, src, stale)
  PROVE  FT!Write(ino, offset, src)
<1>1. /\ HasChains(inodes, blocks) /\ HasChains(inodes', blocks')
      /\ Written(inodes, blocks, inodes', blocks', ino, offset, src)
      /\ ret' = Len(src) /\ Len(inodes') = Len(inodes) /\ is_file(ino)
      /\ offset \in Nat /\ src \in Seq(Bytes)
  BY WriteDoes, FileSystemAssumption, ZenonT(60) DEF Inv, fs_write
<1>2. ino \in 1 .. MaxInodes /\ FT!IsFile(ino)
  BY <1>1, InodesInRange, SameKinds DEF is_file, exists
<1>3. Kinds' = Kinds
  <2>1. DOMAIN inodes' = DOMAIN inodes
    BY <1>1, StoreParts
  <2>2. \A i \in DOMAIN inodes : inodes'[i].type = inodes[i].type
    BY <1>1 DEF Written
  <2>3. \A i : KindOf(i)' = KindOf(i)
    BY <2>1, <2>2 DEF KindOf, exists
  <2> QED
    BY <2>3 DEF Kinds
<1>4. Entries' = Entries
  <2>1. \A i, s : Enter(i, s)' = Enter(i, s)
    BY WriteLinks DEF Seen
  <2> QED
    BY <2>1, EntriesKept DEF Seen
<1>5. PICK old : old = Content(inodes, blocks, ino)
  OBVIOUS
<1>6. PICK new : new = Content(inodes', blocks', ino)
  OBVIOUS
<1>7. /\ \A i : i # ino => Content(inodes', blocks', i) = Content(inodes, blocks, i)
      /\ ContentWritten(old, new, inodes[ino].size, offset, src)
  <2>1. /\ \A i : i # ino => Content(inodes', blocks', i) = Content(inodes, blocks, i)
        /\ ContentWritten(Content(inodes, blocks, ino), Content(inodes', blocks', ino),
                          inodes[ino].size, offset, src)
    BY <1>1, WrittenContent
  <2> QED
    BY <1>5, <1>6, <2>1
<1>8. Contents[ino] = old /\ Contents'[ino] = new
  BY <1>2, <1>5, <1>6 DEF Contents, Seen, ContentsAreSlices
<1>9. Contents' = [Contents EXCEPT ![ino] = new]
  <2>1. \A i \in 1 .. MaxInodes : ContentOf(i)' = IF i = ino THEN new ELSE ContentOf(i)
    BY <1>6, <1>7 DEF Seen, ContentsAreSlices
  <2> QED
    BY <2>1 DEF Contents
<1>10. /\ new \in [1 .. (IF offset + Len(src) > Len(old) THEN offset + Len(src) ELSE Len(old)) -> Bytes]
       /\ \A k \in DOMAIN new :
            IF k \in offset + 1 .. offset + Len(src) THEN new[k] = src[k - offset]
            ELSE k <= Len(old) => new[k] = old[k]
  BY <1>7, SMTT(30) DEF ContentWritten
<1> QED
  BY <1>1, <1>2, <1>3, <1>4, <1>8, <1>9, <1>10, SMTT(30) DEF FT!Write, Kinds, Entries, Contents

LEMMA MappedKept ==
  ASSUME UNCHANGED <<inodes, blocks>>
  PROVE  Kinds' = Kinds /\ Entries' = Entries /\ Contents' = Contents
BY DEF Kinds, Entries, Contents, KindOf, EntriesOf, ContentOf, exists, EntryOf, is_dir, is_file,
       fs_readdir_all, dirent_at, fs_read

LEMMA CreateFailsInTree ==
  ASSUME Inv, NEW parent, NEW name, fs_create_fails(parent, name)
  PROVE  FT!CreateFails(parent, name)
<1>1. ~CanCreate(parent, name) /\ ret' = INVALID_INO /\ UNCHANGED <<inodes, blocks>>
  BY DEF fs_create_fails
<1>2. ASSUME FT!IsDirectory(parent), name \in Names
      PROVE  Entries[parent][name] # 0
  <2>1. is_dir(parent) /\ parent \in 1 .. MaxInodes
    BY <1>2, SameKinds DEF FT!IsDirectory
  <2>2. Listed(parent, name)
    BY <1>1, <1>2, <2>1, FileSystemAssumption DEF CanCreate
  <2> QED
    BY <1>2, <2>1, <2>2, ListedIs, EntryOfTree DEF INVALID_INO
<1>3. Kinds' = Kinds /\ Entries' = Entries /\ Contents' = Contents
  BY <1>1, MappedKept
<1> QED
  BY <1>1, <1>2, <1>3 DEF FT!CreateFails, FT!INVALID_INO, INVALID_INO, Kinds, Entries, Contents

LEMMA UnlinkFailsInTree ==
  ASSUME Inv, NEW parent, NEW name, fs_unlink_fails(parent, name)
  PROVE  FT!UnlinkFails(parent, name)
<1>1. ~CanUnlink(parent, name) /\ ret' = -1 /\ UNCHANGED <<inodes, blocks>>
  BY DEF fs_unlink_fails
<1>2. ~FT!Removable(parent, name)
  BY <1>1, SameRemovable
<1>3. Kinds' = Kinds /\ Entries' = Entries /\ Contents' = Contents
  BY <1>1, MappedKept
<1> QED
  BY <1>1, <1>2, <1>3 DEF FT!UnlinkFails, Kinds, Entries, Contents

LEMMA WriteFailsInTree ==
  ASSUME Inv, NEW ino, fs_write_fails(ino)
  PROVE  FT!WriteFails(ino)
<1>1. ~is_file(ino) /\ ret' = -1 /\ UNCHANGED <<inodes, blocks>>
  BY DEF fs_write_fails
<1>2. ~FT!IsFile(ino)
  BY <1>1, SameKinds
<1>3. Kinds' = Kinds /\ Entries' = Entries /\ Contents' = Contents
  BY <1>1, MappedKept
<1> QED
  BY <1>1, <1>2, <1>3 DEF FT!WriteFails, Kinds, Entries, Contents

LEMMA InitInTree ==
  ASSUME Init
  PROVE  FT!Init
<1>1. inodes = <<>> /\ blocks = <<>> /\ ret = 0
  BY DEF Init
<1>2. \A i : ~exists(i)
  BY <1>1 DEF exists
<1>3. \A i : KindOf(i) = 0 /\ ContentOf(i) = <<>>
  BY <1>2 DEF KindOf, ContentOf, is_file
<1>4. \A i, name : EntryOf(i, name) = {}
  BY <1>2 DEF EntryOf, is_dir
<1>5. \A i : EntriesOf(i) = [name \in Names |-> 0]
  BY <1>4 DEF EntriesOf, INVALID_INO
<1> QED
  BY <1>1, <1>3, <1>5 DEF FT!Init, FT!NoEntries, FT!INVALID_INO

\* Every step of the filesystem is a step of the tree, or leaves it as it is.
LEMMA StepInTree ==
  ASSUME Fresh, Inv, Seen, Inv', Seen', [Next]_vars
  PROVE  [FT!Next]_(FT!vars)
<1>1. ASSUME fs_init
      PROVE  FT!Next
  BY <1>1, InitIsStart DEF FT!Next
<1>2. ASSUME NEW parent \in CallInos, NEW name \in CallNames, NEW type \in CallTypes,
             NEW stale \in StaleNext, fs_create(parent, name, type, stale)
      PROVE  FT!Next
  <2>1. FT!Create(parent, name, type)
    BY <1>2, CreateIsCreate
  <2> QED
    BY <2>1 DEF FT!Next
<1>3. ASSUME NEW parent \in CallInos, NEW name \in CallNames, fs_create_fails(parent, name)
      PROVE  FT!Next
  <2>1. FT!CreateFails(parent, name)
    BY <1>3, CreateFailsInTree
  <2> QED
    BY <2>1 DEF FT!Next
<1>4. ASSUME NEW parent \in CallInos, NEW name \in CallNames, fs_unlink(parent, name)
      PROVE  FT!Next
  <2>1. FT!Unlink(parent, name)
    BY <1>4, UnlinkIsUnlink
  <2> QED
    BY <2>1 DEF FT!Next
<1>5. ASSUME NEW parent \in CallInos, NEW name \in CallNames, fs_unlink_fails(parent, name)
      PROVE  FT!Next
  <2>1. FT!UnlinkFails(parent, name)
    BY <1>5, UnlinkFailsInTree
  <2> QED
    BY <2>1 DEF FT!Next
<1>6. ASSUME NEW ino \in CallInos, NEW offset \in Offsets, NEW src \in Sources,
             NEW stale \in StaleNext, fs_write(ino, offset, src, stale)
      PROVE  FT!Next
  <2>1. FT!Write(ino, offset, src)
    BY <1>6, WriteIsWrite
  <2> QED
    BY <2>1 DEF FT!Next
<1>7. ASSUME NEW ino \in CallInos, fs_write_fails(ino)
      PROVE  FT!Next
  <2>1. FT!WriteFails(ino)
    BY <1>7, WriteFailsInTree
  <2> QED
    BY <2>1 DEF FT!Next
<1>8. ASSUME UNCHANGED vars
      PROVE  UNCHANGED FT!vars
  BY <1>8, MappedKept DEF vars, FT!vars, Kinds, Entries, Contents
<1> QED
  BY <1>1, <1>2, <1>3, <1>4, <1>5, <1>6, <1>7, <1>8 DEF Next

-----------------------------------------------------------------------------
(* The theorems.                                                           *)

LEMMA InvWhileFresh == Spec /\ [][EndsFresh]_vars => []Inv
<1>1. [EndsFresh]_vars => [Fresh]_vars
  BY DEF Fresh
<1> QED
  BY <1>1, InvAlways, PTL

\* Inodes and blocks have their types, every pointer leads into memory, and
\* the calls keep the bounds of the model.
THEOREM TypeCorrect == Spec /\ [][EndsFresh]_vars => []TypeOK
BY InvWhileFresh, TypesFollow, PTL

\* A next pointer that append_block leaves unwritten is all that can break a
\* chain: while those of the blocks appended last have read as the end, no two
\* inodes share a block, no chain runs in a circle, and each holds what its
\* inode claims, whatever has been created, unlinked and written.
THEOREM ChainsAreSound == Spec /\ [][EndsFresh]_vars => []ChainsSound
BY InvWhileFresh, ChainsFollow, PTL

\* However fs_create and fs_unlink move entries, they lead to younger inodes
\* that have no second entry, under names found once in their directory.
THEOREM EntriesAreForest == Spec /\ [][EndsFresh]_vars => []EntriesFormForest
BY InvWhileFresh, ForestFollows, PTL

\* fs_read returns the bytes that fs_write was given last for their places, in
\* whichever blocks it put them, and 0 at the end of the file.
THEOREM ReadsReturnSlices == Spec /\ [][EndsFresh]_vars => []ReadsAnySlice
BY InvWhileFresh, ReadsFollow, PTL

\* A path keeps its inode or stops resolving.
THEOREM PathsKeepTheirInodes == Spec /\ [][EndsFresh]_vars => PathsNeverRetarget
<1>1. ASSUME EnterFollows, EnterFollows', WaysExist, WaysExist', NothingInside, NothingInside',
             Inv, [Next]_vars, Fresh
      PROVE  \A p \in Paths : fs_lookup(p) # INVALID_INO =>
                                 fs_lookup(p)' \in {fs_lookup(p), INVALID_INO}
  <2>1. LinksKeep
    BY <1>1, StepKeepsLinks
  <2>2. ASSUME NEW p \in Paths, fs_lookup(p) # INVALID_INO
        PROVE  fs_lookup(p)' \in {fs_lookup(p), INVALID_INO}
    <3> DEFINE q == SubSeq(p, 1, Min({Len(p), MAX_SEGMENTS}))
    <3>1. Len(q) \in Nat
      BY PathsAre
    <3> HIDE DEF q
    <3>2. fs_lookup(p) = Resolve(q) /\ fs_lookup(p)' = Resolve(q)'
      BY DEF fs_lookup, q
    <3> QED
      BY <1>1, <2>1, <2>2, <3>1, <3>2, PathKept
  <2> QED
    BY <2>2
<1> DEFINE Facts == EnterFollows /\ WaysExist /\ NothingInside
<1>2. Inv => Facts
  BY EnterIs, WayExists, NothingIs
<1>3. Facts /\ Facts' /\ Inv /\ [Next]_vars /\ [EndsFresh]_vars =>
        [inodes # <<>> /\ <<inodes, blocks>>' # <<inodes, blocks>> =>
           \A p \in Paths : fs_lookup(p) # INVALID_INO =>
                                fs_lookup(p)' \in {fs_lookup(p), INVALID_INO}]_vars
  BY <1>1 DEF Fresh
<1> HIDE DEF Facts
<1> QED
  BY <1>2, <1>3, InvWhileFresh, PTL DEF Spec, PathsNeverRetarget

\* The block chains are a tree of directories and files.
THEOREM ImplementsTree == Spec /\ [][EndsFresh]_vars => ImplementsFsTree
<1>1. Inv /\ Seen /\ Inv' /\ Seen' /\ [Next]_vars /\ [EndsFresh]_vars => [FT!Next]_(FT!vars)
  <2>1. Inv /\ Seen /\ Inv' /\ Seen' /\ [Next]_vars /\ EndsFresh => [FT!Next]_(FT!vars)
    BY StepInTree DEF Fresh
  <2>2. UNCHANGED vars => UNCHANGED FT!vars
    BY MappedKept DEF vars, FT!vars, Kinds, Entries, Contents
  <2> QED
    BY <2>1, <2>2
<1>2. Init => FT!Init
  BY InitInTree
<1> QED
  BY <1>1, <1>2, SeenFollows, InvWhileFresh, PTL DEF Spec, ImplementsFsTree, FT!Spec
=============================================================================
