----------------------------- MODULE FileSystem -----------------------------
(***************************************************************************)
(* The in-RAM filesystem: src/filesystem/filesystem.cpp.                   *)
(*                                                                         *)
(* Inodes are never freed and their numbers count up from 1, so the inode  *)
(* list is a sequence indexed by number.  Blocks are chained through their *)
(* next pointers; a block is an index into the sequence of every block     *)
(* kmalloc has returned, 0 the null pointer.  The payload of a block is a  *)
(* function from dirent slots or from byte offsets.  A path is the         *)
(* sequence of its segments.  kmalloc's panic stops the kernel for good    *)
(* and is left to Heap.tla: here the heap ends at MaxInodes and MaxBlocks. *)
(***************************************************************************)
EXTENDS FiniteSetsExt, Integers, Sequences

CONSTANTS
  Names,              \* names fs_create accepts
  BadNames,           \* names it rejects: empty, or MAX_SIZE long and longer
  Bytes,              \* what a byte of a file can hold
  JunkByte,           \* what an unwritten byte of a block reads as
  StaleNext,          \* what an unwritten next pointer can read as
  dirents_per_block,  \* 15 in the code
  BlockBytes,         \* sizeof(block::data)
  MAX_SEGMENTS,       \* segments fs_lookup keeps of a path: 16 in the code
  CallTypes,          \* types passed to fs_create
  Offsets, Sources,   \* arguments of fs_write
  MaxInodes, MaxBlocks

VARIABLES
  inodes,   \* ino -> [type, size, first_block]
  blocks,   \* block -> [next, data]
  ret,      \* result of the last call
  stored    \* history: the bytes fs_write was given last, by inode and place

vars == <<inodes, blocks, ret, stored>>

ASSUME FileSystemAssumption ==
  /\ dirents_per_block \in Nat \ {0} /\ BlockBytes \in Nat \ {0}
  /\ MaxInodes \in Nat \ {0} /\ MaxBlocks \in Nat /\ MAX_SEGMENTS \in Nat
  /\ JunkByte \in Bytes /\ Names \cap BadNames = {}
  /\ Offsets \subseteq Nat /\ Sources \subseteq Seq(Bytes)
  /\ CallTypes \subseteq {1, 2} /\ StaleNext \subseteq Nat

INVALID_INO == 0
ROOT_INO    == 1

NewInode(type) == [type |-> type, size |-> 0, first_block |-> 0]

exists(ino)  == ino \in DOMAIN inodes          \* find_inode(ino) # nullptr
is_dir(ino)  == exists(ino) /\ inodes[ino].type = 2
is_file(ino) == exists(ino) /\ inodes[ino].type = 1

NextBlock(bs, block) == IF block = 0 THEN 0 ELSE bs[block].next

\* The block k hops down a chain, 0 past its end.
Hop(bs, first, k) ==
  LET hop[j \in 0 .. k] == IF j = 0 THEN first ELSE NextBlock(bs, hop[j - 1])
  IN  hop[k]

ChainLength(bs, first) == Min({k \in 0 .. Len(bs) : Hop(bs, first, k) = 0})

NullDirent == [inode_id |-> INVALID_INO, name |-> "null"]

\* The code tests every hop but the last for null.
dirent_at(ino, idx) ==
  LET curr_block == Hop(blocks, inodes[ino].first_block, idx \div dirents_per_block)
  IN  IF idx >= inodes[ino].size \/ curr_block = 0 THEN NullDirent
      ELSE blocks[curr_block].data[idx % dirents_per_block]

\* The index of the first entry of that name; none: the size.
IndexOf(dir, name) ==
  Min({inodes[dir].size} \cup
      {i \in 0 .. inodes[dir].size - 1 : dirent_at(dir, i).name = name})

Listed(dir, name) == IndexOf(dir, name) < inodes[dir].size

\* kmalloc(BLOCK_SIZE): nothing in it is written.
FreshBlock(type, stale) ==
  [next |-> stale,
   data |-> IF type = 2 THEN [s \in 0 .. dirents_per_block - 1 |-> NullDirent]
            ELSE [b \in 0 .. BlockBytes - 1 |-> JunkByte]]

\* The blocks after append_block; the new block is the last of the sequence.
append_block(bs, first, type, stale) ==
  LET new  == Append(bs, FreshBlock(type, stale))
      tail == Hop(bs, first, ChainLength(bs, first) - 1)
  IN  IF first = 0 THEN new ELSE [new EXCEPT ![tail].next = Len(new)]

-----------------------------------------------------------------------------
Init == inodes = <<>> /\ blocks = <<>> /\ ret = 0 /\ stored = {}

fs_init ==
  /\ inodes = <<>>
  /\ inodes' = <<NewInode(2)>>
  /\ UNCHANGED <<blocks, ret, stored>>

\* fs_create appends a block to the directory.
Grows(dir) == dir.size % dirents_per_block = 0

\* Fault: an entry of the same name is no obstacle.
CanCreate_Duplicate(parent, name) == is_dir(parent) /\ name \notin BadNames

\* fs_create's early returns.
CanCreate(parent, name) == is_dir(parent) /\ name \notin BadNames /\ ~Listed(parent, name)

fs_create(parent, name, type, stale) ==
  LET dir    == inodes[parent]
      new    == Len(inodes) + 1
      bs     == IF Grows(dir) THEN append_block(blocks, dir.first_block, 2, stale) ELSE blocks
      first  == IF Grows(dir) /\ dir.first_block = 0 THEN Len(bs) ELSE dir.first_block
      target == Hop(bs, first, dir.size \div dirents_per_block)
      slot   == dir.size % dirents_per_block
  IN  /\ CanCreate(parent, name)
      /\ new <= MaxInodes /\ Len(bs) <= MaxBlocks
      /\ inodes' = Append([inodes EXCEPT ![parent].size = @ + 1,
                                         ![parent].first_block = first],
                          NewInode(type))
      /\ blocks' = [bs EXCEPT ![target].data[slot] = [inode_id |-> new, name |-> name]]
      /\ ret' = new
      /\ UNCHANGED stored

fs_create_fails(parent, name) ==
  /\ inodes # <<>> /\ ~CanCreate(parent, name)
  /\ ret' = INVALID_INO
  /\ UNCHANGED <<inodes, blocks, stored>>

\* Fault: a directory that has entries is removed like any other entry.
CanUnlink_NonEmpty(parent, name) == is_dir(parent) /\ Listed(parent, name)

\* fs_unlink's early returns: no such entry, or a directory that is not empty.
CanUnlink(parent, name) ==
  /\ is_dir(parent) /\ Listed(parent, name)
  /\ LET subject == inodes[dirent_at(parent, IndexOf(parent, name)).inode_id]
     IN  ~(subject.type = 2 /\ subject.size # 0)

\* Fault: the fast path for the last entry does not return.
fs_unlink_Twice(parent, name) ==
  LET dir   == inodes[parent]
      i     == IndexOf(parent, name)
      block == Hop(blocks, dir.first_block, i \div dirents_per_block)
  IN  /\ CanUnlink(parent, name)
      /\ blocks' = [blocks EXCEPT ![block].data[i % dirents_per_block] =
                                    dirent_at(parent, dir.size - 1)]
      /\ inodes' = [inodes EXCEPT ![parent].size = IF i = @ - 1 THEN @ - 2 ELSE @ - 1]
      /\ ret' = 0
      /\ UNCHANGED stored

\* Fault: of the last entry only the inode number is copied.
fs_unlink_NumberOnly(parent, name) ==
  LET dir   == inodes[parent]
      i     == IndexOf(parent, name)
      block == Hop(blocks, dir.first_block, i \div dirents_per_block)
  IN  /\ CanUnlink(parent, name)
      /\ blocks' = [blocks EXCEPT ![block].data[i % dirents_per_block].inode_id =
                                    dirent_at(parent, dir.size - 1).inode_id]
      /\ inodes' = [inodes EXCEPT ![parent].size = @ - 1]
      /\ ret' = 0
      /\ UNCHANGED stored

\* The last entry moves to the slot of the removed one (which may be itself).
fs_unlink(parent, name) ==
  LET dir   == inodes[parent]
      i     == IndexOf(parent, name)
      block == Hop(blocks, dir.first_block, i \div dirents_per_block)
  IN  /\ CanUnlink(parent, name)
      /\ blocks' = [blocks EXCEPT ![block].data[i % dirents_per_block] =
                                    dirent_at(parent, dir.size - 1)]
      /\ inodes' = [inodes EXCEPT ![parent].size = @ - 1]
      /\ ret' = 0
      /\ UNCHANGED stored

fs_unlink_fails(parent, name) ==
  /\ inodes # <<>> /\ ~CanUnlink(parent, name)
  /\ ret' = -1
  /\ UNCHANGED <<inodes, blocks, stored>>

\* The byte at position i of the chain gets src[i - offset].
Place(bs, first, offset, src) ==
  [b \in DOMAIN bs |->
     LET written == {i \in offset .. offset + Len(src) - 1 : Hop(bs, first, i \div BlockBytes) = b}
     IN  [bs[b] EXCEPT !.data =
            [k \in DOMAIN @ |->
               LET here == {i \in written : i % BlockBytes = k}
               IN  IF here = {} THEN @[k] ELSE src[Max(here) - offset + 1]]]]

\* Fault: the copy starts in the first block, wherever the offset is.
CopyIn_FirstBlock(bs, first, offset, src) == Place(bs, first, offset % BlockBytes, src)

\* fs_write's copy loop.
CopyIn(bs, first, offset, src) == Place(bs, first, offset, src)

\* Fault: a last block that is not filled is not counted.
BlocksFor_RoundedDown(end) == end \div BlockBytes

\* The blocks that hold a file of that size.
BlocksFor(end) == (end + BlockBytes - 1) \div BlockBytes

\* The history after src has been written at offset, over what was there.
Overlay(cells, ino, offset, src) ==
  {c \in cells : c.ino # ino \/ c.at \notin offset .. offset + Len(src) - 1}
  \cup {[ino |-> ino, at |-> offset + i - 1, byte |-> src[i]] : i \in DOMAIN src}

\* The chain grows until it holds offset + len bytes, one block at a time.
fs_write(ino, offset, src, stale) ==
  LET file  == inodes[ino]
      end   == offset + Len(src)
      count == ChainLength(blocks, file.first_block)
      added == Max({0, BlocksFor(end) - count})
      first == IF file.first_block = 0 /\ added > 0 THEN Len(blocks) + 1 ELSE file.first_block
      grown[n \in 0 .. added] ==
        IF n = 0 THEN blocks
        ELSE append_block(grown[n - 1], IF n = 1 THEN file.first_block ELSE first, 1, stale)
  IN  /\ is_file(ino)
      /\ Len(blocks) + added <= MaxBlocks
      /\ blocks' = CopyIn(grown[added], first, offset, src)
      /\ inodes' = [inodes EXCEPT ![ino].first_block = first, ![ino].size = Max({@, end})]
      /\ ret' = Len(src)
      /\ stored' = Overlay(stored, ino, offset, src)

fs_write_fails(ino) ==
  /\ inodes # <<>> /\ ~is_file(ino)
  /\ ret' = -1
  /\ UNCHANGED <<inodes, blocks, stored>>

\* Inode numbers a caller may pass: one of no inode, and all there can be.
CallInos  == 0 .. MaxInodes
CallNames == Names \cup BadNames

Next ==
  \/ fs_init
  \/ \E parent \in CallInos, name \in CallNames :
       \/ \E type \in CallTypes, stale \in StaleNext : fs_create(parent, name, type, stale)
       \/ fs_create_fails(parent, name)
       \/ fs_unlink(parent, name)
       \/ fs_unlink_fails(parent, name)
  \/ \E ino \in CallInos :
       \/ \E offset \in Offsets, src \in Sources, stale \in StaleNext :
            fs_write(ino, offset, src, stale)
       \/ fs_write_fails(ino)

Spec == Init /\ [][Next]_vars

-----------------------------------------------------------------------------
(* The calls that change nothing.                                          *)

\* One step of fs_lookup: the inode a segment leads to.
Enter(ino, segment) ==
  IF is_dir(ino) THEN dirent_at(ino, IndexOf(ino, segment)).inode_id ELSE INVALID_INO

\* fs_lookup, segment by segment.
Resolve(path) ==
  LET at[i \in 0 .. Len(path)] == IF i = 0 THEN ROOT_INO ELSE Enter(at[i - 1], path[i])
  IN  at[Len(path)]

\* parse_path stops at MAX_SEGMENTS segments; the rest of the path is ignored.
fs_lookup(path) == Resolve(SubSeq(path, 1, Min({Len(path), MAX_SEGMENTS})))

Read(ret_, bytes) == [ret |-> ret_, bytes |-> bytes]

fs_read(ino, offset, len) ==
  LET file        == inodes[ino]
      block_index == offset \div BlockBytes
      n           == Min({len, file.size - offset})
      byte(i)     == blocks[Hop(blocks, file.first_block, i \div BlockBytes)].data[i % BlockBytes]
  IN  IF ~is_file(ino) THEN Read(-1, <<>>)
      ELSE IF block_index > 0 /\ Hop(blocks, file.first_block, block_index - 1) = 0
      THEN Read(-1, <<>>)
      ELSE IF offset >= file.size THEN Read(0, <<>>)
      ELSE Read(n, [i \in 1 .. n |-> byte(offset + i - 1)])

\* What a readdir loop returns before it sees 0 or -1.
fs_readdir_all(dir) ==
  {dirent_at(dir, i) : i \in {i \in 0 .. inodes[dir].size - 1 :
                                \A j \in 0 .. i : dirent_at(dir, j) # NullDirent}}

-----------------------------------------------------------------------------
(* Properties.                                                             *)

Directories == {i \in DOMAIN inodes : inodes[i].type = 2}
Files       == {i \in DOMAIN inodes : inodes[i].type = 1}
Chain(ino)  == {Hop(blocks, inodes[ino].first_block, k) : k \in 0 .. Len(blocks)} \ {0}

KindOf(i)      == IF exists(i) THEN inodes[i].type ELSE 0
EntryOf(i, n)  == {d \in (IF is_dir(i) THEN fs_readdir_all(i) ELSE {}) : d.name = n}
EntriesOf(i)   == [n \in Names |-> IF EntryOf(i, n) = {} THEN INVALID_INO
                                   ELSE (CHOOSE d \in EntryOf(i, n) : TRUE).inode_id]
ContentOf(i)   == IF is_file(i) THEN fs_read(i, 0, inodes[i].size).bytes ELSE <<>>

TypeOK ==
  /\ inodes \in Seq([type : {1, 2}, size : Nat, first_block : 0 .. Len(blocks)])
  /\ Len(inodes) <= MaxInodes /\ Len(blocks) <= MaxBlocks
  /\ \A b \in DOMAIN blocks : blocks[b].next \in 0 .. Len(blocks)
  /\ ret \in Int

\* Each block is in the chain of one inode, once: an append to one file or
\* directory never reaches the blocks of another, every walk ends, and the
\* chain is long enough for the size the inode claims.
ChainsSound ==
  /\ \A i, j \in DOMAIN inodes : i # j => Chain(i) \cap Chain(j) = {}
  /\ \A i \in DOMAIN inodes :
       LET first == inodes[i].first_block
       IN  /\ Hop(blocks, first, Len(blocks)) = 0
           /\ \A k, l \in 0 .. Len(blocks) :
                Hop(blocks, first, k) = Hop(blocks, first, l) /\ k # l =>
                  Hop(blocks, first, k) = 0
           /\ inodes[i].size <= Cardinality(Chain(i)) *
                (IF inodes[i].type = 2 THEN dirents_per_block ELSE BlockBytes)

\* What has been written to a file is below its size, and a read from any
\* offset up to the end returns as many bytes as are asked for and left, each
\* of them the one that the last fs_write over its place was given, whichever
\* block it was put in, whatever has been created, grown or unlinked since; at
\* the very end, also when the last block is full, it returns 0 and no error.
ReadsAnySlice ==
  \A ino \in Files :
    LET size  == inodes[ino].size
        cells == {c \in stored : c.ino = ino}
    IN  /\ \A c \in cells : c.at < size
        /\ \A offset \in 0 .. size, len \in 0 .. size + 1 :
             LET read == fs_read(ino, offset, len)
             IN  /\ read.ret = Min({len, size - offset}) /\ Len(read.bytes) = read.ret
                 /\ \A c \in cells :
                      c.at \in offset .. offset + read.ret - 1 =>
                        read.bytes[c.at - offset + 1] = c.byte

\* Directory entries form a forest: every entry below size is an entry of an
\* inode that exists, names are unique within a directory, no inode has two
\* entries, and an entry leads to an inode younger than its directory, so
\* that no directory contains itself, also after entries have been swapped.
EntriesFormForest ==
  LET links == {l \in Directories \X (0 .. MaxInodes) : l[2] < inodes[l[1]].size}
      at(l) == dirent_at(l[1], l[2])
  IN  /\ \A l \in links : at(l).inode_id \in l[1] + 1 .. Len(inodes)
      /\ \A l, m \in links : at(l).inode_id = at(m).inode_id => l = m
      /\ \A l, m \in links : l[1] = m[1] /\ at(l).name = at(m).name => l = m

\* The paths fs_lookup has room for.
Paths == UNION {[1 .. n -> Names] : n \in 0 .. MAX_SEGMENTS}

\* No step of the filesystem makes a path lead to another inode than before:
\* it keeps its inode or stops resolving, whichever entries an unlink moves.
PathsNeverRetarget ==
  [][inodes # <<>> /\ <<inodes, blocks>>' # <<inodes, blocks>> =>
       \A p \in Paths :
         fs_lookup(p) # INVALID_INO => fs_lookup(p)' \in {fs_lookup(p), INVALID_INO}]_vars

FT == INSTANCE FsTree WITH
        Inos    <- 1 .. MaxInodes,
        kind    <- [i \in 1 .. MaxInodes |-> KindOf(i)],
        entries <- [i \in 1 .. MaxInodes |-> EntriesOf(i)],
        content <- [i \in 1 .. MaxInodes |-> ContentOf(i)]

\* Through readdir and read, the chains of blocks look like a tree of
\* directories and files: each call changes the one entry or the bytes it is
\* for, and reports failure exactly when the tree has it fail.
ImplementsFsTree == FT!Spec

-----------------------------------------------------------------------------
(* What the comments say and the code does not do.                         *)

\* filesystem.h:245: after an append the new block is the end of the chain.
ChainsEnd == \A i \in DOMAIN inodes : Hop(blocks, inodes[i].first_block, Len(blocks)) = 0

\* The calls after which it is: the block appended last reads as the end of a
\* chain.  FileSystem_proofs.tla shows what holds as long as all calls are such.
EndsFresh ==
  Len(blocks') > Len(blocks) => blocks'[Len(blocks')].next = 0
=============================================================================
