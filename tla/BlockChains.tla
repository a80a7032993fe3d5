------------------------------ MODULE BlockChains ------------------------------
(***************************************************************************)
(* Lemmas about the chains of blocks of FileSystem.tla.  Every inode has a *)
(* chain, the sequence of its blocks, no block is in two chains or twice   *)
(* in one, and the last block of a chain has a null next pointer.  What    *)
(* the hops through memory compute follows, by induction on the number of  *)
(* hops, and from it what each call does to the cells of the inodes: the   *)
(* entries of a directory, the bytes of a file.                            *)
(***************************************************************************)
EXTENDS FileSystem, NumberLemmas, FiniteSetTheorems

-----------------------------------------------------------------------------
(* Memory and chains.                                                      *)

Dirents  == [inode_id : Nat, name : Names \cup {"null"}]
DirData  == [0 .. dirents_per_block - 1 -> Dirents]
FileData == [0 .. BlockBytes - 1 -> Bytes]
Block    == [next : Nat, data : DirData \cup FileData]
Inode    == [type : {1, 2}, size : Nat, first_block : Nat]

DataOf(type)   == IF type = 2 THEN DirData ELSE FileData
Capacity(type) == IF type = 2 THEN dirents_per_block ELSE BlockBytes

BlocksTyped(bs) == bs \in Seq(Block) /\ \A b \in 1 .. Len(bs) : bs[b].next <= Len(bs)

\* c is the chain that starts at first.
IsChain(bs, first, c) ==
  /\ c \in Seq(1 .. Len(bs)) /\ Len(c) <= Len(bs)
  /\ first = IF c = <<>> THEN 0 ELSE c[1]
  /\ \A k \in 1 .. Len(c) : bs[c[k]].next = IF k < Len(c) THEN c[k + 1] ELSE 0

\* The block k hops along a chain.
Along(c, k) == IF k < Len(c) THEN c[k + 1] ELSE 0

\* One chain for each inode, holding data of its type, and no block twice.
Chained(ins, bs, chain) ==
  /\ DOMAIN chain = DOMAIN ins
  /\ \A i \in DOMAIN ins :
       /\ IsChain(bs, ins[i].first_block, chain[i])
       /\ \A k \in 1 .. Len(chain[i]) : bs[chain[i][k]].data \in DataOf(ins[i].type)
  /\ \A i, j \in DOMAIN ins : \A k \in 1 .. Len(chain[i]), l \in 1 .. Len(chain[j]) :
       chain[i][k] = chain[j][l] => i = j /\ k = l

\* The chains have room for what the inodes claim.
Fits(ins, chain) ==
  \A i \in DOMAIN ins : ins[i].size <= Capacity(ins[i].type) * Len(chain[i])

LEMMA HopOnChain ==
  ASSUME NEW bs, NEW first, NEW c, IsChain(bs, first, c), NEW k \in Nat
  PROVE  Hop(bs, first, k) = Along(c, k)
<1> DEFINE Walk(h) == h = [j \in 0 .. k |-> IF j = 0 THEN first ELSE NextBlock(bs, h[j - 1])]
           g == [j \in 0 .. k |-> Along(c, j)]
           hop == CHOOSE h : Walk(h)
<1>1. Along(c, 0) = first
  BY DEF IsChain, Along
<1>2. ASSUME NEW j \in Nat
      PROVE  Along(c, j + 1) = NextBlock(bs, Along(c, j))
  <2>1. CASE j < Len(c)
    <3>1. c[j + 1] \in 1 .. Len(bs) /\ j + 1 \in 1 .. Len(c) /\ Len(c) \in Nat
      BY <2>1, SMTT(30) DEF IsChain
    <3>2. bs[c[j + 1]].next = IF j + 1 < Len(c) THEN c[j + 2] ELSE 0
      BY <3>1 DEF IsChain
    <3> QED
      BY <2>1, <3>1, <3>2 DEF Along, NextBlock
  <2>2. CASE ~(j < Len(c))
    BY <2>2 DEF Along, NextBlock, IsChain
  <2> QED
    BY <2>1, <2>2
<1>3. Walk(g)
  <2>1. ASSUME NEW j \in 0 .. k
        PROVE  g[j] = IF j = 0 THEN first ELSE NextBlock(bs, g[j - 1])
    <3>1. CASE j = 0
      BY <1>1, <3>1
    <3>2. CASE j # 0
      <4>1. j - 1 \in 0 .. k /\ (j - 1) + 1 = j /\ j - 1 \in Nat
        BY <3>2
      <4>2. Along(c, j) = NextBlock(bs, Along(c, j - 1))
        BY <1>2, <4>1
      <4> QED
        BY <3>2, <4>1, <4>2
    <3> QED
      BY <3>1, <3>2
  <2> QED
    BY <2>1
<1>4. Walk(hop)
  <2> HIDE DEF Walk
  <2> QED
    BY <1>3
<1>5. Hop(bs, first, k) = hop[k]
  BY Zenon DEF Hop
<1> HIDE DEF hop
<1>6. hop[0] = first /\ \A j \in 1 .. k : hop[j] = NextBlock(bs, hop[j - 1])
  BY <1>4
<1> DEFINE S == {n \in Nat : n <= k => hop[n] = Along(c, n)}
<1>7. Nat \subseteq S
  <2>1. 0 \in S
    BY <1>1, <1>6
  <2>2. ASSUME NEW n \in Nat, n \in S
        PROVE  n + 1 \in S
    <3> SUFFICES ASSUME n + 1 <= k PROVE hop[n + 1] = Along(c, n + 1)
      OBVIOUS
    <3>1. n + 1 \in 1 .. k /\ (n + 1) - 1 = n
      OBVIOUS
    <3>2. hop[n + 1] = NextBlock(bs, hop[n])
      BY <1>6, <3>1
    <3> QED
      BY <1>2, <2>2, <3>1, <3>2
  <2> HIDE DEF S
  <2> QED
    BY <2>1, <2>2, InductionOnNat
<1> QED
  BY <1>5, <1>7

LEMMA ChainLengthIs ==
  ASSUME NEW bs, NEW first, NEW c, IsChain(bs, first, c), Len(bs) \in Nat
  PROVE  ChainLength(bs, first) = Len(c)
<1> DEFINE S == {k \in 0 .. Len(bs) : Hop(bs, first, k) = 0}
<1>1. c \in Seq(1 .. Len(bs)) /\ Len(c) \in 0 .. Len(bs)
  BY DEF IsChain
<1>2. \A k \in Nat : Along(c, k) = 0 <=> k >= Len(c)
  BY <1>1 DEF Along
<1>3. S = Len(c) .. Len(bs)
  BY <1>1, <1>2, HopOnChain
<1> HIDE DEF S
<1>4. S \subseteq Nat /\ S # {} /\ Len(c) \in S
  BY <1>1, <1>3
<1>5. Min(S) \in S /\ Min(S) <= Len(c)
  BY <1>4, MinOfNat
<1>6. Min(S) = Len(c)
  BY <1>1, <1>3, <1>5
<1> QED
  BY <1>6 DEF ChainLength, S

\* Replacing an element of a sequence.
LEMMA ExceptTyped ==
  ASSUME NEW T, NEW s \in Seq(T), NEW i \in 1 .. Len(s), NEW v \in T
  PROVE  /\ [s EXCEPT ![i] = v] \in Seq(T) /\ Len([s EXCEPT ![i] = v]) = Len(s)
         /\ \A k \in 1 .. Len(s) : [s EXCEPT ![i] = v][k] = IF k = i THEN v ELSE s[k]
OBVIOUS

LEMMA SeqWidens ==
  ASSUME NEW S, NEW T, S \subseteq T, NEW c \in Seq(S)
  PROVE  c \in Seq(T)
OBVIOUS

LEMMA SeqRetyped ==
  ASSUME NEW S, NEW T, NEW c \in Seq(S), \A k \in 1 .. Len(c) : c[k] \in T
  PROVE  c \in Seq(T)
OBVIOUS

LEMMA LengthKept ==
  ASSUME NEW S, NEW s \in Seq(S), NEW i, NEW v
  PROVE  Len([s EXCEPT ![i] = v]) = Len(s)
<1>1. s \in Seq(S \cup {v}) /\ v \in S \cup {v}
  BY SeqWidens
<1>2. CASE i \in 1 .. Len(s)
  BY <1>1, <1>2, ExceptTyped
<1>3. CASE i \notin 1 .. Len(s)
  BY <1>3
<1> QED
  BY <1>2, <1>3

LEMMA BlockParts ==
  ASSUME NEW bs \in Seq(Block), NEW b \in 1 .. Len(bs)
  PROVE  bs[b] \in Block /\ bs[b].next \in Nat /\ bs[b].data \in DirData \cup FileData
<1>1. bs[b] \in Block
  OBVIOUS
<1> QED
  BY <1>1 DEF Block

LEMMA SetNext ==
  ASSUME NEW r \in Block, NEW n \in Nat
  PROVE  /\ [r EXCEPT !.next = n] \in Block
         /\ [r EXCEPT !.next = n].next = n /\ [r EXCEPT !.next = n].data = r.data
BY DEF Block

LEMMA FreshTyped ==
  ASSUME NEW type \in {1, 2}
  PROVE  /\ FreshBlock(type, 0) \in Block
         /\ FreshBlock(type, 0).next = 0 /\ FreshBlock(type, 0).data \in DataOf(type)
<1>1. NullDirent \in Dirents /\ JunkByte \in Bytes
  BY FileSystemAssumption DEF NullDirent, Dirents, INVALID_INO
<1>2. [s \in 0 .. dirents_per_block - 1 |-> NullDirent] \in DirData
  BY <1>1 DEF DirData
<1>3. [b \in 0 .. BlockBytes - 1 |-> JunkByte] \in FileData
  BY <1>1 DEF FileData
<1>4. FreshBlock(type, 0).next = 0 /\ FreshBlock(type, 0).data \in DataOf(type)
  BY <1>2, <1>3 DEF FreshBlock, DataOf
<1> QED
  BY <1>2, <1>3, <1>4 DEF FreshBlock, Block

\* One block more than in bs, linked to the end of the chain c.
Linked(bs, new, c, type) ==
  /\ Len(new) = Len(bs) + 1 /\ new[Len(bs) + 1] = FreshBlock(type, 0)
  /\ \A b \in 1 .. Len(bs) :
       /\ new[b].data = bs[b].data
       /\ new[b].next = IF c # <<>> /\ b = c[Len(c)] THEN Len(bs) + 1 ELSE bs[b].next

\* append_block walks to the end of the chain and links the new block there.
LEMMA AppendBlock ==
  ASSUME NEW bs, BlocksTyped(bs), NEW first, NEW c, IsChain(bs, first, c), NEW type \in {1, 2},
         NEW new, new = append_block(bs, first, type, 0)
  PROVE  BlocksTyped(new) /\ Linked(bs, new, c, type)
<1> DEFINE fresh == FreshBlock(type, 0)
           app   == Append(bs, fresh)
           tail  == Hop(bs, first, ChainLength(bs, first) - 1)
<1>1. fresh \in Block /\ fresh.next = 0
  BY FreshTyped
<1>2. bs \in Seq(Block) /\ Len(bs) \in Nat
  BY DEF BlocksTyped
<1> HIDE DEF fresh
<1>3. /\ app \in Seq(Block) /\ Len(app) = Len(bs) + 1 /\ app[Len(bs) + 1] = fresh
      /\ \A b \in 1 .. Len(bs) : app[b] = bs[b]
  BY <1>1, <1>2
<1>4. new = IF first = 0 THEN app ELSE [app EXCEPT ![tail].next = Len(app)]
  BY DEF append_block, fresh
<1>5. /\ new \in Seq(Block) /\ Len(new) = Len(bs) + 1 /\ new[Len(bs) + 1] = fresh
      /\ \A b \in 1 .. Len(bs) :
           /\ new[b].data = bs[b].data
           /\ new[b].next = IF c # <<>> /\ b = c[Len(c)] THEN Len(bs) + 1 ELSE bs[b].next
  <2>1. CASE c = <<>>
    <3>1. new = app
      BY <1>4, <2>1 DEF IsChain
    <3> HIDE DEF app
    <3> QED
      BY <1>2, <1>3, <2>1, <3>1
  <2>2. CASE c # <<>>
    <3>1. c \in Seq(1 .. Len(bs)) /\ Len(c) \in Nat /\ Len(c) # 0
      BY <2>2 DEF IsChain
    <3>2. first # 0
      BY <2>2, <3>1 DEF IsChain
    <3>3. tail = c[Len(c)] /\ tail \in 1 .. Len(bs)
      <4>1. tail = Along(c, Len(c) - 1)
        <5>1. ChainLength(bs, first) = Len(c) /\ Len(c) - 1 \in Nat
          BY <1>2, <3>1, ChainLengthIs
        <5> QED
          BY <5>1, HopOnChain
      <4> HIDE DEF tail
      <4> QED
        BY <3>1, <4>1 DEF Along
    <3> HIDE DEF tail, app
    <3> DEFINE r == [app[tail] EXCEPT !.next = Len(app)]
    <3>4. new = [app EXCEPT ![tail] = r]
      BY <1>4, <3>2
    <3>5. tail \in 1 .. Len(app) /\ app[tail] = bs[tail] /\ app[tail] \in Block /\ Len(app) \in Nat
      BY <1>2, <1>3, <3>3, SMTT(30)
    <3>6. r \in Block /\ r.next = Len(app) /\ r.data = bs[tail].data
      BY <3>5, SetNext
    <3> HIDE DEF r
    <3>7. /\ [app EXCEPT ![tail] = r] \in Seq(Block) /\ Len([app EXCEPT ![tail] = r]) = Len(app)
          /\ \A b \in 1 .. Len(app) : [app EXCEPT ![tail] = r][b] = IF b = tail THEN r ELSE app[b]
      BY <1>3, <3>5, <3>6, ExceptTyped
    <3>8. /\ new \in Seq(Block) /\ Len(new) = Len(app)
          /\ \A b \in 1 .. Len(app) : new[b] = IF b = tail THEN r ELSE app[b]
      BY <3>4, <3>7, Zenon
    <3>9. ASSUME NEW b \in 1 .. Len(bs)
          PROVE  /\ new[b].data = bs[b].data
                 /\ new[b].next = IF b = tail THEN Len(bs) + 1 ELSE bs[b].next
      <4>1. new[b] = IF b = tail THEN r ELSE bs[b]
        BY <1>2, <1>3, <3>8
      <4> QED
        BY <1>3, <3>6, <4>1
    <3>10. new[Len(bs) + 1] = fresh
      BY <1>2, <1>3, <3>3, <3>8, SMTT(30)
    <3> QED
      BY <1>3, <2>2, <3>3, <3>8, <3>9, <3>10
  <2> QED
    BY <2>1, <2>2
<1> HIDE DEF app, tail
<1>6. ASSUME NEW b \in 1 .. Len(new)
      PROVE  new[b].next <= Len(new)
  <2>1. CASE b = Len(bs) + 1
    BY <1>1, <1>2, <1>5, <2>1
  <2>2. CASE b \in 1 .. Len(bs)
    <3>1. bs[b].next \in Nat /\ bs[b].next <= Len(bs)
      BY <1>2, <2>2, BlockParts DEF BlocksTyped
    <3> QED
      BY <1>2, <1>5, <2>2, <3>1, SMTT(30)
  <2> QED
    BY <1>2, <1>5, <2>1, <2>2
<1> QED
  BY <1>5, <1>6 DEF BlocksTyped, Linked, fresh

LEMMA AppendParts ==
  ASSUME NEW S, NEW c \in Seq(S), NEW x \in S
  PROVE  /\ Append(c, x) \in Seq(S) /\ Len(Append(c, x)) = Len(c) + 1 /\ Append(c, x) # <<>>
         /\ Append(c, x)[Len(c) + 1] = x
         /\ \A k \in 1 .. Len(c) : Append(c, x)[k] = c[k]
OBVIOUS

\* The chain that got the block.
LEMMA LongerChain ==
  ASSUME NEW bs, Len(bs) \in Nat, NEW first, NEW c, IsChain(bs, first, c),
         \A k, l \in 1 .. Len(c) : c[k] = c[l] => k = l,
         NEW type \in {1, 2}, NEW new, Linked(bs, new, c, type)
  PROVE  IsChain(new, IF first = 0 THEN Len(bs) + 1 ELSE first, Append(c, Len(bs) + 1))
<1> DEFINE d == Append(c, Len(bs) + 1)
<1>1. Len(new) = Len(bs) + 1 /\ new[Len(bs) + 1].next = 0
  BY FreshTyped DEF Linked
<1>2. c \in Seq(1 .. Len(bs)) /\ c \in Seq(1 .. Len(new)) /\ Len(c) \in Nat /\ Len(c) <= Len(bs)
  <2>1. c \in Seq(1 .. Len(bs)) /\ Len(c) <= Len(bs)
    BY DEF IsChain
  <2>2. 1 .. Len(bs) \subseteq 1 .. Len(new)
    BY <1>1
  <2>3. c \in Seq(1 .. Len(new))
    BY <2>1, <2>2, SeqWidens
  <2> QED
    BY <2>1, <2>3
<1>3. /\ d \in Seq(1 .. Len(new)) /\ Len(d) = Len(c) + 1 /\ d # <<>> /\ d[Len(c) + 1] = Len(bs) + 1
      /\ \A k \in 1 .. Len(c) : d[k] = c[k]
  <2>1. Len(bs) + 1 \in 1 .. Len(new)
    BY <1>1
  <2> QED
    BY <1>2, <2>1, AppendParts, SMTT(60)
<1> HIDE DEF d
<1>4. (IF first = 0 THEN Len(bs) + 1 ELSE first) = d[1]
  <2>1. CASE c = <<>>
    BY <1>2, <1>3, <2>1 DEF IsChain
  <2>2. CASE c # <<>>
    <3>1. first = c[1] /\ 1 \in 1 .. Len(c) /\ c[1] \in 1 .. Len(bs)
      BY <1>2, <2>2, SMTT(30) DEF IsChain
    <3> QED
      BY <1>3, <3>1, SMTT(30)
  <2> QED
    BY <2>1, <2>2
<1>5. ASSUME NEW k \in 1 .. Len(d)
      PROVE  new[d[k]].next = IF k < Len(d) THEN d[k + 1] ELSE 0
  <2>1. CASE k = Len(c) + 1
    BY <1>1, <1>2, <1>3, <2>1, SMTT(30)
  <2>2. CASE k \in 1 .. Len(c)
    <3>1. /\ d[k] = c[k] /\ c[k] \in 1 .. Len(bs) /\ c # <<>> /\ Len(c) \in 1 .. Len(c)
          /\ bs[c[k]].next = IF k < Len(c) THEN c[k + 1] ELSE 0
      <4>1. d[k] = c[k] /\ c[k] \in 1 .. Len(bs) /\ Len(c) \in 1 .. Len(c)
        BY <1>2, <1>3, <2>2, SMTT(60)
      <4>2. bs[c[k]].next = IF k < Len(c) THEN c[k + 1] ELSE 0
        BY <2>2 DEF IsChain
      <4> QED
        BY <4>1, <4>2
    <3>2. new[c[k]].next = IF c[k] = c[Len(c)] THEN Len(bs) + 1 ELSE bs[c[k]].next
      BY <3>1 DEF Linked
    <3>3. c[k] = c[Len(c)] <=> k = Len(c)
      BY <2>2, <3>1
    <3>4. ASSUME k < Len(c) PROVE d[k + 1] = c[k + 1]
      <4>1. k + 1 \in 1 .. Len(c)
        BY <1>2, <2>2, <3>4
      <4> QED
        BY <1>3, <4>1
    <3> QED
      BY <1>2, <1>3, <2>2, <3>1, <3>2, <3>3, <3>4, SMTT(60)
  <2> QED
    BY <1>2, <1>3, <2>1, <2>2
<1> QED
  BY <1>1, <1>2, <1>3, <1>4, <1>5, SMTT(60) DEF IsChain, d

\* A chain that has no block of it.
LEMMA OtherChain ==
  ASSUME NEW bs, Len(bs) \in Nat, NEW c, NEW type \in {1, 2}, NEW new, Linked(bs, new, c, type),
         c \in Seq(1 .. Len(bs)), NEW first, NEW d, IsChain(bs, first, d),
         \A k \in 1 .. Len(d), l \in 1 .. Len(c) : d[k] # c[l]
  PROVE  IsChain(new, first, d)
<1>1. d \in Seq(1 .. Len(bs)) /\ d \in Seq(1 .. Len(new)) /\ Len(d) <= Len(new)
  <2>1. Len(new) = Len(bs) + 1 /\ d \in Seq(1 .. Len(bs)) /\ Len(d) \in Nat /\ Len(d) <= Len(bs)
    BY DEF IsChain, Linked
  <2>2. 1 .. Len(bs) \subseteq 1 .. Len(new)
    BY <2>1
  <2> QED
    BY <2>1, <2>2, SeqWidens
<1>2. ASSUME NEW k \in 1 .. Len(d)
      PROVE  new[d[k]].next = IF k < Len(d) THEN d[k + 1] ELSE 0
  <2>1. d[k] \in 1 .. Len(bs) /\ bs[d[k]].next = IF k < Len(d) THEN d[k + 1] ELSE 0
    BY <1>1, SMTT(60) DEF IsChain
  <2>2. c # <<>> => Len(c) \in 1 .. Len(c)
    OBVIOUS
  <2>3. new[d[k]].next = bs[d[k]].next
    BY <2>1, <2>2, ZenonT(60) DEF Linked
  <2> QED
    BY <2>1, <2>3
<1> QED
  BY <1>1, <1>2 DEF IsChain

LEMMA ChainedParts ==
  ASSUME NEW ins, NEW bs, NEW chain, Chained(ins, bs, chain), NEW i \in DOMAIN ins
  PROVE  /\ IsChain(bs, ins[i].first_block, chain[i])
         /\ chain[i] \in Seq(1 .. Len(bs)) /\ Len(chain[i]) \in Nat /\ Len(chain[i]) <= Len(bs)
         /\ \A k \in 1 .. Len(chain[i]) :
              chain[i][k] \in 1 .. Len(bs) /\ bs[chain[i][k]].data \in DataOf(ins[i].type)
<1>1. IsChain(bs, ins[i].first_block, chain[i])
  BY DEF Chained
<1>2. chain[i] \in Seq(1 .. Len(bs)) /\ Len(chain[i]) <= Len(bs)
  BY <1>1 DEF IsChain
<1>3. \A k \in 1 .. Len(chain[i]) : bs[chain[i][k]].data \in DataOf(ins[i].type)
  BY DEF Chained
<1> QED
  BY <1>1, <1>2, <1>3, SMTT(30)

\* One append_block, seen by all chains: ins2 differs from ins in sizes and
\* in the first block of p at most.
OneBlockMore(ins, bs, chain, p, ins2, new, longer) ==
  /\ new = append_block(bs, ins[p].first_block, ins[p].type, 0)
  /\ DOMAIN ins2 = DOMAIN ins
  /\ \A i \in DOMAIN ins :
       /\ ins2[i].type = ins[i].type
       /\ i # p => ins2[i].first_block = ins[i].first_block
  /\ ins2[p].first_block = IF ins[p].first_block = 0 THEN Len(bs) + 1 ELSE ins[p].first_block
  /\ longer = [chain EXCEPT ![p] = Append(chain[p], Len(bs) + 1)]

LEMMA ChainGrows ==
  ASSUME NEW ins, NEW bs, BlocksTyped(bs), NEW chain, Chained(ins, bs, chain),
         NEW p \in DOMAIN ins, ins[p].type \in {1, 2}, NEW ins2, NEW new, NEW longer,
         OneBlockMore(ins, bs, chain, p, ins2, new, longer)
  PROVE  /\ BlocksTyped(new) /\ Linked(bs, new, chain[p], ins[p].type)
         /\ Chained(ins2, new, longer)
         /\ Len(longer[p]) = Len(chain[p]) + 1 /\ longer[p][Len(chain[p]) + 1] = Len(bs) + 1
         /\ \A k \in 1 .. Len(chain[p]) : longer[p][k] = chain[p][k]
         /\ \A i \in DOMAIN ins : i # p => longer[i] = chain[i]
<1> USE DEF OneBlockMore
<1> DEFINE type == ins[p].type
           c    == chain[p]
<1>1. /\ IsChain(bs, ins[p].first_block, c) /\ c \in Seq(1 .. Len(bs)) /\ Len(c) \in Nat
      /\ Len(bs) \in Nat
  BY ChainedParts DEF BlocksTyped
<1>2. BlocksTyped(new) /\ Linked(bs, new, c, type)
  BY <1>1, AppendBlock
<1>3. Len(new) = Len(bs) + 1 /\ new[Len(bs) + 1].data \in DataOf(type)
  BY <1>2, FreshTyped DEF Linked
<1>4. /\ DOMAIN longer = DOMAIN ins
      /\ longer[p] = Append(c, Len(bs) + 1)
      /\ \A i \in DOMAIN ins : i # p => longer[i] = chain[i]
  BY DEF Chained
<1>5. \A k, l \in 1 .. Len(c) : c[k] = c[l] => k = l
  BY DEF Chained
<1>6. IsChain(new, ins2[p].first_block, longer[p])
  BY <1>1, <1>2, <1>4, <1>5, LongerChain, SMTT(30)
<1>7. /\ Len(longer[p]) = Len(c) + 1 /\ longer[p][Len(c) + 1] = Len(bs) + 1
      /\ \A k \in 1 .. Len(c) : longer[p][k] = c[k] /\ c[k] \in 1 .. Len(bs)
  <2>1. /\ Len(bs) + 1 \in 1 .. Len(bs) + 1 /\ 1 .. Len(bs) \subseteq 1 .. Len(bs) + 1
    BY <1>1
  <2>2. c \in Seq(1 .. Len(bs) + 1)
    BY <1>1, <2>1, SeqWidens
  <2> HIDE DEF c
  <2>3. \A k \in 1 .. Len(c) : c[k] \in 1 .. Len(bs)
    BY <1>1, SMTT(30)
  <2>4. /\ Len(Append(c, Len(bs) + 1)) = Len(c) + 1 /\ Append(c, Len(bs) + 1)[Len(c) + 1] = Len(bs) + 1
        /\ \A k \in 1 .. Len(c) : Append(c, Len(bs) + 1)[k] = c[k]
    BY <2>1, <2>2, AppendParts
  <2> QED
    BY <1>4, <2>3, <2>4, ZenonT(60)
<1> HIDE DEF c, type
<1>8. ASSUME NEW i \in DOMAIN ins, i # p
      PROVE  IsChain(new, ins2[i].first_block, longer[i])
  <2>1. \A k \in 1 .. Len(chain[i]), l \in 1 .. Len(c) : chain[i][k] # c[l]
    BY <1>8 DEF Chained, c
  <2>2. IsChain(bs, ins[i].first_block, chain[i])
    BY ChainedParts
  <2>3. IsChain(new, ins[i].first_block, chain[i])
    <3>1. type \in {1, 2}
      BY DEF type
    <3> QED
      BY <1>1, <1>2, <2>1, <2>2, <3>1, OtherChain, SMTT(30)
  <2> QED
    BY <1>4, <1>8, <2>3
<1>9. ASSUME NEW i \in DOMAIN ins, NEW k \in 1 .. Len(longer[i])
      PROVE  new[longer[i][k]].data \in DataOf(ins2[i].type)
  <2>1. CASE i = p /\ k = Len(c) + 1
    BY <1>3, <1>7, <2>1, SMTT(30) DEF type
  <2>2. CASE ~(i = p /\ k = Len(c) + 1)
    <3>1. k \in 1 .. Len(chain[i]) /\ longer[i][k] = chain[i][k]
      BY <1>1, <1>4, <1>7, <2>2, SMTT(30) DEF c
    <3>2. chain[i][k] \in 1 .. Len(bs) /\ bs[chain[i][k]].data \in DataOf(ins[i].type)
      BY <3>1, ChainedParts
    <3>3. new[chain[i][k]].data = bs[chain[i][k]].data
      BY <1>2, <3>2 DEF Linked
    <3> QED
      BY <3>1, <3>2, <3>3
  <2> QED
    BY <2>1, <2>2
<1>10. ASSUME NEW i \in DOMAIN ins, NEW j \in DOMAIN ins,
              NEW k \in 1 .. Len(longer[i]), NEW l \in 1 .. Len(longer[j]),
              longer[i][k] = longer[j][l]
       PROVE  i = j /\ k = l
  <2>1. ASSUME NEW m \in DOMAIN ins, NEW n \in 1 .. Len(longer[m])
        PROVE  IF m = p /\ n = Len(c) + 1 THEN longer[m][n] = Len(bs) + 1
               ELSE /\ n \in 1 .. Len(chain[m]) /\ longer[m][n] = chain[m][n]
                    /\ chain[m][n] \in 1 .. Len(bs)
    <3>1. CASE m = p /\ n = Len(c) + 1
      BY <1>7, <3>1
    <3>2. CASE ~(m = p /\ n = Len(c) + 1)
      <4>1. n \in 1 .. Len(chain[m]) /\ longer[m][n] = chain[m][n]
        BY <1>1, <1>4, <1>7, <3>2, SMTT(30) DEF c
      <4>2. chain[m][n] \in 1 .. Len(bs)
        BY <4>1, ChainedParts
      <4> QED
        BY <3>2, <4>1, <4>2
    <3> QED
      BY <3>1, <3>2
  <2>2. CASE i = p /\ k = Len(c) + 1
    BY <1>1, <1>10, <2>1, <2>2, SMTT(30)
  <2>3. CASE j = p /\ l = Len(c) + 1
    BY <1>1, <1>10, <2>1, <2>3, SMTT(30)
  <2>4. CASE ~(i = p /\ k = Len(c) + 1) /\ ~(j = p /\ l = Len(c) + 1)
    <3>1. /\ k \in 1 .. Len(chain[i]) /\ l \in 1 .. Len(chain[j])
          /\ chain[i][k] = chain[j][l]
      BY <1>10, <2>1, <2>4, SMTT(30)
    <3> QED
      BY <3>1 DEF Chained
  <2> QED
    BY <2>2, <2>3, <2>4
<1>11. ASSUME NEW i \in DOMAIN ins
       PROVE  IsChain(new, ins2[i].first_block, longer[i])
  BY <1>6, <1>8
<1> QED
  BY <1>2, <1>4, <1>7, <1>9, <1>10, <1>11, ZenonT(60) DEF Chained, c, type

\* Chains keep when data of the right type is written into their blocks.
LEMMA DataWritten ==
  ASSUME NEW ins, NEW bs, NEW chain, Chained(ins, bs, chain),
         NEW bs2, Len(bs2) = Len(bs), Len(bs) \in Nat,
         \A b \in 1 .. Len(bs) : bs2[b].next = bs[b].next,
         \A i \in DOMAIN ins : \A k \in 1 .. Len(chain[i]) :
           bs2[chain[i][k]].data \in DataOf(ins[i].type)
  PROVE  Chained(ins, bs2, chain)
<1>1. ASSUME NEW i \in DOMAIN ins
      PROVE  IsChain(bs2, ins[i].first_block, chain[i])
  <2>1. \A k \in 1 .. Len(chain[i]) : bs2[chain[i][k]].next = bs[chain[i][k]].next
    BY ChainedParts
  <2>2. IsChain(bs, ins[i].first_block, chain[i])
    BY ChainedParts
  <2> QED
    BY <2>1, <2>2 DEF IsChain
<1> QED
  BY <1>1 DEF Chained

\* Sizes are of no matter to chains.
LEMMA SizeChanged ==
  ASSUME NEW ins, NEW bs, NEW chain, Chained(ins, bs, chain),
         NEW ins2, DOMAIN ins2 = DOMAIN ins,
         \A i \in DOMAIN ins :
           ins2[i].type = ins[i].type /\ ins2[i].first_block = ins[i].first_block
  PROVE  Chained(ins2, bs, chain)
BY DEF Chained

\* A new inode has no blocks.
WithInode(chain, n) == [i \in 1 .. n + 1 |-> IF i = n + 1 THEN <<>> ELSE chain[i]]

LEMMA InodeAdded ==
  ASSUME NEW ins \in Seq(Inode), NEW bs, NEW chain, Chained(ins, bs, chain), Len(bs) \in Nat,
         NEW type
  PROVE  Chained(Append(ins, NewInode(type)), bs, WithInode(chain, Len(ins)))
<1> DEFINE n    == Len(ins)
           ins2 == Append(ins, NewInode(type))
           wide == WithInode(chain, n)
<1>1. /\ n \in Nat /\ DOMAIN ins = 1 .. n /\ DOMAIN ins2 = 1 .. n + 1
      /\ ins2[n + 1] = NewInode(type) /\ \A i \in 1 .. n : ins2[i] = ins[i]
  OBVIOUS
<1>2. /\ DOMAIN wide = 1 .. n + 1 /\ wide[n + 1] = <<>> /\ Len(wide[n + 1]) = 0
      /\ \A i \in 1 .. n : wide[i] = chain[i]
  BY <1>1 DEF WithInode
<1>3. IsChain(bs, ins2[n + 1].first_block, wide[n + 1])
  <2>1. ins2[n + 1].first_block = 0
    BY <1>1 DEF NewInode
  <2>2. IsChain(bs, 0, <<>>)
    BY DEF IsChain
  <2> QED
    BY <1>2, <2>1, <2>2
<1> HIDE DEF ins2, wide
<1>4. ASSUME NEW i \in 1 .. n + 1
      PROVE  /\ IsChain(bs, ins2[i].first_block, wide[i])
             /\ \A k \in 1 .. Len(wide[i]) :
                  i \in 1 .. n /\ bs[wide[i][k]].data \in DataOf(ins2[i].type)
  <2>1. CASE i = n + 1
    BY <1>2, <1>3, <2>1
  <2>2. CASE i \in 1 .. n
    <3>1. i \in DOMAIN ins /\ ins2[i] = ins[i] /\ wide[i] = chain[i]
      BY <1>1, <1>2, <2>2
    <3> QED
      BY <2>2, <3>1, ChainedParts
  <2> QED
    BY <1>1, <2>1, <2>2
<1>5. ASSUME NEW i \in 1 .. n + 1, NEW j \in 1 .. n + 1,
             NEW k \in 1 .. Len(wide[i]), NEW l \in 1 .. Len(wide[j]),
             wide[i][k] = wide[j][l]
      PROVE  i = j /\ k = l
  <2>1. i \in 1 .. n /\ j \in 1 .. n
    BY <1>4
  <2>2. wide[i] = chain[i] /\ wide[j] = chain[j] /\ i \in DOMAIN ins /\ j \in DOMAIN ins
    BY <1>1, <1>2, <2>1
  <2>3. /\ k \in 1 .. Len(chain[i]) /\ l \in 1 .. Len(chain[j])
        /\ chain[i][k] = chain[j][l]
    BY <1>5, <2>2
  <2> QED
    BY <2>2, <2>3, SMTT(30) DEF Chained
<1> QED
  BY <1>1, <1>2, <1>4, <1>5, ZenonT(60) DEF Chained, ins2, wide

-----------------------------------------------------------------------------
(* The cells of an inode: the entries of a directory, the bytes of a file. *)

CellIn(ins, bs, i, n) ==
  bs[Hop(bs, ins[i].first_block, n \div Capacity(ins[i].type))].data[n % Capacity(ins[i].type)]

Room(ins, chain, i) == Capacity(ins[i].type) * Len(chain[i])

LEMMA CapacityPositive == \A type : Capacity(type) \in Nat \ {0}
BY FileSystemAssumption DEF Capacity

LEMMA RoomTyped ==
  ASSUME NEW ins, NEW bs, NEW chain, Chained(ins, bs, chain), NEW i \in DOMAIN ins
  PROVE  Room(ins, chain, i) \in Nat
BY ChainedParts, CapacityPositive, SMTT(30) DEF Room

\* The cell n of the inode i lies in the block of the chain c its index names.
OnChain(ins, bs, c, i, n) ==
  /\ n \div Capacity(ins[i].type) + 1 \in 1 .. Len(c)
  /\ Hop(bs, ins[i].first_block, n \div Capacity(ins[i].type)) = c[n \div Capacity(ins[i].type) + 1]
  /\ c[n \div Capacity(ins[i].type) + 1] \in 1 .. Len(bs)
  /\ n % Capacity(ins[i].type) \in 0 .. Capacity(ins[i].type) - 1
  /\ CellIn(ins, bs, i, n) =
       bs[c[n \div Capacity(ins[i].type) + 1]].data[n % Capacity(ins[i].type)]

LEMMA CellOnChain ==
  ASSUME NEW ins, NEW bs, NEW chain, Chained(ins, bs, chain), NEW i \in DOMAIN ins,
         NEW n \in Nat, n < Room(ins, chain, i)
  PROVE  OnChain(ins, bs, chain[i], i, n)
<1> DEFINE cap == Capacity(ins[i].type)
           q   == n \div cap
<1>1. cap \in Nat \ {0}
  BY CapacityPositive
<1>2. IsChain(bs, ins[i].first_block, chain[i]) /\ Len(chain[i]) \in Nat
  BY ChainedParts
<1> HIDE DEF cap
<1>3. q \in Nat /\ n % cap \in 0 .. cap - 1
  <2>1. n \in Int
    OBVIOUS
  <2> QED
    BY <1>1, <2>1, DivMod, Zenon
<1>4. q < Len(chain[i])
  BY <1>1, <1>2, QuotientBelow DEF Room, cap
<1> HIDE DEF q
<1>5. Hop(bs, ins[i].first_block, q) = chain[i][q + 1] /\ q + 1 \in 1 .. Len(chain[i])
  BY <1>2, <1>3, <1>4, HopOnChain DEF Along
<1>6. chain[i][q + 1] \in 1 .. Len(bs)
  BY <1>5, ChainedParts
<1> QED
  BY <1>3, <1>5, <1>6 DEF OnChain, CellIn, cap, q

\* What the cells of that type hold.
CellOf(type) == IF type = 2 THEN Dirents ELSE Bytes

LEMMA DataTyped ==
  ASSUME NEW type, NEW d \in DataOf(type)
  PROVE  /\ DOMAIN d = 0 .. Capacity(type) - 1
         /\ \A s \in 0 .. Capacity(type) - 1 : d[s] \in CellOf(type)
         /\ \A s \in 0 .. Capacity(type) - 1 : \A v \in CellOf(type) :
              [d EXCEPT ![s] = v] \in DataOf(type)
BY DEF DataOf, DirData, FileData, Capacity, CellOf

LEMMA CellTyped ==
  ASSUME NEW ins, NEW bs, NEW chain, Chained(ins, bs, chain), NEW i \in DOMAIN ins,
         NEW n \in Nat, n < Room(ins, chain, i)
  PROVE  CellIn(ins, bs, i, n) \in CellOf(ins[i].type)
<1> DEFINE cap == Capacity(ins[i].type)
           d   == bs[chain[i][n \div cap + 1]].data
<1>0. OnChain(ins, bs, chain[i], i, n)
  BY CellOnChain
<1>1. /\ n \div cap + 1 \in 1 .. Len(chain[i]) /\ n % cap \in 0 .. cap - 1
      /\ CellIn(ins, bs, i, n) = d[n % cap]
  BY <1>0, Zenon DEF OnChain
<1>2. d \in DataOf(ins[i].type)
  BY <1>1, ChainedParts
<1> HIDE DEF d
<1> QED
  BY <1>1, <1>2, DataTyped, ZenonT(60)

Unwritten(type) == IF type = 2 THEN NullDirent ELSE JunkByte

\* An appended block keeps every cell and adds unwritten ones to its inode.
LEMMA CellsGrow ==
  ASSUME NEW ins, NEW bs, BlocksTyped(bs), NEW chain, Chained(ins, bs, chain),
         NEW p \in DOMAIN ins, ins[p].type \in {1, 2}, NEW ins2, NEW new, NEW longer,
         OneBlockMore(ins, bs, chain, p, ins2, new, longer)
  PROVE  /\ \A i \in DOMAIN ins :
              Room(ins2, longer, i) =
                Room(ins, chain, i) + (IF i = p THEN Capacity(ins[p].type) ELSE 0)
         /\ \A i \in DOMAIN ins, n \in Nat :
              n < Room(ins2, longer, i) =>
                CellIn(ins2, new, i, n) = IF n < Room(ins, chain, i) THEN CellIn(ins, bs, i, n)
                                          ELSE Unwritten(ins[p].type)
<1>1. /\ Linked(bs, new, chain[p], ins[p].type) /\ Chained(ins2, new, longer)
      /\ Len(longer[p]) = Len(chain[p]) + 1 /\ longer[p][Len(chain[p]) + 1] = Len(bs) + 1
      /\ \A k \in 1 .. Len(chain[p]) : longer[p][k] = chain[p][k]
      /\ \A i \in DOMAIN ins : i # p => longer[i] = chain[i]
  BY ChainGrows
<1>2. DOMAIN ins2 = DOMAIN ins /\ \A i \in DOMAIN ins : ins2[i].type = ins[i].type
  BY DEF OneBlockMore
<1>3. ASSUME NEW i \in DOMAIN ins
      PROVE  Room(ins2, longer, i) =
               Room(ins, chain, i) + (IF i = p THEN Capacity(ins[p].type) ELSE 0)
  <2>1. Len(chain[i]) \in Nat /\ Capacity(ins[i].type) \in Nat
    BY ChainedParts, CapacityPositive
  <2>2. CASE i = p
    <3>1. Room(ins2, longer, i) = Capacity(ins[i].type) * (Len(chain[i]) + 1)
      BY <1>1, <1>2, <2>2 DEF Room
    <3>2. \A a, b \in Nat : a * (b + 1) = a * b + a
      OBVIOUS
    <3> QED
      BY <2>1, <2>2, <3>1, <3>2 DEF Room
  <2>3. CASE i # p
    BY <1>1, <1>2, <2>1, <2>3 DEF Room
  <2> QED
    BY <2>2, <2>3
<1>4. ASSUME NEW i \in DOMAIN ins, NEW n \in Nat, n < Room(ins2, longer, i)
      PROVE  CellIn(ins2, new, i, n) = IF n < Room(ins, chain, i) THEN CellIn(ins, bs, i, n)
                                       ELSE Unwritten(ins[p].type)
  <2> DEFINE cap == Capacity(ins[i].type)
             q   == n \div cap
             r   == n % cap
  <2>1. cap \in Nat \ {0}
    BY CapacityPositive, SMTT(30)
  <2>2. /\ q + 1 \in 1 .. Len(longer[i]) /\ r \in 0 .. cap - 1
        /\ CellIn(ins2, new, i, n) = new[longer[i][q + 1]].data[r]
    <3>1. ins2[i].type = ins[i].type
      BY <1>2
    <3>2. i \in DOMAIN ins2 /\ Chained(ins2, new, longer)
      BY <1>1, <1>2, Zenon
    <3>3. OnChain(ins2, new, longer[i], i, n)
      BY <1>4, <3>2, CellOnChain
    <3> QED
      BY <3>1, <3>3, Zenon DEF OnChain
  <2>3. Len(chain[i]) \in Nat
    BY ChainedParts
  <2>4. CASE n < Room(ins, chain, i)
    <3>1. /\ q + 1 \in 1 .. Len(chain[i]) /\ chain[i][q + 1] \in 1 .. Len(bs)
          /\ CellIn(ins, bs, i, n) = bs[chain[i][q + 1]].data[r]
      <4>1. OnChain(ins, bs, chain[i], i, n)
        BY <2>4, CellOnChain
      <4> QED
        BY <4>1, Zenon DEF OnChain
    <3> HIDE DEF q, r, cap
    <3>2. longer[i][q + 1] = chain[i][q + 1]
      BY <1>1, <3>1, SMTT(30)
    <3>3. new[chain[i][q + 1]].data = bs[chain[i][q + 1]].data
      BY <1>1, <3>1 DEF Linked
    <3> QED
      BY <2>2, <2>4, <3>1, <3>2, <3>3, SMTT(30)
  <2>5. CASE ~(n < Room(ins, chain, i))
    <3>1. q \in Nat /\ n \in Int
      <4>1. n \in Int
        OBVIOUS
      <4> QED
        BY <2>1, <4>1, DivMod, Zenon
    <3>2. ~(q < Len(chain[i]))
      <4> HIDE DEF cap
      <4> QED
        BY <2>1, <2>3, <2>5, QuotientBelow DEF Room, cap
    <3> HIDE DEF q, r, cap
    <3>3. i = p /\ q = Len(chain[p])
      <4>1. CASE i # p
        BY <1>1, <2>2, <2>3, <3>1, <3>2, <4>1, SMTT(30)
      <4>2. CASE i = p
        BY <1>1, <2>2, <2>3, <3>1, <3>2, <4>2
      <4> QED
        BY <4>1, <4>2
    <3>4. CellIn(ins2, new, i, n) = FreshBlock(ins[p].type, 0).data[r]
      BY <1>1, <2>2, <3>3 DEF Linked
    <3>5. FreshBlock(ins[p].type, 0).data[r] = Unwritten(ins[p].type)
      <4>1. r \in 0 .. Capacity(ins[p].type) - 1
        BY <2>2, <3>3 DEF cap
      <4> QED
        BY <4>1 DEF FreshBlock, Unwritten, Capacity
    <3> QED
      BY <2>5, <3>4, <3>5
  <2> QED
    BY <2>4, <2>5
<1> QED
  BY <1>3, <1>4

WriteCell(bs, b, s, v) == [bs EXCEPT ![b].data[s] = v]

LEMMA WriteCellParts ==
  ASSUME NEW bs, BlocksTyped(bs), NEW b \in 1 .. Len(bs), NEW type,
         bs[b].data \in DataOf(type), NEW s \in 0 .. Capacity(type) - 1, NEW v \in CellOf(type)
  PROVE  /\ BlocksTyped(WriteCell(bs, b, s, v)) /\ Len(WriteCell(bs, b, s, v)) = Len(bs)
         /\ \A k \in 1 .. Len(bs) :
              /\ WriteCell(bs, b, s, v)[k].next = bs[k].next
              /\ WriteCell(bs, b, s, v)[k].data =
                   IF k = b THEN [bs[b].data EXCEPT ![s] = v] ELSE bs[k].data
<1> DEFINE d == [bs[b].data EXCEPT ![s] = v]
           r == [bs[b] EXCEPT !.data = d]
           w == WriteCell(bs, b, s, v)
<1>1. bs \in Seq(Block) /\ Len(bs) \in Nat /\ bs[b] \in Block
  BY DEF BlocksTyped
<1>2. d \in DataOf(type) /\ d \in DirData \cup FileData
  BY DataTyped DEF DataOf
<1>3. w = [bs EXCEPT ![b] = r]
  BY DEF WriteCell
<1> HIDE DEF d
<1>4. r \in Block /\ r.next = bs[b].next /\ r.data = d
  BY <1>1, <1>2 DEF Block
<1> HIDE DEF r, w
<1>5. /\ [bs EXCEPT ![b] = r] \in Seq(Block) /\ Len([bs EXCEPT ![b] = r]) = Len(bs)
      /\ \A k \in 1 .. Len(bs) : [bs EXCEPT ![b] = r][k] = IF k = b THEN r ELSE bs[k]
  BY <1>1, <1>4, ExceptTyped
<1>6. /\ w \in Seq(Block) /\ Len(w) = Len(bs)
      /\ \A k \in 1 .. Len(bs) : w[k] = IF k = b THEN r ELSE bs[k]
  BY <1>3, <1>5, Zenon
<1>7. ASSUME NEW k \in 1 .. Len(bs)
      PROVE  w[k].next = bs[k].next /\ w[k].data = IF k = b THEN d ELSE bs[k].data
  BY <1>4, <1>6
<1> QED
  BY <1>6, <1>7 DEF BlocksTyped, w, d

\* The cell m of the inode p gets the value v.
CellPut(ins, bs, chain, p, m, v, bs2) ==
  bs2 = WriteCell(bs, chain[p][m \div Capacity(ins[p].type) + 1], m % Capacity(ins[p].type), v)

\* Writing one cell of an inode changes no other cell of any.
LEMMA CellWritten ==
  ASSUME NEW ins, NEW bs, BlocksTyped(bs), NEW chain, Chained(ins, bs, chain),
         NEW p \in DOMAIN ins, NEW m \in Nat, m < Room(ins, chain, p),
         NEW v \in CellOf(ins[p].type), NEW bs2, CellPut(ins, bs, chain, p, m, v, bs2)
  PROVE  /\ BlocksTyped(bs2) /\ Len(bs2) = Len(bs) /\ Chained(ins, bs2, chain)
         /\ \A i \in DOMAIN ins, n \in Nat :
              n < Room(ins, chain, i) =>
                CellIn(ins, bs2, i, n) = IF i = p /\ n = m THEN v ELSE CellIn(ins, bs, i, n)
<1> DEFINE cap == Capacity(ins[p].type)
           q   == m \div cap
           s   == m % cap
           b   == chain[p][q + 1]
<1>1. cap \in Nat \ {0} /\ m \in Int
  BY CapacityPositive
<1>2. q + 1 \in 1 .. Len(chain[p]) /\ b \in 1 .. Len(bs) /\ s \in 0 .. cap - 1
  <2>1. OnChain(ins, bs, chain[p], p, m)
    BY CellOnChain, SMTT(30)
  <2> QED
    BY <2>1, Zenon DEF OnChain
<1>3. bs[b].data \in DataOf(ins[p].type)
  BY <1>2, ChainedParts
<1>4. bs2 = WriteCell(bs, b, s, v)
  BY DEF CellPut
<1>5. m = q * cap + s /\ q \in Int
  BY <1>1, DivMod, Zenon
<1> HIDE DEF q, s, b
<1>6. /\ BlocksTyped(bs2) /\ Len(bs2) = Len(bs)
      /\ \A k \in 1 .. Len(bs) :
           /\ bs2[k].next = bs[k].next
           /\ bs2[k].data = IF k = b THEN [bs[b].data EXCEPT ![s] = v] ELSE bs[k].data
  BY <1>2, <1>3, <1>4, WriteCellParts, SMTT(30)
<1>7. ASSUME NEW i \in DOMAIN ins, NEW k \in 1 .. Len(chain[i]), chain[i][k] = b
      PROVE  i = p /\ k = q + 1
  BY <1>2, <1>7, ZenonT(60) DEF Chained, b
<1>8. Chained(ins, bs2, chain)
  <2>1. ASSUME NEW i \in DOMAIN ins, NEW k \in 1 .. Len(chain[i])
        PROVE  bs2[chain[i][k]].data \in DataOf(ins[i].type)
    <3>1. chain[i][k] \in 1 .. Len(bs) /\ bs[chain[i][k]].data \in DataOf(ins[i].type)
      BY ChainedParts
    <3>2. CASE chain[i][k] = b
      <4>1. i = p
        BY <1>7, <3>2
      <4>2. [bs[b].data EXCEPT ![s] = v] \in DataOf(ins[p].type)
        BY <1>2, <1>3, DataTyped
      <4> QED
        BY <1>6, <3>1, <3>2, <4>1, <4>2
    <3>3. CASE chain[i][k] # b
      BY <1>6, <3>1, <3>3
    <3> QED
      BY <3>2, <3>3
  <2>2. Len(bs) \in Nat
    BY DEF BlocksTyped
  <2> QED
    BY <1>6, <2>1, <2>2, DataWritten
<1>9. ASSUME NEW i \in DOMAIN ins, NEW n \in Nat, n < Room(ins, chain, i)
      PROVE  CellIn(ins, bs2, i, n) = IF i = p /\ n = m THEN v ELSE CellIn(ins, bs, i, n)
  <2> DEFINE e == Capacity(ins[i].type)
             x == n \div e
             y == n % e
  <2>1. /\ x + 1 \in 1 .. Len(chain[i]) /\ chain[i][x + 1] \in 1 .. Len(bs) /\ y \in 0 .. e - 1
        /\ CellIn(ins, bs, i, n) = bs[chain[i][x + 1]].data[y]
        /\ CellIn(ins, bs2, i, n) = bs2[chain[i][x + 1]].data[y]
    <3>1. OnChain(ins, bs, chain[i], i, n)
      BY <1>9, CellOnChain
    <3>2. OnChain(ins, bs2, chain[i], i, n)
      BY <1>8, <1>9, CellOnChain
    <3> QED
      BY <3>1, <3>2, Zenon DEF OnChain
  <2>2. n = x * e + y /\ x \in Int
    <3>1. n \in Int /\ e \in Nat \ {0}
      BY CapacityPositive, SMTT(30)
    <3> QED
      BY <3>1, DivMod, Zenon
  <2>3. CASE i = p /\ n = m
    <3>1. x = q /\ y = s
      BY <2>3 DEF q, s
    <3>2. chain[i][x + 1] = b
      BY <2>3, <3>1 DEF b
    <3>3. [bs[b].data EXCEPT ![s] = v][s] = v
      BY <1>2, <1>3, DataTyped
    <3> QED
      BY <1>6, <2>1, <2>3, <3>1, <3>2, <3>3, ZenonT(60)
  <2>4. CASE ~(i = p /\ n = m)
    <3> HIDE DEF x, y
    <3>1. CASE chain[i][x + 1] = b
      <4>1. i = p /\ x = q
        BY <1>5, <1>7, <2>1, <2>2, <3>1, SMTT(30)
      <4>2. y # s
        BY <1>5, <2>2, <2>4, <4>1
      <4>3. [bs[b].data EXCEPT ![s] = v][y] = bs[b].data[y]
        BY <4>2
      <4> QED
        BY <1>6, <2>1, <2>4, <3>1, <4>3
    <3>2. CASE chain[i][x + 1] # b
      BY <1>6, <2>1, <2>4, <3>2
    <3> QED
      BY <3>1, <3>2
  <2> QED
    BY <2>3, <2>4, SMTT(30)
<1> QED
  BY <1>6, <1>8, <1>9

-----------------------------------------------------------------------------
(* What each call does to the inodes and their cells.                      *)

Store(ins, bs, chain) ==
  ins \in Seq(Inode) /\ BlocksTyped(bs) /\ Chained(ins, bs, chain) /\ Fits(ins, chain)

EditInode(ins, p, size, first) ==
  [ins EXCEPT ![p] = [ins[p] EXCEPT !.size = size, !.first_block = first]]

LEMMA InodeParts ==
  ASSUME NEW ins \in Seq(Inode), NEW i \in DOMAIN ins
  PROVE  /\ DOMAIN ins = 1 .. Len(ins) /\ Len(ins) \in Nat
         /\ ins[i] \in Inode /\ ins[i].type \in {1, 2} /\ ins[i].size \in Nat /\ ins[i].first_block \in Nat
<1>1. DOMAIN ins = 1 .. Len(ins) /\ Len(ins) \in Nat /\ ins[i] \in Inode
  OBVIOUS
<1> QED
  BY <1>1 DEF Inode

LEMMA EditInodeParts ==
  ASSUME NEW ins \in Seq(Inode), NEW p \in DOMAIN ins, NEW size \in Nat, NEW first \in Nat,
         NEW ins2, ins2 = EditInode(ins, p, size, first)
  PROVE  /\ ins2 \in Seq(Inode) /\ Len(ins2) = Len(ins) /\ DOMAIN ins2 = DOMAIN ins
         /\ \A i \in DOMAIN ins :
              /\ ins2[i].type = ins[i].type
              /\ ins2[i].size = IF i = p THEN size ELSE ins[i].size
              /\ ins2[i].first_block = IF i = p THEN first ELSE ins[i].first_block
<1> DEFINE r == [ins[p] EXCEPT !.size = size, !.first_block = first]
<1>1. p \in 1 .. Len(ins) /\ DOMAIN ins = 1 .. Len(ins) /\ ins[p] \in Inode
  BY InodeParts
<1>2. r \in Inode /\ r.type = ins[p].type /\ r.size = size /\ r.first_block = first
  BY <1>1 DEF Inode
<1>3. ins2 = [ins EXCEPT ![p] = r]
  BY DEF EditInode
<1> HIDE DEF r
<1>4. /\ [ins EXCEPT ![p] = r] \in Seq(Inode) /\ Len([ins EXCEPT ![p] = r]) = Len(ins)
      /\ \A i \in 1 .. Len(ins) : [ins EXCEPT ![p] = r][i] = IF i = p THEN r ELSE ins[i]
  BY <1>1, <1>2, ExceptTyped
<1>5. /\ ins2 \in Seq(Inode) /\ Len(ins2) = Len(ins)
      /\ \A i \in 1 .. Len(ins) : ins2[i] = IF i = p THEN r ELSE ins[i]
  BY <1>3, <1>4, Zenon
<1>6. DOMAIN ins2 = DOMAIN ins
  BY <1>5
<1> QED
  BY <1>1, <1>2, <1>5, <1>6

\* A directory's chain always gets room for one more entry.
LEMMA GrowthFits ==
  ASSUME NEW size \in Nat, NEW cap \in Nat \ {0}, NEW len \in Nat, size <= cap * len
  PROVE  /\ size % cap # 0 => size < cap * len
         /\ size < cap * (len + 1)
<1>1. cap * len \in Nat /\ cap * (len + 1) = cap * len + cap
  OBVIOUS
<1>2. ASSUME size = cap * len PROVE size % cap = 0
  <2>1. len * cap + 0 = size /\ 0 \in 0 .. cap - 1
    BY <1>2
  <2>2. (len * cap + 0) % cap = 0
    BY DivModUnique
  <2> QED
    BY <2>1, <2>2
<1> QED
  BY <1>1, <1>2

\* fs_create, up to the new inode: the directory has grown where it must, and
\* the entry is written behind its last.
AddsEntry(ins, bs, p, v, grown, first, ins2, bs2) ==
  /\ grown = IF Grows(ins[p]) THEN append_block(bs, ins[p].first_block, 2, 0) ELSE bs
  /\ first = IF Grows(ins[p]) /\ ins[p].first_block = 0 THEN Len(grown) ELSE ins[p].first_block
  /\ ins2 = EditInode(ins, p, ins[p].size + 1, first)
  /\ bs2 = WriteCell(grown, Hop(grown, first, ins[p].size \div dirents_per_block),
                     ins[p].size % dirents_per_block, v)

LEMMA EntryAdded ==
  ASSUME NEW ins, NEW bs, NEW chain, Store(ins, bs, chain),
         NEW p \in DOMAIN ins, ins[p].type = 2, NEW v \in Dirents,
         NEW grown, NEW first, NEW ins2, NEW bs2,
         AddsEntry(ins, bs, p, v, grown, first, ins2, bs2)
  PROVE  /\ \E chain2 : Store(ins2, bs2, chain2)
         /\ Len(bs2) = Len(grown) /\ first \in Nat
         /\ \A i \in DOMAIN ins, n \in Nat :
              n < ins2[i].size =>
                CellIn(ins2, bs2, i, n) = IF i = p /\ n = ins[p].size THEN v
                                          ELSE CellIn(ins, bs, i, n)
<1> DEFINE size == ins[p].size
           D    == dirents_per_block
<1>1. /\ ins \in Seq(Inode) /\ BlocksTyped(bs) /\ Chained(ins, bs, chain) /\ Fits(ins, chain)
      /\ Len(bs) \in Nat
  BY DEF Store, BlocksTyped
<1>2. size \in Nat /\ ins[p].first_block \in Nat /\ D \in Nat \ {0} /\ Capacity(2) = D
  BY <1>1, InodeParts, FileSystemAssumption DEF Capacity
<1>3. Len(chain[p]) \in Nat /\ Room(ins, chain, p) = D * Len(chain[p]) /\ size <= D * Len(chain[p])
  BY <1>1, <1>2, ChainedParts DEF Room, Fits
<1>4. PICK longer :
        /\ first \in Nat
        /\ BlocksTyped(grown) /\ Chained(ins2, grown, longer)
        /\ size < Room(ins2, longer, p)
        /\ \A i \in DOMAIN ins : Room(ins, chain, i) <= Room(ins2, longer, i)
        /\ \A i \in DOMAIN ins, n \in Nat :
             n < Room(ins, chain, i) => CellIn(ins2, grown, i, n) = CellIn(ins, bs, i, n)
  <2>1. CASE ~Grows(ins[p])
    <3>1. grown = bs /\ first = ins[p].first_block
      BY <2>1 DEF AddsEntry
    <3>2. /\ DOMAIN ins2 = DOMAIN ins
          /\ \A i \in DOMAIN ins :
               ins2[i].type = ins[i].type /\ ins2[i].first_block = ins[i].first_block
      <4>1. ins[p].size + 1 \in Nat
        BY <1>2
      <4> QED
        <5>1. ins2 = EditInode(ins, p, ins[p].size + 1, ins[p].first_block)
          BY <3>1 DEF AddsEntry
        <5>2. ins[p].first_block \in Nat /\ ins \in Seq(Inode)
          BY <1>1, <1>2
        <5> QED
          BY <4>1, <5>1, <5>2, EditInodeParts, SMTT(30)
    <3>3. Chained(ins2, grown, chain)
      BY <1>1, <3>1, <3>2, SizeChanged
    <3>4. size < Room(ins2, chain, p)
      <4>1. size % D # 0
        BY <2>1 DEF Grows
      <4>2. size < D * Len(chain[p])
        BY <1>2, <1>3, <4>1, GrowthFits
      <4> QED
        BY <1>2, <3>2, <4>2 DEF Room
    <3>5. \A i \in DOMAIN ins : Room(ins, chain, i) <= Room(ins2, chain, i)
      <4>1. \A i \in DOMAIN ins : Len(chain[i]) \in Nat /\ Capacity(ins[i].type) \in Nat
        BY <1>1, ChainedParts, CapacityPositive
      <4>2. \A i \in DOMAIN ins : Room(ins, chain, i) = Room(ins2, chain, i) /\ Room(ins, chain, i) \in Nat
        BY <3>2, <4>1, SMTT(30) DEF Room
      <4> QED
        BY <4>2
    <3>6. \A i \in DOMAIN ins, n \in Nat : CellIn(ins2, grown, i, n) = CellIn(ins, bs, i, n)
      BY <3>1, <3>2 DEF CellIn
    <3> QED
      BY <1>1, <1>2, <3>1, <3>3, <3>4, <3>5, <3>6
  <2>2. CASE Grows(ins[p])
    <3> DEFINE longer == [chain EXCEPT ![p] = Append(chain[p], Len(bs) + 1)]
    <3>1. grown = append_block(bs, ins[p].first_block, ins[p].type, 0)
      BY <2>2 DEF AddsEntry
    <3>2. Len(grown) = Len(bs) + 1
      <4>1. Linked(bs, grown, chain[p], ins[p].type)
        BY <1>1, <3>1, ChainedParts, AppendBlock
      <4> QED
        BY <4>1 DEF Linked
    <3>3. first = (IF ins[p].first_block = 0 THEN Len(bs) + 1 ELSE ins[p].first_block) /\ first \in Nat
      BY <1>1, <1>2, <2>2, <3>2 DEF AddsEntry
    <3>4. OneBlockMore(ins, bs, chain, p, ins2, grown, longer)
      <4>1. /\ DOMAIN ins2 = DOMAIN ins
            /\ \A i \in DOMAIN ins :
                 /\ ins2[i].type = ins[i].type
                 /\ ins2[i].first_block = IF i = p THEN first ELSE ins[i].first_block
        <5>1. ins[p].size + 1 \in Nat
          BY <1>2
        <5> QED
          BY <1>1, <3>3, <5>1, EditInodeParts, SMTT(30) DEF AddsEntry
      <4> QED
        BY <3>1, <3>3, <4>1, SMTT(30) DEF OneBlockMore
    <3> HIDE DEF longer
    <3>5. BlocksTyped(grown) /\ Chained(ins2, grown, longer)
      BY <1>1, <3>4, ChainGrows
    <3>6. /\ \A i \in DOMAIN ins :
               Room(ins2, longer, i) =
                 Room(ins, chain, i) + (IF i = p THEN Capacity(ins[p].type) ELSE 0)
          /\ \A i \in DOMAIN ins, n \in Nat :
               n < Room(ins2, longer, i) =>
                 CellIn(ins2, grown, i, n) = IF n < Room(ins, chain, i) THEN CellIn(ins, bs, i, n)
                                             ELSE Unwritten(ins[p].type)
      BY <1>1, <3>4, CellsGrow, SMTT(30)
    <3>7. \A i \in DOMAIN ins : Room(ins, chain, i) \in Nat
      BY <1>1, ChainedParts, CapacityPositive, SMTT(30) DEF Room
    <3>8. size < Room(ins2, longer, p)
      BY <1>2, <1>3, <3>6
    <3>9. \A i \in DOMAIN ins : Room(ins, chain, i) <= Room(ins2, longer, i)
      BY <1>2, <3>6, <3>7
    <3>10. ASSUME NEW i \in DOMAIN ins, NEW n \in Nat, n < Room(ins, chain, i)
           PROVE  CellIn(ins2, grown, i, n) = CellIn(ins, bs, i, n)
      <4>1. Room(ins, chain, i) <= Room(ins2, longer, i) /\ Room(ins2, longer, i) \in Nat
        BY <1>2, <3>6, <3>7
      <4>2. n < Room(ins2, longer, i)
        BY <3>7, <3>10, <4>1, SMTT(30)
      <4> QED
        BY <3>6, <3>10, <4>2
    <3> QED
      BY <3>3, <3>5, <3>8, <3>9, <3>10
  <2> QED
    BY <2>1, <2>2
<1>5. /\ ins2 \in Seq(Inode) /\ DOMAIN ins2 = DOMAIN ins
      /\ \A i \in DOMAIN ins :
           /\ ins2[i].type = ins[i].type
           /\ ins2[i].size = IF i = p THEN size + 1 ELSE ins[i].size
           /\ ins2[i].first_block = IF i = p THEN first ELSE ins[i].first_block
  <2>1. size + 1 \in Nat
    BY <1>2
  <2> QED
    BY <1>1, <1>4, <2>1, EditInodeParts, SMTT(30) DEF AddsEntry
<1>6. Hop(grown, first, size \div D) = longer[p][size \div D + 1]
  <2>1. Capacity(ins2[p].type) = D /\ ins2[p].first_block = first
    BY <1>2, <1>5, SMTT(30)
  <2>2. Hop(grown, ins2[p].first_block, size \div Capacity(ins2[p].type)) =
          longer[p][size \div Capacity(ins2[p].type) + 1]
    <3>1. p \in DOMAIN ins2
      BY <1>5
    <3>2. Chained(ins2, grown, longer)
      BY <1>4
    <3>3. size \in Nat /\ size < Room(ins2, longer, p)
      BY <1>2, <1>4
    <3> HIDE DEF size
    <3>4. OnChain(ins2, grown, longer[p], p, size)
      BY <3>1, <3>2, <3>3, CellOnChain
    <3> QED
      BY <3>4, Zenon DEF OnChain
  <2> QED
    BY <2>1, <2>2
<1>7. /\ BlocksTyped(bs2) /\ Len(bs2) = Len(grown) /\ Chained(ins2, bs2, longer)
      /\ \A i \in DOMAIN ins, n \in Nat :
           n < Room(ins2, longer, i) =>
             CellIn(ins2, bs2, i, n) = IF i = p /\ n = size THEN v ELSE CellIn(ins2, grown, i, n)
  <2>1. Capacity(ins2[p].type) = D /\ CellOf(ins2[p].type) = Dirents /\ p \in DOMAIN ins2
    BY <1>2, <1>5 DEF CellOf
  <2>2. CellPut(ins2, grown, longer, p, size, v, bs2)
    BY <1>6, <2>1, ZenonT(60) DEF AddsEntry, CellPut
  <2>3. v \in CellOf(ins2[p].type)
    BY <2>1
  <2> HIDE DEF size, D
  <2>4. /\ BlocksTyped(bs2) /\ Len(bs2) = Len(grown) /\ Chained(ins2, bs2, longer)
        /\ \A i \in DOMAIN ins2, n \in Nat :
             n < Room(ins2, longer, i) =>
               CellIn(ins2, bs2, i, n) = IF i = p /\ n = size THEN v ELSE CellIn(ins2, grown, i, n)
    <3>1. BlocksTyped(grown) /\ Chained(ins2, grown, longer)
      BY <1>4
    <3>2. size \in Nat /\ size < Room(ins2, longer, p) /\ p \in DOMAIN ins2
      BY <1>2, <1>4, <2>1
    <3>3. BlocksTyped(bs2)
      BY <2>2, <2>3, <3>1, <3>2, CellWritten
    <3>6. Len(bs2) = Len(grown)
      <4>1. grown \in Seq(Block)
        BY <3>1 DEF BlocksTyped
      <4> QED
        BY <2>2, <4>1, LengthKept, ZenonT(60) DEF CellPut, WriteCell
    <3>4. Chained(ins2, bs2, longer)
      BY <2>2, <2>3, <3>1, <3>2, CellWritten
    <3>5. ASSUME NEW i \in DOMAIN ins2, NEW n \in Nat, n < Room(ins2, longer, i)
          PROVE  CellIn(ins2, bs2, i, n) = IF i = p /\ n = size THEN v
                                           ELSE CellIn(ins2, grown, i, n)
      BY <2>2, <2>3, <3>1, <3>2, <3>5, CellWritten
    <3> QED
      BY <3>3, <3>4, <3>5, <3>6
  <2> QED
    BY <1>5, <2>4
<1>8. ASSUME NEW i \in DOMAIN ins
      PROVE  ins2[i].size <= Room(ins2, longer, i)
  <2>1. Room(ins, chain, i) \in Nat /\ Room(ins2, longer, i) \in Nat
    <3>1. i \in DOMAIN ins2
      BY <1>5
    <3> QED
      BY <1>1, <1>4, <3>1, RoomTyped
  <2>2. ins[i].size <= Room(ins, chain, i) /\ ins[i].size \in Nat
    BY <1>1, InodeParts DEF Fits, Room
  <2>3. Room(ins, chain, i) <= Room(ins2, longer, i) /\ (i = p => size < Room(ins2, longer, i))
    BY <1>4
  <2> QED
    BY <1>5, <2>1, <2>2, <2>3
<1>9. Store(ins2, bs2, longer)
  BY <1>5, <1>7, <1>8 DEF Store, Fits, Room
<1>10. ASSUME NEW i \in DOMAIN ins, NEW n \in Nat, n < ins2[i].size
       PROVE  CellIn(ins2, bs2, i, n) = IF i = p /\ n = size THEN v ELSE CellIn(ins, bs, i, n)
  <2>1. Room(ins, chain, i) \in Nat /\ Room(ins2, longer, i) \in Nat
    <3>1. i \in DOMAIN ins2
      BY <1>5
    <3> QED
      BY <1>1, <1>4, <3>1, RoomTyped
  <2>2. n < Room(ins2, longer, i) /\ ins2[i].size \in Nat
    BY <1>5, <1>8, <1>10, <2>1, InodeParts
  <2>3. ASSUME ~(i = p /\ n = size) PROVE n < Room(ins, chain, i)
    <3>1. ins[i].size <= Room(ins, chain, i) /\ ins[i].size \in Nat
      BY <1>1, InodeParts DEF Fits, Room
    <3>2. n < ins[i].size
      BY <1>2, <1>5, <1>10, <2>3, <3>1, SMTT(30)
    <3> QED
      BY <2>1, <3>1, <3>2
  <2> QED
    BY <1>4, <1>7, <2>2, <2>3
<1> QED
  BY <1>4, <1>7, <1>9, <1>10

\* fs_unlink: the last entry moves to the place of the removed one.
MovesLast(ins, bs, p, m, ins2, bs2) ==
  /\ ins2 = EditInode(ins, p, ins[p].size - 1, ins[p].first_block)
  /\ bs2 = WriteCell(bs, Hop(bs, ins[p].first_block, m \div dirents_per_block),
                     m % dirents_per_block, CellIn(ins, bs, p, ins[p].size - 1))

LEMMA EntryMoved ==
  ASSUME NEW ins, NEW bs, NEW chain, Store(ins, bs, chain),
         NEW p \in DOMAIN ins, ins[p].type = 2, NEW m \in 0 .. ins[p].size - 1,
         NEW ins2, NEW bs2, MovesLast(ins, bs, p, m, ins2, bs2)
  PROVE  /\ Store(ins2, bs2, chain)
         /\ \A i \in DOMAIN ins, n \in Nat :
              n < ins2[i].size =>
                CellIn(ins2, bs2, i, n) =
                  CellIn(ins, bs, i, IF i = p /\ n = m THEN ins[p].size - 1 ELSE n)
<1> DEFINE last == ins[p].size - 1
           v    == CellIn(ins, bs, p, last)
<1>1. /\ ins \in Seq(Inode) /\ BlocksTyped(bs) /\ Chained(ins, bs, chain) /\ Fits(ins, chain)
  BY DEF Store
<1>2. /\ ins[p].size \in Nat /\ last \in Nat /\ m \in Nat /\ ins[p].first_block \in Nat
      /\ Capacity(ins[p].type) = dirents_per_block
  BY <1>1, InodeParts, SMTT(30) DEF Capacity
<1>3. /\ ins2 \in Seq(Inode) /\ DOMAIN ins2 = DOMAIN ins
      /\ \A i \in DOMAIN ins :
           /\ ins2[i].type = ins[i].type
           /\ ins2[i].size = IF i = p THEN last ELSE ins[i].size
           /\ ins2[i].first_block = ins[i].first_block
  <2>1. ins2 = EditInode(ins, p, last, ins[p].first_block)
    BY DEF MovesLast
  <2> HIDE DEF last
  <2> QED
    BY <1>1, <1>2, <2>1, EditInodeParts, SMTT(30)
<1>4. /\ m < Room(ins, chain, p) /\ last < Room(ins, chain, p)
  <2>1. ins[p].size <= Room(ins, chain, p) /\ Room(ins, chain, p) \in Nat
    BY <1>1, RoomTyped DEF Fits, Room
  <2> QED
    BY <1>2, <2>1
<1>5. v \in CellOf(ins[p].type)
  BY <1>1, <1>2, <1>4, CellTyped
<1>6. CellPut(ins, bs, chain, p, m, v, bs2)
  <2>1. Hop(bs, ins[p].first_block, m \div Capacity(ins[p].type)) =
          chain[p][m \div Capacity(ins[p].type) + 1]
    <3>1. OnChain(ins, bs, chain[p], p, m)
      BY <1>1, <1>2, <1>4, CellOnChain
    <3> QED
      BY <3>1, Zenon DEF OnChain
  <2> QED
    BY <1>2, <2>1, SMTT(30) DEF MovesLast, CellPut
<1> HIDE DEF v, last
<1>7. BlocksTyped(bs2) /\ Chained(ins, bs2, chain)
  BY <1>1, <1>2, <1>4, <1>5, <1>6, CellWritten
<1>8. ASSUME NEW i \in DOMAIN ins, NEW n \in Nat, n < Room(ins, chain, i)
      PROVE  CellIn(ins, bs2, i, n) = IF i = p /\ n = m THEN v ELSE CellIn(ins, bs, i, n)
  BY <1>1, <1>2, <1>4, <1>5, <1>6, <1>8, CellWritten, SMTT(30)
<1>9. Chained(ins2, bs2, chain)
  BY <1>3, <1>7, SizeChanged
<1>10. ASSUME NEW i \in DOMAIN ins
       PROVE  ins2[i].size <= ins[i].size /\ ins2[i].size <= Room(ins2, chain, i)
  <2>1. Room(ins2, chain, i) = Room(ins, chain, i) /\ Room(ins, chain, i) \in Nat
    BY <1>1, <1>3, RoomTyped DEF Room
  <2>2. ins[i].size <= Room(ins, chain, i) /\ ins[i].size \in Nat
    BY <1>1, InodeParts DEF Fits, Room
  <2>3. ins2[i].size = IF i = p THEN ins[p].size - 1 ELSE ins[i].size
    BY <1>3 DEF last
  <2> QED
    BY <1>2, <2>1, <2>2, <2>3
<1>11. Store(ins2, bs2, chain)
  BY <1>3, <1>7, <1>9, <1>10 DEF Store, Fits, Room
<1>12. ASSUME NEW i \in DOMAIN ins, NEW n \in Nat, n < ins2[i].size
       PROVE  CellIn(ins2, bs2, i, n) = CellIn(ins, bs, i, IF i = p /\ n = m THEN last ELSE n)
  <2>1. n < Room(ins, chain, i)
    <3>1. ins[i].size <= Room(ins, chain, i) /\ ins[i].size \in Nat /\ Room(ins, chain, i) \in Nat
      BY <1>1, InodeParts, RoomTyped DEF Fits, Room
    <3>2. ins2[i].size \in Nat /\ ins2[i].size <= ins[i].size
      BY <1>3, <1>10, InodeParts, SMTT(30)
    <3> QED
      BY <1>12, <3>1, <3>2
  <2>2. CellIn(ins2, bs2, i, n) = CellIn(ins, bs2, i, n)
    BY <1>3 DEF CellIn
  <2> QED
    BY <1>8, <2>1, <2>2 DEF v
<1> QED
  BY <1>11, <1>12 DEF last

-----------------------------------------------------------------------------
(* fs_write: the chain grows to its new length, then the bytes are copied. *)

LEMMA AppendBlockTyped ==
  ASSUME NEW bs \in Seq(Block), NEW first, NEW type \in {1, 2}
  PROVE  append_block(bs, first, type, 0) \in Seq(Block)
<1> DEFINE app  == Append(bs, FreshBlock(type, 0))
           tail == Hop(bs, first, ChainLength(bs, first) - 1)
           r    == [app[tail] EXCEPT !.next = Len(app)]
<1>1. app \in Seq(Block) /\ Len(app) \in Nat /\ DOMAIN app = 1 .. Len(app)
  BY FreshTyped
<1>2. append_block(bs, first, type, 0) = IF first = 0 THEN app ELSE [app EXCEPT ![tail] = r]
  BY DEF append_block
<1> HIDE DEF app, tail
<1>3. CASE tail \in 1 .. Len(app)
  <2>1. r \in Block
    BY <1>1, <1>3, SetNext
  <2> HIDE DEF r
  <2>2. [app EXCEPT ![tail] = r] \in Seq(Block)
    BY <1>1, <1>3, <2>1, ExceptTyped
  <2> QED
    BY <1>1, <1>2, <2>2
<1>4. CASE tail \notin 1 .. Len(app)
  <2> HIDE DEF r
  <2>1. [app EXCEPT ![tail] = r] = app
    BY <1>1, <1>4
  <2> QED
    BY <1>1, <1>2, <2>1
<1> QED
  BY <1>3, <1>4

\* fs_write's loop: n appends, the first of which may begin the chain.
Appends(h, bs, old, first, n) ==
  h = [j \in 0 .. n |-> IF j = 0 THEN bs
                        ELSE append_block(h[j - 1], IF j = 1 THEN old ELSE first, 1, 0)]

LEMMA AppendsExist ==
  ASSUME NEW bs \in Seq(Block), NEW old, NEW first, NEW n \in Nat
  PROVE  \E h : Appends(h, bs, old, first, n)
<1> DEFINE T    == Seq(Block)
           step == [j \in 1 .. n |-> [x \in T |->
                      append_block(x, IF j = 1 THEN old ELSE first, 1, 0)]]
<1>1. step \in [1 .. n -> [T -> T]]
  BY AppendBlockTyped
<1>2. \A j \in 1 .. n, x \in T :
        step[j][x] = append_block(x, IF j = 1 THEN old ELSE first, 1, 0)
  OBVIOUS
<1>3. bs \in T
  OBVIOUS
<1> HIDE DEF step, T
<1>4. PICK g \in [0 .. n -> T] : g[0] = bs /\ \A j \in 1 .. n : g[j] = step[j][g[j - 1]]
  BY <1>1, <1>3, Iterate, SMTT(30)
<1>5. ASSUME NEW j \in 0 .. n
      PROVE  g[j] = IF j = 0 THEN bs
                    ELSE append_block(g[j - 1], IF j = 1 THEN old ELSE first, 1, 0)
  <2>1. CASE j = 0
    BY <1>4, <2>1
  <2>2. CASE j # 0
    <3>1. j \in 1 .. n /\ j - 1 \in 0 .. n
      BY <2>2
    <3>2. g[j - 1] \in T /\ g[j] = step[j][g[j - 1]]
      BY <1>4, <3>1
    <3> QED
      BY <1>2, <2>2, <3>1, <3>2
  <2> QED
    BY <2>1, <2>2
<1> QED
  BY <1>4, <1>5, SMTT(30) DEF Appends

LEMMA AppendsStep ==
  ASSUME NEW h, NEW bs, NEW old, NEW first, NEW n \in Nat, Appends(h, bs, old, first, n)
  PROVE  /\ h[0] = bs
         /\ \A j \in 0 .. n - 1 :
              h[j + 1] = append_block(h[j], IF j = 0 THEN old ELSE first, 1, 0)
<1>1. h[0] = bs
  BY DEF Appends
<1>2. ASSUME NEW j \in 0 .. n - 1
      PROVE  h[j + 1] = append_block(h[j], IF j = 0 THEN old ELSE first, 1, 0)
  <2>1. j + 1 \in 0 .. n /\ j + 1 # 0 /\ (j + 1) - 1 = j /\ (j + 1 = 1 <=> j = 0)
    OBVIOUS
  <2> QED
    BY <2>1 DEF Appends
<1> QED
  BY <1>1, <1>2

\* The chain of p has n more blocks than in bs; whatever was there is.
GrownBy(ins, bs, chain, p, ins2, mem, long, n) ==
  /\ BlocksTyped(mem) /\ Len(mem) = Len(bs) + n /\ Chained(ins2, mem, long)
  /\ Len(long[p]) = Len(chain[p]) + n
  /\ \A i \in DOMAIN ins : i # p => Len(long[i]) = Len(chain[i])
  /\ \A i \in DOMAIN ins, k \in Nat :
       k < Room(ins, chain, i) => CellIn(ins2, mem, i, k) = CellIn(ins, bs, i, k)

LEMMA GrowOnce ==
  ASSUME NEW ins, NEW bs, NEW chain, NEW p \in DOMAIN ins, NEW n \in Nat,
         Chained(ins, bs, chain), Len(bs) \in Nat,
         NEW ins2, NEW mem, NEW long, GrownBy(ins, bs, chain, p, ins2, mem, long, n),
         NEW ins3, NEW new, NEW longer, OneBlockMore(ins2, mem, long, p, ins3, new, longer),
         ins2[p].type \in {1, 2}, DOMAIN ins2 = DOMAIN ins,
         \A i \in DOMAIN ins : ins2[i].type = ins[i].type
  PROVE  GrownBy(ins, bs, chain, p, ins3, new, longer, n + 1)
<1>1. BlocksTyped(mem) /\ Chained(ins2, mem, long) /\ Len(mem) = Len(bs) + n
  BY DEF GrownBy
<1>2. /\ BlocksTyped(new) /\ Linked(mem, new, long[p], ins2[p].type)
      /\ Chained(ins3, new, longer)
      /\ Len(longer[p]) = Len(long[p]) + 1
      /\ \A i \in DOMAIN ins2 : i # p => longer[i] = long[i]
  BY <1>1, ChainGrows
<1>3. Len(new) = Len(bs) + (n + 1)
  <2>1. Len(new) = Len(mem) + 1
    BY <1>2 DEF Linked
  <2> QED
    BY <1>1, <2>1
<1>4. Len(longer[p]) = Len(chain[p]) + (n + 1) /\ Len(chain[p]) \in Nat
  <2>1. Len(long[p]) = Len(chain[p]) + n /\ Len(chain[p]) \in Nat
    BY ChainedParts DEF GrownBy
  <2>2. Len(longer[p]) = Len(long[p]) + 1
    BY <1>2
  <2>3. \A a \in Nat : (a + n) + 1 = a + (n + 1)
    OBVIOUS
  <2> QED
    BY <2>1, <2>2, <2>3
<1>5. ASSUME NEW i \in DOMAIN ins, i # p
      PROVE  Len(longer[i]) = Len(chain[i])
  BY <1>2, <1>5 DEF GrownBy
<1>6. ASSUME NEW i \in DOMAIN ins, NEW k \in Nat, k < Room(ins, chain, i)
      PROVE  CellIn(ins3, new, i, k) = CellIn(ins, bs, i, k)
  <2>1. CellIn(ins2, mem, i, k) = CellIn(ins, bs, i, k)
    BY <1>6 DEF GrownBy
  <2>2. /\ Room(ins, chain, i) \in Nat /\ Room(ins2, long, i) \in Nat
        /\ Room(ins, chain, i) <= Room(ins2, long, i)
    <3>1. Len(chain[i]) \in Nat /\ Len(long[i]) \in Nat /\ Capacity(ins[i].type) \in Nat
      BY <1>1, ChainedParts, CapacityPositive, SMTT(30)
    <3>2. Len(chain[i]) <= Len(long[i])
      BY <1>5, <3>1, SMTT(30) DEF GrownBy
    <3>3. \A a, b, c \in Nat : b <= c => a * b <= a * c /\ a * b \in Nat /\ a * c \in Nat
      BY SMTT(30)
    <3> QED
      BY <3>1, <3>2, <3>3 DEF Room
  <2>3. /\ Room(ins3, longer, i) =
             Room(ins2, long, i) + (IF i = p THEN Capacity(ins2[p].type) ELSE 0)
        /\ k < Room(ins3, longer, i) =>
             CellIn(ins3, new, i, k) = IF k < Room(ins2, long, i) THEN CellIn(ins2, mem, i, k)
                                       ELSE Unwritten(ins2[p].type)
    BY <1>1, CellsGrow
  <2>4. k < Room(ins2, long, i) /\ k < Room(ins3, longer, i)
    <3>1. Capacity(ins2[p].type) \in Nat
      BY CapacityPositive
    <3> QED
      BY <1>6, <2>2, <2>3, <3>1
  <2> QED
    BY <2>1, <2>3, <2>4
<1> QED
  BY <1>2, <1>3, <1>4, <1>5, <1>6 DEF GrownBy

LEMMA ChainGrowsTo ==
  ASSUME NEW ins, NEW bs, NEW chain, Store(ins, bs, chain),
         NEW p \in DOMAIN ins, ins[p].type = 1, NEW n \in Nat,
         NEW first, first = (IF ins[p].first_block = 0 /\ n > 0 THEN Len(bs) + 1
                             ELSE ins[p].first_block),
         NEW h, Appends(h, bs, ins[p].first_block, first, n)
  PROVE  \E long : GrownBy(ins, bs, chain, p, EditInode(ins, p, ins[p].size, first), h[n], long, n)
<1> DEFINE F(j)  == IF j = 0 THEN ins[p].first_block ELSE first
           In(j) == EditInode(ins, p, ins[p].size, F(j))
           G(j)  == \E long : GrownBy(ins, bs, chain, p, In(j), h[j], long, j)
           S     == {j \in Nat : j <= n => G(j)}
<1>1. /\ ins \in Seq(Inode) /\ BlocksTyped(bs) /\ Chained(ins, bs, chain) /\ Len(bs) \in Nat
      /\ ins[p].size \in Nat /\ ins[p].first_block \in Nat
  BY InodeParts DEF Store, BlocksTyped
<1>2. \A j : F(j) \in Nat
  BY <1>1
<1>3. ASSUME NEW j
      PROVE  /\ DOMAIN In(j) = DOMAIN ins /\ In(j)[p].first_block = F(j)
             /\ \A i \in DOMAIN ins :
                  /\ In(j)[i].type = ins[i].type
                  /\ i # p => In(j)[i].first_block = ins[i].first_block
  <2>1. F(j) \in Nat
    BY <1>2
  <2> HIDE DEF F
  <2> QED
    BY <1>1, <2>1, EditInodeParts, SMTT(30)
<1>4. /\ h[0] = bs
      /\ \A j \in 0 .. n - 1 : h[j + 1] = append_block(h[j], F(j), 1, 0)
  BY AppendsStep
<1>5. ASSUME NEW j \in 0 .. n - 1
      PROVE  F(j + 1) = IF F(j) = 0 THEN Len(bs) + j + 1 ELSE F(j)
  <2>1. j + 1 # 0 /\ n > 0
    OBVIOUS
  <2>2. CASE j = 0
    BY <1>1, <2>1, <2>2
  <2>3. CASE j # 0
    <3>1. F(j) = first /\ F(j + 1) = first /\ first # 0
      BY <1>1, <2>1, <2>3
    <3> QED
      BY <3>1
  <2> QED
    BY <2>2, <2>3
<1> HIDE DEF In, F
<1>6. 0 \in S
  <2>1. \A i \in DOMAIN ins : In(0)[i].type = ins[i].type /\ In(0)[i].first_block = ins[i].first_block
    BY <1>3 DEF F
  <2>2. Chained(In(0), bs, chain)
    BY <1>1, <1>3, <2>1, SizeChanged, SMTT(30)
  <2>3. \A i \in DOMAIN ins, k \in Nat : CellIn(In(0), bs, i, k) = CellIn(ins, bs, i, k)
    BY <2>1 DEF CellIn
  <2>4. Len(chain[p]) \in Nat
    BY <1>1, ChainedParts
  <2>5. GrownBy(ins, bs, chain, p, In(0), h[0], chain, 0)
    BY <1>1, <1>4, <2>2, <2>3, <2>4 DEF GrownBy
  <2>6. G(0)
    BY <2>5
  <2> QED
    BY <2>6
<1>7. ASSUME NEW j \in Nat, j \in S
      PROVE  j + 1 \in S
  <2> SUFFICES ASSUME j + 1 <= n PROVE G(j + 1)
    OBVIOUS
  <2>1. PICK long : GrownBy(ins, bs, chain, p, In(j), h[j], long, j)
    BY <1>7
  <2>2. Len(h[j]) = Len(bs) + j /\ j \in 0 .. n - 1
    BY <2>1 DEF GrownBy
  <2> DEFINE longer == [long EXCEPT ![p] = Append(long[p], Len(h[j]) + 1)]
  <2>3. OneBlockMore(In(j), h[j], long, p, In(j + 1), h[j + 1], longer)
    <3>1. h[j + 1] = append_block(h[j], In(j)[p].first_block, In(j)[p].type, 0)
      BY <1>3, <1>4, <2>2
    <3>2. In(j + 1)[p].first_block =
            IF In(j)[p].first_block = 0 THEN Len(h[j]) + 1 ELSE In(j)[p].first_block
      BY <1>3, <1>5, <2>2, SMTT(30)
    <3>3. /\ DOMAIN In(j + 1) = DOMAIN In(j)
          /\ \A i \in DOMAIN In(j) :
               /\ In(j + 1)[i].type = In(j)[i].type
               /\ i # p => In(j + 1)[i].first_block = In(j)[i].first_block
      BY <1>3
    <3> QED
      BY <3>1, <3>2, <3>3 DEF OneBlockMore
  <2> HIDE DEF longer
  <2>4. In(j)[p].type \in {1, 2} /\ DOMAIN In(j) = DOMAIN ins
        /\ \A i \in DOMAIN ins : In(j)[i].type = ins[i].type
    BY <1>3
  <2>5. GrownBy(ins, bs, chain, p, In(j + 1), h[j + 1], longer, j + 1)
    BY <1>1, <2>1, <2>3, <2>4, GrowOnce
  <2> QED
    BY <2>5
<1> HIDE DEF S
<1>8. n \in S
  BY <1>6, <1>7, InductionOnNat
<1>9. F(n) = first
  BY DEF F
<1> QED
  BY <1>8, <1>9 DEF S, In

\* The positions of src that land on the byte k of the block b.
Here(mem, first, offset, src, b, k) ==
  {i \in {i \in offset .. offset + Len(src) - 1 : Hop(mem, first, i \div BlockBytes) = b} :
     i % BlockBytes = k}

PlacedData(mem, first, offset, src, b) ==
  [k \in DOMAIN mem[b].data |->
     IF Here(mem, first, offset, src, b, k) = {} THEN mem[b].data[k]
     ELSE src[Max(Here(mem, first, offset, src, b, k)) - offset + 1]]

LEMMA MaxOfOne ==
  ASSUME NEW a \in Int
  PROVE  Max({a}) = a
<1>1. {a, a} = {a}
  OBVIOUS
<1> QED
  BY <1>1, MaxOfTwo

\* The bytes src fit into the chain of the file p, from offset on.
SrcFits(ins, mem, long, p, offset, src) ==
  /\ BlocksTyped(mem) /\ Chained(ins, mem, long) /\ p \in DOMAIN ins /\ ins[p].type = 1
  /\ offset \in Nat /\ src \in Seq(Bytes) /\ offset + Len(src) <= Room(ins, long, p)

\* The positions written lie in the blocks of the chain.
LEMMA PositionOnChain ==
  ASSUME NEW ins, NEW mem, NEW long, NEW p, NEW offset, NEW src,
         SrcFits(ins, mem, long, p, offset, src), NEW i \in offset .. offset + Len(src) - 1
  PROVE  /\ i \div BlockBytes + 1 \in 1 .. Len(long[p])
         /\ Hop(mem, ins[p].first_block, i \div BlockBytes) = long[p][i \div BlockBytes + 1]
<1>0. /\ BlocksTyped(mem) /\ Chained(ins, mem, long) /\ p \in DOMAIN ins /\ ins[p].type = 1
      /\ offset \in Nat /\ src \in Seq(Bytes) /\ offset + Len(src) <= Room(ins, long, p)
  BY DEF SrcFits
<1>1. Capacity(ins[p].type) = BlockBytes /\ BlockBytes \in Nat \ {0} /\ Len(src) \in Nat
  BY <1>0, FileSystemAssumption DEF Capacity
<1>2. Room(ins, long, p) \in Nat
  BY <1>0, RoomTyped
<1>3. i \in Nat /\ i < Room(ins, long, p)
  BY <1>0, <1>1, <1>2
<1>4. /\ i \div Capacity(ins[p].type) + 1 \in 1 .. Len(long[p])
      /\ Hop(mem, ins[p].first_block, i \div Capacity(ins[p].type)) =
           long[p][i \div Capacity(ins[p].type) + 1]
  <2>1. OnChain(ins, mem, long[p], p, i)
    BY <1>0, <1>3, CellOnChain
  <2> QED
    BY <2>1, Zenon DEF OnChain
<1>5. /\ i \div BlockBytes + 1 \in 1 .. Len(long[p])
      /\ Hop(mem, ins[p].first_block, i \div BlockBytes) = long[p][i \div BlockBytes + 1]
  BY <1>1, <1>4, Zenon
<1> QED
  BY <1>5

LEMMA HereNone ==
  ASSUME NEW ins, NEW mem, NEW long, NEW p, NEW offset, NEW src,
         SrcFits(ins, mem, long, p, offset, src),
         NEW b, \A l \in 1 .. Len(long[p]) : long[p][l] # b, NEW k
  PROVE  Here(mem, ins[p].first_block, offset, src, b, k) = {}
<1>0. /\ BlocksTyped(mem) /\ Chained(ins, mem, long) /\ p \in DOMAIN ins /\ ins[p].type = 1
      /\ offset \in Nat /\ src \in Seq(Bytes) /\ offset + Len(src) <= Room(ins, long, p)
  BY DEF SrcFits
<1>1. ASSUME NEW i \in offset .. offset + Len(src) - 1
      PROVE  Hop(mem, ins[p].first_block, i \div BlockBytes) # b
  <2>1. /\ i \div BlockBytes + 1 \in 1 .. Len(long[p])
        /\ Hop(mem, ins[p].first_block, i \div BlockBytes) = long[p][i \div BlockBytes + 1]
    BY PositionOnChain
  <2> QED
    BY <2>1
<1> QED
  BY <1>1 DEF Here

\* The position of the byte k of the block q of a file.
Position(q, k) == q * BlockBytes + k

\* It alone can land there.
LandsAlone(mem, first, offset, src, b, q, k) ==
  \A i : i \in Here(mem, first, offset, src, b, k) <=>
         i \in offset .. offset + Len(src) - 1 /\ i = Position(q, k)

LEMMA HereIs ==
  ASSUME NEW ins, NEW mem, NEW long, NEW p, NEW offset, NEW src,
         SrcFits(ins, mem, long, p, offset, src),
         NEW q \in 0 .. Len(long[p]) - 1, NEW k \in 0 .. BlockBytes - 1
  PROVE  LandsAlone(mem, ins[p].first_block, offset, src, long[p][q + 1], q, k)
<1>0. /\ BlocksTyped(mem) /\ Chained(ins, mem, long) /\ p \in DOMAIN ins /\ ins[p].type = 1
      /\ offset \in Nat /\ src \in Seq(Bytes) /\ offset + Len(src) <= Room(ins, long, p)
  BY DEF SrcFits
<1> USE DEF Position, LandsAlone
<1>1. BlockBytes \in Nat \ {0} /\ q \in Int /\ q + 1 \in 1 .. Len(long[p])
  BY <1>0, ChainedParts, FileSystemAssumption
<1>2. (q * BlockBytes + k) \div BlockBytes = q /\ (q * BlockBytes + k) % BlockBytes = k
  BY <1>1, DivModUnique
<1>3. ASSUME NEW i \in offset .. offset + Len(src) - 1
      PROVE  /\ Hop(mem, ins[p].first_block, i \div BlockBytes) = long[p][q + 1]
             /\ i % BlockBytes = k
             <=> i = q * BlockBytes + k
  <2>1. /\ i \div BlockBytes \in Nat /\ i % BlockBytes \in 0 .. BlockBytes - 1
        /\ i = (i \div BlockBytes) * BlockBytes + (i % BlockBytes)
    <3>1. i \in Int /\ i \in Nat
      BY <1>0
    <3> QED
      BY <1>1, <3>1, DivMod, Zenon
  <2>5. /\ i \div BlockBytes + 1 \in 1 .. Len(long[p])
        /\ Hop(mem, ins[p].first_block, i \div BlockBytes) = long[p][i \div BlockBytes + 1]
    BY PositionOnChain, SMTT(60)
  <2>2. ASSUME long[p][i \div BlockBytes + 1] = long[p][q + 1]
        PROVE  i \div BlockBytes = q
    <3>1. i \div BlockBytes + 1 = q + 1
      BY <1>0, <1>1, <2>2, <2>5, SMTT(30) DEF Chained
    <3> QED
      BY <1>1, <2>1, <3>1
  <2>3. ASSUME i \div BlockBytes = q, i % BlockBytes = k
        PROVE  i = q * BlockBytes + k
    BY <2>1, <2>3
  <2> QED
    BY <1>2, <2>1, <2>2, <2>3, <2>5
<1> QED
  BY <1>3 DEF Here

LEMMA PlaceParts ==
  ASSUME NEW mem, BlocksTyped(mem), NEW first, NEW offset, NEW src,
         \A b \in 1 .. Len(mem) : PlacedData(mem, first, offset, src, b) \in DirData \cup FileData
  PROVE  /\ BlocksTyped(CopyIn(mem, first, offset, src))
         /\ Len(CopyIn(mem, first, offset, src)) = Len(mem)
         /\ \A b \in 1 .. Len(mem) :
              /\ CopyIn(mem, first, offset, src)[b].next = mem[b].next
              /\ CopyIn(mem, first, offset, src)[b].data = PlacedData(mem, first, offset, src, b)
<1> DEFINE D(b)   == PlacedData(mem, first, offset, src, b)
           new    == [b \in DOMAIN mem |-> [mem[b] EXCEPT !.data = D(b)]]
           copied == CopyIn(mem, first, offset, src)
<1>1. copied = new
  BY DEF CopyIn, Place, PlacedData, Here
<1>2. mem \in Seq(Block) /\ Len(mem) \in Nat /\ DOMAIN mem = 1 .. Len(mem)
  BY DEF BlocksTyped
<1> HIDE DEF D, copied
<1>3. ASSUME NEW b \in 1 .. Len(mem)
      PROVE  /\ [mem[b] EXCEPT !.data = D(b)] \in Block
             /\ [mem[b] EXCEPT !.data = D(b)].next = mem[b].next
             /\ [mem[b] EXCEPT !.data = D(b)].data = D(b)
  <2>1. mem[b] \in Block /\ D(b) \in DirData \cup FileData
    BY <1>2 DEF D
  <2> QED
    BY <2>1 DEF Block
<1>4. new \in Seq(Block) /\ Len(new) = Len(mem)
  BY <1>2, <1>3, SMTT(30)
<1>5. \A b \in 1 .. Len(mem) : new[b].next = mem[b].next /\ new[b].data = D(b)
  BY <1>2, <1>3
<1> QED
  BY <1>1, <1>2, <1>4, <1>5 DEF BlocksTyped, copied, D

\* What fs_write's copy leaves in a block of the chain, and in any other.
LEMMA CopiedByte ==
  ASSUME NEW ins, NEW mem, NEW long, NEW p, NEW offset, NEW src,
         SrcFits(ins, mem, long, p, offset, src), NEW q \in 0 .. Len(long[p]) - 1
  PROVE  /\ PlacedData(mem, ins[p].first_block, offset, src, long[p][q + 1]) \in FileData
         /\ \A k \in 0 .. BlockBytes - 1 :
              PlacedData(mem, ins[p].first_block, offset, src, long[p][q + 1])[k] =
                IF Position(q, k) \in offset .. offset + Len(src) - 1
                THEN src[Position(q, k) - offset + 1]
                ELSE mem[long[p][q + 1]].data[k]
<1>0. /\ BlocksTyped(mem) /\ Chained(ins, mem, long) /\ p \in DOMAIN ins /\ ins[p].type = 1
      /\ offset \in Nat /\ src \in Seq(Bytes) /\ offset + Len(src) <= Room(ins, long, p)
  BY DEF SrcFits
<1> DEFINE old  == mem[long[p][q + 1]].data
           D    == PlacedData(mem, ins[p].first_block, offset, src, long[p][q + 1])
           H(k) == Here(mem, ins[p].first_block, offset, src, long[p][q + 1], k)
           n(k) == Position(q, k)
           R    == offset .. offset + Len(src) - 1
<1>1. BlockBytes \in Nat \ {0} /\ Len(src) \in Nat /\ \A k \in 1 .. Len(src) : src[k] \in Bytes
  BY <1>0, FileSystemAssumption
<1>2. old \in FileData /\ DOMAIN old = 0 .. BlockBytes - 1
  <2>1. q + 1 \in 1 .. Len(long[p])
    BY <1>0, ChainedParts
  <2>2. old \in DataOf(ins[p].type)
    BY <1>0, <2>1, ChainedParts
  <2>3. old \in FileData
    BY <1>0, <2>2 DEF DataOf
  <2> QED
    BY <2>3 DEF FileData
<1>3. D = [k \in 0 .. BlockBytes - 1 |-> IF H(k) = {} THEN old[k] ELSE src[Max(H(k)) - offset + 1]]
  BY <1>2 DEF PlacedData
<1>4. ASSUME NEW k \in 0 .. BlockBytes - 1
      PROVE  H(k) = {n(k)} \cap R /\ n(k) \in Int
  <2> HIDE DEF n, R, H
  <2>1. \A i : i \in H(k) <=> i \in R /\ i = n(k)
    <3>1. LandsAlone(mem, ins[p].first_block, offset, src, long[p][q + 1], q, k)
      BY HereIs, Zenon
    <3> QED
      BY <3>1, Zenon DEF LandsAlone, n, R, H
  <2>2. n(k) \in Int
    BY <1>0, <1>1, ChainedParts DEF Position, n
  <2> QED
    BY <2>1, <2>2
<1> HIDE DEF D, H
<1>5. ASSUME NEW k \in 0 .. BlockBytes - 1
      PROVE  D[k] = IF n(k) \in R THEN src[n(k) - offset + 1] ELSE old[k]
  <2>1. D[k] = IF H(k) = {} THEN old[k] ELSE src[Max(H(k)) - offset + 1]
    BY <1>3
  <2>2. Max({n(k)}) = n(k) /\ H(k) = {n(k)} \cap R
    BY <1>4, MaxOfOne
  <2> HIDE DEF n, R
  <2>3. CASE n(k) \in R
    <3>1. H(k) = {n(k)} /\ H(k) # {}
      BY <2>2, <2>3
    <3> QED
      BY <2>1, <2>2, <2>3, <3>1
  <2>4. CASE n(k) \notin R
    <3>1. H(k) = {}
      BY <2>2, <2>4
    <3> QED
      BY <2>1, <2>4, <3>1
  <2> QED
    BY <2>3, <2>4
<1>6. ASSUME NEW k \in 0 .. BlockBytes - 1
      PROVE  D[k] \in Bytes
  <2>1. CASE n(k) \in R
    <3>1. n(k) - offset + 1 \in 1 .. Len(src)
      BY <1>0, <1>1, <1>4, <2>1, SMTT(30)
    <3>2. D[k] = src[n(k) - offset + 1]
      BY <1>5, <2>1
    <3> QED
      BY <1>1, <3>1, <3>2
  <2>2. CASE n(k) \notin R
    <3>1. D[k] = old[k]
      BY <1>5, <2>2
    <3> QED
      BY <1>2, <3>1 DEF FileData
  <2> QED
    BY <2>1, <2>2
<1>7. D \in FileData
  BY <1>3, <1>6 DEF FileData
<1> QED
  BY <1>5, <1>7 DEF D

LEMMA OtherData ==
  ASSUME NEW ins, NEW mem, NEW long, NEW p, NEW offset, NEW src,
         SrcFits(ins, mem, long, p, offset, src),
         NEW b \in 1 .. Len(mem), \A l \in 1 .. Len(long[p]) : long[p][l] # b
  PROVE  PlacedData(mem, ins[p].first_block, offset, src, b) = mem[b].data
<1>0. /\ BlocksTyped(mem) /\ Chained(ins, mem, long) /\ p \in DOMAIN ins /\ ins[p].type = 1
      /\ offset \in Nat /\ src \in Seq(Bytes) /\ offset + Len(src) <= Room(ins, long, p)
  BY DEF SrcFits
<1>1. mem[b].data \in DirData \cup FileData
  BY <1>0, BlockParts, SMTT(30) DEF BlocksTyped
<1>2. mem[b].data = [k \in DOMAIN mem[b].data |-> mem[b].data[k]]
  BY <1>1 DEF DirData, FileData
<1>3. \A k : Here(mem, ins[p].first_block, offset, src, b, k) = {}
  BY HereNone
<1> QED
  BY <1>2, <1>3, Zenon DEF PlacedData

\* fs_write's copy changes the bytes from offset on, as many as src has.
LEMMA BytesCopied ==
  ASSUME NEW ins, NEW mem, NEW long, NEW p, NEW offset, NEW src,
         SrcFits(ins, mem, long, p, offset, src)
  PROVE  /\ BlocksTyped(CopyIn(mem, ins[p].first_block, offset, src))
         /\ Len(CopyIn(mem, ins[p].first_block, offset, src)) = Len(mem)
         /\ Chained(ins, CopyIn(mem, ins[p].first_block, offset, src), long)
         /\ \A i \in DOMAIN ins, n \in Nat :
              n < Room(ins, long, i) =>
                CellIn(ins, CopyIn(mem, ins[p].first_block, offset, src), i, n) =
                  IF i = p /\ n \in offset .. offset + Len(src) - 1 THEN src[n - offset + 1]
                  ELSE CellIn(ins, mem, i, n)
<1> DEFINE bs2    == CopyIn(mem, ins[p].first_block, offset, src)
           D(b)   == PlacedData(mem, ins[p].first_block, offset, src, b)
           R      == offset .. offset + Len(src) - 1
           old(q) == mem[long[p][q + 1]].data
<1>1. /\ BlocksTyped(mem) /\ Chained(ins, mem, long) /\ p \in DOMAIN ins /\ ins[p].type = 1
      /\ Len(mem) \in Nat /\ Len(long[p]) \in Nat
  BY ChainedParts DEF SrcFits, BlocksTyped
<1>2. ASSUME NEW q \in 0 .. Len(long[p]) - 1
      PROVE  /\ D(long[p][q + 1]) \in FileData
             /\ \A k \in 0 .. BlockBytes - 1 :
                  D(long[p][q + 1])[k] =
                    IF Position(q, k) \in R THEN src[Position(q, k) - offset + 1] ELSE old(q)[k]
  BY CopiedByte
<1>3. ASSUME NEW b \in 1 .. Len(mem), \A l \in 1 .. Len(long[p]) : long[p][l] # b
      PROVE  D(b) = mem[b].data
  BY <1>3, OtherData
<1> HIDE DEF D
<1>4. ASSUME NEW l \in 1 .. Len(long[p])
      PROVE  D(long[p][l]) \in FileData
  <2>1. l - 1 \in 0 .. Len(long[p]) - 1 /\ (l - 1) + 1 = l
    BY <1>1
  <2>2. D(long[p][(l - 1) + 1]) \in FileData
    BY <1>2, <2>1
  <2> QED
    BY <2>1, <2>2
<1>5. ASSUME NEW b \in 1 .. Len(mem)
      PROVE  D(b) \in DirData \cup FileData
  <2>1. CASE \E l \in 1 .. Len(long[p]) : long[p][l] = b
    BY <1>4, <2>1
  <2>2. CASE \A l \in 1 .. Len(long[p]) : long[p][l] # b
    <3>1. mem[b].data \in DirData \cup FileData
      BY <1>1, BlockParts DEF BlocksTyped
    <3> QED
      BY <1>3, <2>2, <3>1
  <2> QED
    BY <2>1, <2>2
<1>6. /\ BlocksTyped(bs2) /\ Len(bs2) = Len(mem)
      /\ \A b \in 1 .. Len(mem) : bs2[b].next = mem[b].next /\ bs2[b].data = D(b)
  <2>1. \A b \in 1 .. Len(mem) :
          PlacedData(mem, ins[p].first_block, offset, src, b) \in DirData \cup FileData
    BY <1>5 DEF D
  <2> QED
    BY <1>1, <2>1, PlaceParts DEF D
<1> HIDE DEF bs2
<1>7. ASSUME NEW i \in DOMAIN ins, i # p, NEW l \in 1 .. Len(long[i])
      PROVE  bs2[long[i][l]].data = mem[long[i][l]].data /\ long[i][l] \in 1 .. Len(mem)
  <2>1. long[i][l] \in 1 .. Len(mem)
    BY <1>1, ChainedParts
  <2>2. \A k \in 1 .. Len(long[p]) : long[p][k] # long[i][l]
    BY <1>1, <1>7 DEF Chained
  <2> QED
    BY <1>3, <1>6, <2>1, <2>2
<1>8. Chained(ins, bs2, long)
  <2>1. ASSUME NEW i \in DOMAIN ins, NEW l \in 1 .. Len(long[i])
        PROVE  bs2[long[i][l]].data \in DataOf(ins[i].type)
    <3>1. long[i][l] \in 1 .. Len(mem) /\ mem[long[i][l]].data \in DataOf(ins[i].type)
      BY <1>1, ChainedParts
    <3>2. CASE i = p
      BY <1>1, <1>4, <1>6, <3>1, <3>2, SMTT(30) DEF DataOf
    <3>3. CASE i # p
      BY <1>7, <3>1, <3>3
    <3> QED
      BY <3>2, <3>3
  <2> QED
    BY <1>1, <1>6, <2>1, DataWritten
<1>9. ASSUME NEW i \in DOMAIN ins, NEW n \in Nat, n < Room(ins, long, i)
      PROVE  CellIn(ins, bs2, i, n) = IF i = p /\ n \in R THEN src[n - offset + 1]
                                      ELSE CellIn(ins, mem, i, n)
  <2> DEFINE cap == Capacity(ins[i].type)
             x   == n \div cap
             y   == n % cap
  <2>1. /\ x + 1 \in 1 .. Len(long[i]) /\ long[i][x + 1] \in 1 .. Len(mem)
        /\ y \in 0 .. cap - 1 /\ CellIn(ins, mem, i, n) = mem[long[i][x + 1]].data[y]
    <3>1. OnChain(ins, mem, long[i], i, n)
      BY <1>1, <1>9, CellOnChain
    <3> QED
      BY <3>1, Zenon DEF OnChain
  <2>2. CellIn(ins, bs2, i, n) = bs2[long[i][x + 1]].data[y]
    <3>1. OnChain(ins, bs2, long[i], i, n)
      BY <1>8, <1>9, CellOnChain
    <3> QED
      BY <3>1, Zenon DEF OnChain
  <2>3. x \in Nat /\ n = x * cap + y
    <3>1. n \in Int /\ cap \in Nat \ {0}
      BY CapacityPositive, SMTT(30)
    <3> QED
      BY <3>1, DivMod, Zenon
  <2> HIDE DEF x, y
  <2>4. CASE i = p
    <3>1. cap = BlockBytes
      BY <1>1, <2>4 DEF Capacity
    <3>2. Position(x, y) = n /\ x \in 0 .. Len(long[p]) - 1 /\ y \in 0 .. BlockBytes - 1
      BY <1>1, <2>1, <2>3, <2>4, <3>1 DEF Position
    <3> HIDE DEF cap, R
    <3>3. D(long[p][x + 1])[y] = IF n \in R THEN src[n - offset + 1] ELSE old(x)[y]
      BY <1>2, <3>2, SMTT(30)
    <3> QED
      BY <1>6, <2>1, <2>2, <2>4, <3>3
  <2>5. CASE i # p
    BY <1>7, <2>1, <2>2, <2>5
  <2> QED
    BY <2>4, <2>5, SMTT(30)
<1> QED
  BY <1>6, <1>8, <1>9 DEF bs2

LEMMA BlocksForHolds ==
  ASSUME NEW end \in Nat
  PROVE  BlocksFor(end) \in Nat /\ end <= BlockBytes * BlocksFor(end)
<1> DEFINE a == end + BlockBytes - 1
           q == a \div BlockBytes
           r == a % BlockBytes
<1>1. BlockBytes \in Nat \ {0}
  BY FileSystemAssumption
<1>2. a \in Int /\ a \in Nat
  BY <1>1
<1>3. q \in Nat /\ r \in 0 .. BlockBytes - 1 /\ a = q * BlockBytes + r
  <2> HIDE DEF a
  <2> QED
    BY <1>1, <1>2, DivMod, Zenon
<1>4. BlocksFor(end) = q
  BY DEF BlocksFor
<1> HIDE DEF q, r
<1>5. q * BlockBytes = BlockBytes * q /\ q * BlockBytes \in Nat
  BY <1>1, <1>3
<1>6. end <= q * BlockBytes
  BY <1>1, <1>3, <1>5
<1> QED
  BY <1>3, <1>4, <1>5, <1>6

\* fs_write: the appends, the new size, the copy.
FileWritten(ins, bs, p, offset, src, added, first, h, ins2, bs2) ==
  /\ added = Max({0, BlocksFor(offset + Len(src)) - ChainLength(bs, ins[p].first_block)})
  /\ first = IF ins[p].first_block = 0 /\ added > 0 THEN Len(bs) + 1 ELSE ins[p].first_block
  /\ Appends(h, bs, ins[p].first_block, first, added)
  /\ ins2 = EditInode(ins, p, Max({ins[p].size, offset + Len(src)}), first)
  /\ bs2 = CopyIn(h[added], first, offset, src)

LEMMA AddedIs ==
  ASSUME NEW ins, NEW bs, NEW chain, Store(ins, bs, chain), NEW p \in DOMAIN ins,
         ins[p].type = 1, NEW end \in Nat, NEW added,
         added = Max({0, BlocksFor(end) - ChainLength(bs, ins[p].first_block)})
  PROVE  added \in Nat /\ end <= BlockBytes * (Len(chain[p]) + added)
<1> DEFINE need == BlocksFor(end)
           len  == Len(chain[p])
<1>1. ChainLength(bs, ins[p].first_block) = len /\ len \in Nat
  BY ChainedParts, ChainLengthIs, SMTT(30) DEF Store, BlocksTyped
<1>2. need \in Nat /\ end <= BlockBytes * need /\ BlockBytes \in Nat
  BY BlocksForHolds, FileSystemAssumption
<1> HIDE DEF need, len
<1>3. added = IF 0 >= need - len THEN 0 ELSE need - len
  <2>1. added = Max({0, need - len}) /\ need - len \in Int
    BY <1>1, <1>2 DEF need
  <2> QED
    BY <2>1, MaxOfTwo
<1>4. added \in Nat /\ need <= len + added
  BY <1>1, <1>2, <1>3
<1>5. \A a, b, c \in Nat : b <= c => a * b <= a * c /\ a * b \in Nat /\ a * c \in Nat
  BY SMTT(30)
<1>6. BlockBytes * need <= BlockBytes * (len + added) /\ BlockBytes * need \in Nat
      /\ BlockBytes * (len + added) \in Nat
  BY <1>1, <1>2, <1>4, <1>5
<1>7. end <= BlockBytes * (len + added)
  BY <1>2, <1>6
<1> QED
  BY <1>4, <1>7 DEF len

LEMMA BytesWritten ==
  ASSUME NEW ins, NEW bs, NEW chain, Store(ins, bs, chain), NEW p \in DOMAIN ins,
         ins[p].type = 1, NEW offset \in Nat, NEW src \in Seq(Bytes), NEW added, NEW first,
         NEW h, NEW ins2, NEW bs2, FileWritten(ins, bs, p, offset, src, added, first, h, ins2, bs2)
  PROVE  /\ Len(bs2) = Len(bs) + added /\ first \in Nat
         /\ \E chain2 : Store(ins2, bs2, chain2)
         /\ \A i \in DOMAIN ins, n \in Nat :
              n < ins2[i].size =>
                IF i = p /\ n \in offset .. offset + Len(src) - 1
                THEN CellIn(ins2, bs2, i, n) = src[n - offset + 1]
                ELSE n < ins[i].size => CellIn(ins2, bs2, i, n) = CellIn(ins, bs, i, n)
<1> DEFINE end  == offset + Len(src)
           size == ins[p].size
           max  == Max({size, end})
           mem  == h[added]
           mid  == EditInode(ins, p, size, first)
<1>1. /\ ins \in Seq(Inode) /\ BlocksTyped(bs) /\ Chained(ins, bs, chain) /\ Fits(ins, chain)
      /\ Len(bs) \in Nat /\ Len(src) \in Nat
  BY DEF Store, BlocksTyped
<1>2. size \in Nat /\ ins[p].first_block \in Nat /\ end \in Nat /\ Capacity(ins[p].type) = BlockBytes
  BY <1>1, InodeParts DEF Capacity
<1>3. added \in Nat /\ end <= BlockBytes * (Len(chain[p]) + added)
  <2>1. added = Max({0, BlocksFor(end) - ChainLength(bs, ins[p].first_block)})
    BY DEF FileWritten
  <2> HIDE DEF end
  <2> QED
    BY <1>2, <2>1, AddedIs
<1>4. first \in Nat
  BY <1>1, <1>2 DEF FileWritten
<1>5. PICK long : GrownBy(ins, bs, chain, p, mid, mem, long, added)
  <2>1. Appends(h, bs, ins[p].first_block, first, added)
    BY DEF FileWritten
  <2>2. first = IF ins[p].first_block = 0 /\ added > 0 THEN Len(bs) + 1 ELSE ins[p].first_block
    BY DEF FileWritten
  <2> QED
    BY <1>3, <2>1, <2>2, ChainGrowsTo
<1>6. /\ max \in Nat /\ size <= max /\ end <= max /\ (max = size \/ max = end)
  <2>1. max = IF size >= end THEN size ELSE end
    <3>1. size \in Int /\ end \in Int
      BY <1>2
    <3> HIDE DEF size, end
    <3> QED
      BY <3>1, MaxOfTwo
  <2> HIDE DEF max
  <2> QED
    BY <1>2, <2>1
<1> HIDE DEF mid, mem, max, end, size
<1>7. /\ DOMAIN mid = DOMAIN ins
      /\ \A i \in DOMAIN ins :
           /\ mid[i].type = ins[i].type
           /\ mid[i].first_block = IF i = p THEN first ELSE ins[i].first_block
  <2>1. mid = EditInode(ins, p, size, first)
    BY DEF mid
  <2> QED
    BY <1>1, <1>2, <1>4, <2>1, EditInodeParts, SMTT(30)
<1>8. /\ ins2 \in Seq(Inode) /\ DOMAIN ins2 = DOMAIN ins
      /\ \A i \in DOMAIN ins :
           /\ ins2[i].type = ins[i].type
           /\ ins2[i].size = IF i = p THEN max ELSE ins[i].size
           /\ ins2[i].first_block = IF i = p THEN first ELSE ins[i].first_block
  <2>1. ins2 = EditInode(ins, p, max, first)
    BY DEF FileWritten, max, end, size
  <2> QED
    BY <1>1, <1>4, <1>6, <2>1, EditInodeParts, SMTT(30)
<1>9. /\ BlocksTyped(mem) /\ Len(mem) = Len(bs) + added /\ Chained(mid, mem, long)
      /\ Len(long[p]) = Len(chain[p]) + added
      /\ \A i \in DOMAIN ins : i # p => Len(long[i]) = Len(chain[i])
  BY <1>5 DEF GrownBy
<1>10. Chained(ins2, mem, long)
  BY <1>7, <1>8, <1>9, SizeChanged
<1>11. ASSUME NEW i \in DOMAIN ins
       PROVE  /\ Room(ins, chain, i) \in Nat /\ Room(ins2, long, i) \in Nat
              /\ Room(ins, chain, i) <= Room(ins2, long, i)
  <2>1. /\ Len(chain[i]) \in Nat /\ Len(long[i]) \in Nat /\ Capacity(ins[i].type) \in Nat
        /\ Len(chain[p]) \in Nat
    BY <1>1, <1>8, <1>10, ChainedParts, CapacityPositive
  <2>2. Len(chain[i]) <= Len(long[i])
    BY <1>3, <1>9, <2>1, SMTT(30)
  <2>3. \A a, b, c \in Nat : b <= c => a * b <= a * c /\ a * b \in Nat /\ a * c \in Nat
    BY SMTT(30)
  <2>4. /\ Capacity(ins[i].type) * Len(chain[i]) \in Nat /\ Capacity(ins[i].type) * Len(long[i]) \in Nat
        /\ Capacity(ins[i].type) * Len(chain[i]) <= Capacity(ins[i].type) * Len(long[i])
    BY <2>1, <2>2, <2>3
  <2>5. ins2[i].type = ins[i].type
    BY <1>8
  <2> QED
    BY <2>4, <2>5, Zenon DEF Room
<1>12. end <= Room(ins2, long, p)
  BY <1>2, <1>3, <1>8, <1>9 DEF Room
<1>13. SrcFits(ins2, mem, long, p, offset, src)
  BY <1>8, <1>9, <1>10, <1>12, SMTT(30) DEF SrcFits, end
<1>14. bs2 = CopyIn(mem, ins2[p].first_block, offset, src)
  BY <1>8 DEF FileWritten, mem
<1>15. BlocksTyped(bs2) /\ Len(bs2) = Len(mem) /\ Chained(ins2, bs2, long)
  BY <1>13, <1>14, BytesCopied
<1>16. ASSUME NEW i \in DOMAIN ins
       PROVE  /\ ins2[i].size \in Nat /\ ins2[i].size <= Room(ins2, long, i)
              /\ ins[i].size \in Nat /\ ins[i].size <= Room(ins, chain, i)
  <2>1. ins[i].size \in Nat /\ ins[i].size <= Room(ins, chain, i)
    BY <1>1, InodeParts DEF Fits, Room
  <2>2. ins[i].size <= Room(ins2, long, i)
    BY <1>11, <2>1
  <2>3. CASE i = p
    BY <1>6, <1>8, <1>12, <2>1, <2>2, <2>3 DEF size
  <2>4. CASE i # p
    BY <1>8, <2>1, <2>2, <2>4
  <2> QED
    BY <2>3, <2>4
<1>17. Store(ins2, bs2, long)
  BY <1>8, <1>15, <1>16 DEF Store, Fits, Room
<1>18. ASSUME NEW i \in DOMAIN ins, NEW n \in Nat, n < ins2[i].size
       PROVE  IF i = p /\ n \in offset .. offset + Len(src) - 1
              THEN CellIn(ins2, bs2, i, n) = src[n - offset + 1]
              ELSE n < ins[i].size => CellIn(ins2, bs2, i, n) = CellIn(ins, bs, i, n)
  <2>1. n < Room(ins2, long, i) /\ i \in DOMAIN ins2
    BY <1>8, <1>11, <1>16, <1>18, SMTT(30)
  <2>2. CellIn(ins2, bs2, i, n) = IF i = p /\ n \in offset .. offset + Len(src) - 1
                                  THEN src[n - offset + 1] ELSE CellIn(ins2, mem, i, n)
    BY <1>13, <1>14, <2>1, BytesCopied, SMTT(30)
  <2>3. ASSUME n < ins[i].size
        PROVE  CellIn(ins2, mem, i, n) = CellIn(ins, bs, i, n)
    <3>1. n < Room(ins, chain, i)
      BY <1>11, <1>16, <2>3, SMTT(30)
    <3>2. CellIn(mid, mem, i, n) = CellIn(ins, bs, i, n)
      BY <1>5, <3>1 DEF GrownBy
    <3>3. CellIn(ins2, mem, i, n) = CellIn(mid, mem, i, n)
      BY <1>7, <1>8 DEF CellIn
    <3> QED
      BY <3>2, <3>3
  <2> QED
    BY <2>2, <2>3
<1> QED
  BY <1>4, <1>9, <1>15, <1>17, <1>18

-----------------------------------------------------------------------------
(* The new inode of fs_create and fs_init.                                 *)

LEMMA InodeStored ==
  ASSUME NEW ins, NEW bs, NEW chain, Store(ins, bs, chain), NEW type \in {1, 2}
  PROVE  /\ Store(Append(ins, NewInode(type)), bs, WithInode(chain, Len(ins)))
         /\ \A i \in DOMAIN ins, n \in Nat :
              CellIn(Append(ins, NewInode(type)), bs, i, n) = CellIn(ins, bs, i, n)
<1> DEFINE ins2 == Append(ins, NewInode(type))
           wide == WithInode(chain, Len(ins))
<1>1. /\ ins \in Seq(Inode) /\ BlocksTyped(bs) /\ Chained(ins, bs, chain) /\ Fits(ins, chain)
      /\ Len(bs) \in Nat
  BY DEF Store, BlocksTyped
<1>2. /\ ins2 \in Seq(Inode) /\ DOMAIN ins2 = DOMAIN ins \cup {Len(ins) + 1}
      /\ DOMAIN ins = 1 .. Len(ins) /\ Len(ins) \in Nat
      /\ ins2[Len(ins) + 1] = NewInode(type) /\ \A i \in DOMAIN ins : ins2[i] = ins[i]
  <2>1. NewInode(type) \in Inode
    BY DEF NewInode, Inode
  <2> QED
    BY <1>1, <2>1
<1>3. Chained(ins2, bs, wide)
  BY <1>1, InodeAdded
<1>4. ASSUME NEW i \in DOMAIN ins2
      PROVE  ins2[i].size <= Capacity(ins2[i].type) * Len(wide[i])
  <2>1. CASE i = Len(ins) + 1
    <3>1. ins2[i].size = 0 /\ Capacity(ins2[i].type) \in Nat /\ Len(wide[i]) \in Nat
      BY <1>2, <1>3, <2>1, CapacityPositive, ChainedParts DEF NewInode
    <3> HIDE DEF wide
    <3>2. \A a, b \in Nat : 0 <= a * b
      OBVIOUS
    <3> QED
      BY <3>1, <3>2
  <2>2. CASE i \in DOMAIN ins
    <3>1. ins2[i] = ins[i] /\ wide[i] = chain[i]
      BY <1>2, <2>2 DEF WithInode
    <3> QED
      BY <1>1, <2>2, <3>1 DEF Fits
  <2> QED
    BY <1>2, <2>1, <2>2
<1>5. Store(ins2, bs, wide)
  BY <1>1, <1>2, <1>3, <1>4 DEF Store, Fits
<1>6. \A i \in DOMAIN ins, n \in Nat : CellIn(ins2, bs, i, n) = CellIn(ins, bs, i, n)
  BY <1>2 DEF CellIn
<1> QED
  BY <1>5, <1>6
=============================================================================
