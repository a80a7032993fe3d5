----------------------------- MODULE MMU_proofs -----------------------------
(***************************************************************************)
(* Proofs about MMU.tla, for a kernel that does not unmap, which is this   *)
(* kernel, or whose unmaps empty no L3 table.  (An unmap that empties one  *)
(* gives back a frame that is still linked; see NoDescriptorToFreeFrame.)  *)
(***************************************************************************)
EXTENDS MMU, NumberLemmas, FiniteSetTheorems

\* The frames by what they are used as: T2 and T3 are the L2 and L3 tables,
\* av is free, dt belongs to other callers.  Linked says that a descriptor of
\* a table in ts leads to each table in kids, and to nothing else; Once, that
\* no two do.
Linked(m, ts, kids) ==
  /\ \A t \in ts, i \in Indices :
       Valid(m[t][i]) => m[t][i].kind = "table" /\ m[t][i].pa \in kids
  /\ \A k \in kids : \E t \in ts, i \in Indices : Valid(m[t][i]) /\ m[t][i].pa = k

Once(m, ts) ==
  \A t, u \in ts, i, j \in Indices :
    Valid(m[t][i]) /\ Valid(m[u][j]) /\ m[t][i].pa = m[u][j].pa => t = u /\ i = j

Leaves(m, ts) ==
  \A t \in ts, i \in Indices : Valid(m[t][i]) => m[t][i].kind \in Kinds

Parts(l1, T2, T3, av, dt) ==
  /\ {l1} \cup T2 \cup T3 \cup av \cup dt = Frames
  /\ l1 \notin T2 \cup T3 \cup av \cup dt
  /\ T2 \cap (T3 \cup av \cup dt) = {}
  /\ T3 \cap (av \cup dt) = {}
  /\ av \cap dt = {}

Memory == [Frames -> [Indices -> Descriptors]]

Shape(m, l1, T2, T3, av, dt) ==
  /\ m \in Memory
  /\ Parts(l1, T2, T3, av, dt)
  /\ Linked(m, {l1}, T2) /\ Once(m, {l1})
  /\ Linked(m, T2, T3) /\ Once(m, T2)
  /\ Leaves(m, T3)

-----------------------------------------------------------------------------
(* What map's helpers do to the shape.                                     *)

LEMMA Constants ==
  /\ Frames \subseteq Nat \ {0} /\ Frames \subseteq PPages /\ PPages \subseteq Nat
  /\ ENTRIES \in Nat \ {0} /\ Indices \subseteq Nat
BY MMUAssumption DEF Indices

LEMMA FirstFitIsFree ==
  ASSUME NEW avail, avail \subseteq Frames, avail # {}
  PROVE  PMM!FirstFit(avail) \in avail /\ PMM!FirstFit(avail) # 0
<1>1. Min(avail) \in avail
  BY Constants, MinOfNat
<1>2. PMM!Min(avail) = Min(avail)
  BY DEF PMM!Min, Min
<1> QED
  BY <1>1, <1>2, Constants DEF PMM!FirstFit

LEMMA DescriptorTypes ==
  /\ Invalid \in Descriptors /\ EmptyTable \in [Indices -> Descriptors]
  /\ \A f \in Frames : TableEntry(f) \in Descriptors
  /\ \A p \in PPages, k \in Kinds : PageEntry(p, k) \in Descriptors
  /\ ~Valid(Invalid) /\ \A i \in Indices : ~Valid(EmptyTable[i])
  /\ \A f : Valid(TableEntry(f))
  /\ \A p : \A k \in Kinds : Valid(PageEntry(p, k))
BY Constants DEF Invalid, Descriptors, EmptyTable, TableEntry, PageEntry, Kinds, Valid

\* A new table, zeroed and linked from one that has no descriptor there.
Link(m, child, table, index) ==
  [m EXCEPT ![child] = EmptyTable, ![table][index] = TableEntry(child)]

LEMMA LinkEffect ==
  ASSUME NEW m \in Memory, NEW child \in Frames, NEW table \in Frames,
         NEW index \in Indices, child # table
  PROVE  LET n == Link(m, child, table, index)
         IN  /\ n \in Memory
             /\ n[child] = EmptyTable
             /\ n[table][index] = TableEntry(child)
             /\ \A j \in Indices \ {index} : n[table][j] = m[table][j]
             /\ \A t \in Frames \ {child, table} : n[t] = m[t]
BY DescriptorTypes DEF Link, Memory

LEMMA LinkL2 ==
  ASSUME NEW m, NEW l1, NEW T2, NEW T3, NEW av, NEW dt,
         Shape(m, l1, T2, T3, av, dt),
         NEW i \in Indices, ~Valid(m[l1][i]), NEW child \in av
  PROVE  Shape(Link(m, child, l1, i), l1, T2 \cup {child}, T3, av \ {child}, dt)
<1> DEFINE n == Link(m, child, l1, i)
<1>1. /\ m \in Memory /\ l1 \in Frames /\ child \in Frames /\ child # l1
      /\ child \notin T2 \cup T3 \cup dt
      /\ T2 \subseteq Frames \ {child, l1} /\ T3 \subseteq Frames \ {child, l1}
  BY DEF Shape, Parts
<1>2. /\ n \in Memory /\ n[child] = EmptyTable /\ n[l1][i] = TableEntry(child)
      /\ \A j \in Indices \ {i} : n[l1][j] = m[l1][j]
      /\ \A t \in Frames \ {child, l1} : n[t] = m[t]
  BY <1>1, LinkEffect
<1>3. TableEntry(child).kind = "table" /\ TableEntry(child).pa = child
  BY DEF TableEntry
<1> HIDE DEF n
<1>4. Parts(l1, T2 \cup {child}, T3, av \ {child}, dt)
  BY DEF Shape, Parts
<1>5. Linked(n, {l1}, T2 \cup {child})
  <2>1. ASSUME NEW j \in Indices, Valid(n[l1][j])
        PROVE  n[l1][j].kind = "table" /\ n[l1][j].pa \in T2 \cup {child}
    BY <1>2, <1>3, <2>1 DEF Shape, Linked
  <2>2. ASSUME NEW k \in T2 \cup {child}
        PROVE  \E j \in Indices : Valid(n[l1][j]) /\ n[l1][j].pa = k
    <3>1. CASE k = child
      BY <1>2, <1>3, <3>1, DescriptorTypes
    <3>2. CASE k # child
      <4>1. PICK j \in Indices : Valid(m[l1][j]) /\ m[l1][j].pa = k
        BY <3>2 DEF Shape, Linked
      <4> QED
        BY <1>2, <4>1
    <3> QED
      BY <3>1, <3>2
  <2> QED
    BY <2>1, <2>2 DEF Linked
<1>6. Once(n, {l1})
  <2> SUFFICES ASSUME NEW j \in Indices, NEW k \in Indices,
                      Valid(n[l1][j]), Valid(n[l1][k]), n[l1][j].pa = n[l1][k].pa
               PROVE  j = k
    BY DEF Once
  <2>1. \A h \in Indices : Valid(m[l1][h]) => m[l1][h].pa \in T2
    BY DEF Shape, Linked
  <2>2. \A h \in Indices \ {i} : Valid(n[l1][h]) => n[l1][h].pa # child
    BY <1>1, <1>2, <2>1
  <2>3. CASE j = i \/ k = i
    BY <1>2, <1>3, <2>2, <2>3
  <2>4. CASE j # i /\ k # i
    BY <1>2, <2>4 DEF Shape, Once
  <2> QED
    BY <2>3, <2>4
<1>7. Linked(n, T2 \cup {child}, T3)
  <2>1. ASSUME NEW t \in T2 \cup {child}, NEW j \in Indices, Valid(n[t][j])
        PROVE  n[t][j].kind = "table" /\ n[t][j].pa \in T3
    <3>1. t # child
      BY <1>2, <2>1, DescriptorTypes
    <3> QED
      BY <1>1, <1>2, <2>1, <3>1 DEF Shape, Linked
  <2>2. ASSUME NEW k \in T3
        PROVE  \E t \in T2 \cup {child}, j \in Indices : Valid(n[t][j]) /\ n[t][j].pa = k
    <3>1. PICK t \in T2, j \in Indices : Valid(m[t][j]) /\ m[t][j].pa = k
      BY DEF Shape, Linked
    <3> QED
      BY <1>1, <1>2, <3>1
  <2> QED
    BY <2>1, <2>2 DEF Linked
<1>8. Once(n, T2 \cup {child})
  <2> SUFFICES ASSUME NEW t \in T2 \cup {child}, NEW u \in T2 \cup {child},
                      NEW j \in Indices, NEW k \in Indices,
                      Valid(n[t][j]), Valid(n[u][k]), n[t][j].pa = n[u][k].pa
               PROVE  t = u /\ j = k
    BY DEF Once
  <2>1. t # child /\ u # child
    BY <1>2, DescriptorTypes
  <2> QED
    BY <1>1, <1>2, <2>1 DEF Shape, Once
<1>9. Leaves(n, T3)
  BY <1>1, <1>2 DEF Shape, Leaves
<1> QED
  BY <1>2, <1>4, <1>5, <1>6, <1>7, <1>8, <1>9 DEF Shape, n

LEMMA LinkL3 ==
  ASSUME NEW m, NEW l1, NEW T2, NEW T3, NEW av, NEW dt,
         Shape(m, l1, T2, T3, av, dt),
         NEW table \in T2, NEW i \in Indices, ~Valid(m[table][i]), NEW child \in av
  PROVE  Shape(Link(m, child, table, i), l1, T2, T3 \cup {child}, av \ {child}, dt)
<1> DEFINE n == Link(m, child, table, i)
<1>1. /\ m \in Memory /\ l1 \in Frames /\ table \in Frames /\ child \in Frames
      /\ child # l1 /\ child # table /\ table # l1 /\ child \notin T2 \cup T3 \cup dt
      /\ T2 \subseteq Frames \ {child} /\ T3 \subseteq Frames \ {child, table}
  BY DEF Shape, Parts
<1>2. /\ n \in Memory /\ n[child] = EmptyTable /\ n[table][i] = TableEntry(child)
      /\ \A j \in Indices \ {i} : n[table][j] = m[table][j]
      /\ \A t \in Frames \ {child, table} : n[t] = m[t]
  BY <1>1, LinkEffect, SMTT(30)
<1>3. TableEntry(child).kind = "table" /\ TableEntry(child).pa = child
  BY DEF TableEntry
<1> HIDE DEF n
<1>4. Parts(l1, T2, T3 \cup {child}, av \ {child}, dt)
  BY DEF Shape, Parts
<1>5. Linked(n, {l1}, T2) /\ Once(n, {l1})
  <2>1. n[l1] = m[l1]
    BY <1>1, <1>2
  <2> QED
    BY <2>1, SMTT(30) DEF Shape, Linked, Once
\* The descriptors of the L2 tables but the new one are the old ones.
<1>6. \A t \in T2, j \in Indices : t # table \/ j # i => n[t][j] = m[t][j]
  BY <1>1, <1>2
<1>7. Linked(n, T2, T3 \cup {child})
  <2>1. ASSUME NEW t \in T2, NEW j \in Indices, Valid(n[t][j])
        PROVE  n[t][j].kind = "table" /\ n[t][j].pa \in T3 \cup {child}
    <3>1. CASE t = table /\ j = i
      BY <1>2, <1>3, <3>1
    <3>2. CASE t # table \/ j # i
      BY <1>6, <2>1, <3>2 DEF Shape, Linked
    <3> QED
      BY <3>1, <3>2
  <2>2. ASSUME NEW k \in T3 \cup {child}
        PROVE  \E t \in T2, j \in Indices : Valid(n[t][j]) /\ n[t][j].pa = k
    <3>1. CASE k = child
      BY <1>2, <1>3, <3>1, DescriptorTypes
    <3>2. CASE k # child
      <4>1. PICK t \in T2, j \in Indices : Valid(m[t][j]) /\ m[t][j].pa = k
        BY <3>2 DEF Shape, Linked
      <4>2. t # table \/ j # i
        BY <4>1
      <4> QED
        BY <1>6, <4>1, <4>2
    <3> QED
      BY <3>1, <3>2
  <2> QED
    BY <2>1, <2>2 DEF Linked
<1>8. Once(n, T2)
  <2> SUFFICES ASSUME NEW t \in T2, NEW u \in T2, NEW j \in Indices, NEW k \in Indices,
                      Valid(n[t][j]), Valid(n[u][k]), n[t][j].pa = n[u][k].pa
               PROVE  t = u /\ j = k
    BY DEF Once
  <2>1. \A v \in T2, h \in Indices : Valid(m[v][h]) => m[v][h].pa # child
    BY <1>1 DEF Shape, Linked
  <2>2. CASE t = table /\ j = i
    BY <1>2, <1>3, <1>6, <2>1, <2>2
  <2>3. CASE u = table /\ k = i
    BY <1>2, <1>3, <1>6, <2>1, <2>3
  <2>4. CASE (t # table \/ j # i) /\ (u # table \/ k # i)
    BY <1>6, <2>4 DEF Shape, Once
  <2> QED
    BY <2>2, <2>3, <2>4
<1>9. Leaves(n, T3 \cup {child})
  <2> SUFFICES ASSUME NEW t \in T3 \cup {child}, NEW j \in Indices, Valid(n[t][j])
               PROVE  n[t][j].kind \in Kinds
    BY DEF Leaves
  <2>1. t # child
    BY <1>2, DescriptorTypes
  <2> QED
    BY <1>1, <1>2, <2>1 DEF Shape, Leaves
<1> QED
  BY <1>2, <1>4, <1>5, <1>7, <1>8, <1>9 DEF Shape, n

LEMMA SetLeaf ==
  ASSUME NEW m, NEW l1, NEW T2, NEW T3, NEW av, NEW dt,
         Shape(m, l1, T2, T3, av, dt),
         NEW t \in T3, NEW i \in Indices, NEW entry \in Descriptors,
         Valid(entry) => entry.kind \in Kinds
  PROVE  Shape([m EXCEPT ![t][i] = entry], l1, T2, T3, av, dt)
<1> DEFINE n == [m EXCEPT ![t][i] = entry]
<1>1. m \in Memory /\ t \in Frames \ (T2 \cup {l1}) /\ T2 \cup T3 \cup {l1} \subseteq Frames
  BY DEF Shape, Parts
<1>2. /\ n \in Memory
      /\ \A u \in Frames \ {t} : n[u] = m[u]
      /\ \A j \in Indices : n[t][j] = IF j = i THEN entry ELSE m[t][j]
  BY <1>1 DEF Memory
<1> HIDE DEF n
<1>3. Linked(n, {l1}, T2) /\ Once(n, {l1}) /\ Linked(n, T2, T3) /\ Once(n, T2)
  <2>1. \A u \in {l1} \cup T2 : n[u] = m[u]
    BY <1>1, <1>2
  <2>2. Linked(n, {l1}, T2) /\ Once(n, {l1})
    BY <2>1, SMTT(30) DEF Shape, Linked, Once
  <2>3. Linked(n, T2, T3)
    BY <2>1 DEF Shape, Linked
  <2>4. Once(n, T2)
    BY <2>1 DEF Shape, Once
  <2> QED
    BY <2>2, <2>3, <2>4
<1>4. Leaves(n, T3)
  <2>1. \A u \in T3, j \in Indices : n[u][j] \in {m[u][j], entry}
    BY <1>1, <1>2
  <2> QED
    BY <2>1 DEF Shape, Leaves
<1> QED
  BY <1>2, <1>3, <1>4 DEF Shape, n

\* The walk of translate through any memory.
WalkOf(m, l1, va) ==
  LET l1_desc == m[l1][L1_INDEX(va)]
      l2_desc == m[l1_desc.pa][L2_INDEX(va)]
  IN  IF Valid(l1_desc) /\ Valid(l2_desc) THEN m[l2_desc.pa][L3_INDEX(va)] ELSE Invalid

LEMMA IndexTypes ==
  ASSUME NEW va \in Nat
  PROVE  L1_INDEX(va) \in Indices /\ L2_INDEX(va) \in Indices /\ L3_INDEX(va) \in Indices
<1>1. ENTRIES \in Nat \ {0} /\ ENTRIES * ENTRIES \in Nat \ {0}
  BY Constants
<1>2. va \div ENTRIES \in Int /\ va \div (ENTRIES * ENTRIES) \in Int
  BY <1>1, DivMod
<1> QED
  BY <1>1, <1>2, DivMod DEF L1_INDEX, L2_INDEX, L3_INDEX, Indices

\* Where the descriptors of a walk lead.
LeadsDown(m, l1, T2, T3) ==
  /\ \A j \in Indices : Valid(m[l1][j]) => m[l1][j].pa \in T2
  /\ \A t \in T2, j \in Indices : Valid(m[t][j]) => m[t][j].pa \in T3

LEMMA WalksDown ==
  ASSUME NEW m, NEW l1, NEW T2, NEW T3, NEW av, NEW dt, Shape(m, l1, T2, T3, av, dt)
  PROVE  LeadsDown(m, l1, T2, T3)
<1>1. Linked(m, {l1}, T2) /\ Linked(m, T2, T3)
  BY DEF Shape
<1> QED
  BY <1>1, Zenon DEF Linked, LeadsDown

\* A new table adds no mapping.
LEMMA LinkL2Walk ==
  ASSUME NEW m, NEW l1, NEW T2, NEW T3, NEW av, NEW dt,
         Shape(m, l1, T2, T3, av, dt),
         NEW i \in Indices, ~Valid(m[l1][i]), NEW child \in av, NEW va \in Nat
  PROVE  WalkOf(Link(m, child, l1, i), l1, va) = WalkOf(m, l1, va)
<1> DEFINE n  == Link(m, child, l1, i)
           d1 == m[l1][L1_INDEX(va)]
           d2 == m[d1.pa][L2_INDEX(va)]
<1>1. /\ m \in Memory /\ l1 \in Frames /\ child \in Frames /\ child # l1
      /\ T2 \subseteq Frames \ {child, l1} /\ T3 \subseteq Frames \ {child, l1}
  BY DEF Shape, Parts
<1>2. /\ n[child] = EmptyTable /\ n[l1][i] = TableEntry(child)
      /\ \A j \in Indices \ {i} : n[l1][j] = m[l1][j]
      /\ \A t \in Frames \ {child, l1} : n[t] = m[t]
  BY <1>1, LinkEffect
<1>3. /\ L1_INDEX(va) \in Indices /\ L2_INDEX(va) \in Indices
      /\ TableEntry(child).pa = child
  BY IndexTypes DEF TableEntry
<1> HIDE DEF n
<1>4. CASE L1_INDEX(va) = i
  <2>1. n[n[l1][L1_INDEX(va)].pa][L2_INDEX(va)] = EmptyTable[L2_INDEX(va)]
    BY <1>2, <1>3, <1>4
  <2>2. WalkOf(n, l1, va) = Invalid
    BY <1>3, <2>1, DescriptorTypes DEF WalkOf
  <2>3. WalkOf(m, l1, va) = Invalid
    BY <1>4 DEF WalkOf
  <2> QED
    BY <2>2, <2>3 DEF n
<1>5. CASE L1_INDEX(va) # i
  <2>1. n[l1][L1_INDEX(va)] = d1
    BY <1>2, <1>3, <1>5
  <2>0. (Valid(d1) => d1.pa \in T2) /\ (Valid(d1) /\ Valid(d2) => d2.pa \in T3)
    <3>1. LeadsDown(m, l1, T2, T3)
      BY WalksDown
    <3>2. Valid(d1) => d1.pa \in T2
      BY <1>3, <3>1, Zenon DEF LeadsDown
    <3> HIDE DEF d1
    <3>3. d1.pa \in T2 /\ Valid(d2) => d2.pa \in T3
      BY <1>3, <3>1, Zenon DEF LeadsDown
    <3> QED
      BY <3>2, <3>3, Zenon
  <2> HIDE DEF d2
  <2>3. Valid(d1) /\ Valid(d2) => n[d2.pa] = m[d2.pa]
    BY <1>1, <1>2, <2>0
  <2> HIDE DEF d1
  <2>2. Valid(d1) => n[d1.pa] = m[d1.pa]
    BY <1>1, <1>2, <2>0
  <2> USE DEF d1, d2
  <2>4. WalkOf(n, l1, va) = WalkOf(m, l1, va)
    BY <2>1, <2>2, <2>3, Zenon DEF WalkOf
  <2> QED
    BY <2>4 DEF n
<1> QED
  BY <1>4, <1>5

LEMMA LinkL3Walk ==
  ASSUME NEW m, NEW l1, NEW T2, NEW T3, NEW av, NEW dt,
         Shape(m, l1, T2, T3, av, dt),
         NEW table \in T2, NEW i \in Indices, ~Valid(m[table][i]), NEW child \in av,
         NEW va \in Nat
  PROVE  WalkOf(Link(m, child, table, i), l1, va) = WalkOf(m, l1, va)
<1> DEFINE n  == Link(m, child, table, i)
           d1 == m[l1][L1_INDEX(va)]
           d2 == m[d1.pa][L2_INDEX(va)]
<1>1. /\ m \in Memory /\ l1 \in Frames /\ table \in Frames /\ child \in Frames
      /\ child # l1 /\ child # table /\ table # l1
      /\ T2 \subseteq Frames \ {child} /\ T3 \subseteq Frames \ {child, table}
  BY DEF Shape, Parts
<1>2. /\ n[child] = EmptyTable /\ n[table][i] = TableEntry(child)
      /\ \A j \in Indices \ {i} : n[table][j] = m[table][j]
      /\ \A t \in Frames \ {child, table} : n[t] = m[t]
  BY <1>1, LinkEffect, SMTT(30)
<1>3. /\ L1_INDEX(va) \in Indices /\ L2_INDEX(va) \in Indices /\ L3_INDEX(va) \in Indices
      /\ TableEntry(child).pa = child
  BY IndexTypes DEF TableEntry
<1> HIDE DEF n
<1>4. n[l1] = m[l1] /\ (Valid(d1) => d1.pa \in T2)
  BY <1>1, <1>2, <1>3 DEF Shape, Linked
<1>5. CASE Valid(d1) /\ d1.pa = table /\ L2_INDEX(va) = i
  <2>1. n[d1.pa][L2_INDEX(va)] = TableEntry(child)
    BY <1>2, <1>5
  <2>2. WalkOf(n, l1, va) \in {EmptyTable[L3_INDEX(va)], Invalid}
    BY <1>2, <1>3, <1>4, <2>1 DEF WalkOf
  <2>3. EmptyTable[L3_INDEX(va)] = Invalid
    BY <1>3 DEF EmptyTable
  <2>4. WalkOf(m, l1, va) = Invalid
    BY <1>5 DEF WalkOf
  <2> QED
    BY <2>2, <2>3, <2>4 DEF n
<1>6. CASE Valid(d1) /\ ~(d1.pa = table /\ L2_INDEX(va) = i)
  <2>0. d1.pa \in T2 /\ (Valid(d2) => d2.pa \in T3)
    <3>1. LeadsDown(m, l1, T2, T3)
      BY WalksDown
    <3>2. d1.pa \in T2
      BY <1>3, <1>6, <3>1, Zenon DEF LeadsDown
    <3> HIDE DEF d1
    <3> QED
      BY <1>3, <3>1, <3>2, Zenon DEF LeadsDown
  <2> HIDE DEF d2
  <2>2. Valid(d2) => n[d2.pa] = m[d2.pa]
    BY <1>1, <1>2, <2>0
  <2>1. n[d1.pa][L2_INDEX(va)] = d2
    <3> HIDE DEF d1
    <3> USE DEF d2
    <3>1. CASE d1.pa = table
      BY <1>2, <1>3, <1>6, <3>1
    <3>2. CASE d1.pa # table
      BY <1>1, <1>2, <2>0, <3>2
    <3> QED
      BY <3>1, <3>2
  <2> USE DEF d2
  <2>3. WalkOf(n, l1, va) = WalkOf(m, l1, va)
    BY <1>4, <1>6, <2>1, <2>2, ZenonT(60) DEF WalkOf
  <2> QED
    BY <2>3 DEF n
<1>7. CASE ~Valid(d1)
  <2>1. WalkOf(n, l1, va) = WalkOf(m, l1, va)
    BY <1>4, <1>7 DEF WalkOf
  <2> QED
    BY <2>1 DEF n
<1> QED
  BY <1>5, <1>6, <1>7

LEMMA DivDiv ==
  ASSUME NEW a \in Nat, NEW d \in Nat \ {0}
  PROVE  (a \div d) \div d = a \div (d * d)
<1> DEFINE q == a \div d
           r == a % d
           s == q \div d
           t == q % d
<1>1. q \in Int /\ r \in 0 .. d - 1 /\ a = q * d + r
  BY DivMod
<1>2. s \in Int /\ t \in 0 .. d - 1 /\ q = s * d + t
  BY <1>1, DivMod
<1> HIDE DEF q, r, s, t
<1>3. a = s * (d * d) + (t * d + r)
  <2>1. (s * d + t) * d = s * (d * d) + t * d
    BY <1>2
  <2> QED
    BY <1>1, <1>2, <2>1
<1>4. t * d + r \in 0 .. d * d - 1 /\ d * d \in Nat \ {0}
  <2>1. t * d \in Nat /\ t * d <= (d - 1) * d /\ (d - 1) * d = d * d - d
    BY <1>2
  <2> QED
    BY <1>1, <2>1
<1>5. a \div (d * d) = s
  BY <1>2, <1>3, <1>4, DivModUnique
<1> QED
  BY <1>5 DEF q, s

\* The three indices determine the page.
LEMMA IndicesOfPage ==
  ASSUME NEW p \in VPages, NEW q \in VPages,
         L1_INDEX(p) = L1_INDEX(q), L2_INDEX(p) = L2_INDEX(q), L3_INDEX(p) = L3_INDEX(q)
  PROVE  p = q
<1>1. ENTRIES \in Nat \ {0} /\ ENTRIES * ENTRIES \in Nat \ {0}
  BY Constants
<1>2. ASSUME NEW v \in VPages
      PROVE  v \in Nat /\ v = (L1_INDEX(v) * ENTRIES + L2_INDEX(v)) * ENTRIES + L3_INDEX(v)
  <2> DEFINE E == ENTRIES
             h == v \div (E * E)
             g == v \div E
  <2>1. v \in Nat /\ v \in Int /\ v < (E * E) * E
    BY <1>1, <1>2 DEF VPages
  <2>2. v = g * E + (v % E) /\ g \in Nat
    BY <1>1, <2>1, DivMod, Zenon
  <2>3. g \div E = h
    BY <1>1, <2>1, DivDiv
  <2>4. g = h * E + (g % E)
    <3>1. g \in Int
      BY <2>2
    <3>2. g = (g \div E) * E + (g % E)
      BY <1>1, <3>1, DivMod, Zenon
    <3> QED
      BY <2>3, <3>2
  <2>5. h \in Nat /\ v = h * (E * E) + (v % (E * E)) /\ v % (E * E) \in Nat
    <3>1. v % (E * E) \in 0 .. E * E - 1 /\ v = h * (E * E) + (v % (E * E)) /\ h \in Nat
      BY <1>1, <2>1, DivMod, Zenon
    <3> QED
      BY <1>1, <3>1
  <2> HIDE DEF h, g
  <2>6. h < E
    <3>1. SUFFICES ASSUME h >= E PROVE FALSE
      BY <1>1, <2>5
    <3>2. h * (E * E) >= E * (E * E) /\ E * (E * E) = (E * E) * E
      BY <1>1, <2>5, <3>1
    <3>3. h * (E * E) \in Nat
      BY <1>1, <2>5
    <3> QED
      BY <1>1, <2>1, <2>5, <3>2, <3>3
  <2>7. h % E = h
    BY <1>1, <2>5, <2>6
  <2> QED
    BY <2>1, <2>2, <2>4, <2>7 DEF L1_INDEX, L2_INDEX, L3_INDEX, g, h
<1> QED
  BY <1>2

LEMMA TakeFrame ==
  ASSUME NEW m, NEW l1, NEW T2, NEW T3, NEW av, NEW dt,
         Shape(m, l1, T2, T3, av, dt), NEW f \in av
  PROVE  Shape(m, l1, T2, T3, av \ {f}, dt \cup {f})
BY DEF Shape, Parts

\* A walk finds a table that a valid descriptor leads to.
Leads(m, table, i, child) == Valid(m[table][i]) /\ m[table][i].pa = child

\* A descriptor written.
Put(m, table, i, entry) == [m EXCEPT ![table][i] = entry]

\* Writing the leaf of a page changes the walk of this page and of no other.
LEMMA SetLeafWalk ==
  ASSUME NEW m, NEW l1, NEW T2, NEW T3, NEW av, NEW dt,
         Shape(m, l1, T2, T3, av, dt),
         NEW va \in VPages, NEW l2 \in T2, NEW l3 \in T3,
         Leads(m, l1, L1_INDEX(va), l2), Leads(m, l2, L2_INDEX(va), l3), NEW entry
  PROVE  LET n == Put(m, l3, L3_INDEX(va), entry)
         IN  /\ WalkOf(n, l1, va) = entry
             /\ \A p \in VPages \ {va} : WalkOf(n, l1, p) = WalkOf(m, l1, p)
<1> DEFINE n == Put(m, l3, L3_INDEX(va), entry)
<1>1. /\ m \in Memory /\ l1 \in Frames /\ l2 \in Frames /\ l3 \in Frames /\ l3 # l1
      /\ T2 \subseteq Frames \ {l3} /\ T3 \subseteq Frames /\ va \in Nat /\ VPages \subseteq Nat
  BY Constants DEF Shape, Parts, VPages
<1>2. L1_INDEX(va) \in Indices /\ L2_INDEX(va) \in Indices /\ L3_INDEX(va) \in Indices
  BY <1>1, IndexTypes
<1>3. /\ \A t \in Frames \ {l3} : n[t] = m[t]
      /\ \A j \in Indices : n[l3][j] = IF j = L3_INDEX(va) THEN entry ELSE m[l3][j]
  BY <1>1, <1>2, SMTT(30) DEF Memory, Put
<1> HIDE DEF n
<1>4. WalkOf(n, l1, va) = entry
  <2>1. n[l1] = m[l1] /\ n[l2] = m[l2]
    BY <1>1, <1>3
  <2>2. /\ Valid(n[l1][L1_INDEX(va)]) /\ n[l1][L1_INDEX(va)].pa = l2
        /\ Valid(n[l2][L2_INDEX(va)]) /\ n[l2][L2_INDEX(va)].pa = l3
    BY <2>1, Zenon DEF Leads
  <2>3. n[l3][L3_INDEX(va)] = entry
    BY <1>2, <1>3
  <2> QED
    BY <2>2, <2>3, Zenon DEF WalkOf
<1>5. ASSUME NEW p \in VPages, p # va
      PROVE  WalkOf(n, l1, p) = WalkOf(m, l1, p)
  <2> DEFINE d1 == m[l1][L1_INDEX(p)]
             d2 == m[d1.pa][L2_INDEX(p)]
  <2>1. L1_INDEX(p) \in Indices /\ L2_INDEX(p) \in Indices /\ L3_INDEX(p) \in Indices
    BY <1>1, IndexTypes
  <2>2. n[l1] = m[l1] /\ (Valid(d1) => d1.pa \in T2 /\ n[d1.pa] = m[d1.pa])
    BY <1>1, <1>3, <2>1 DEF Shape, Linked
  <2>3. CASE Valid(d1) /\ Valid(d2) /\ d2.pa = l3 /\ L3_INDEX(p) = L3_INDEX(va)
    <3>1. d1.pa = l2 /\ L2_INDEX(p) = L2_INDEX(va)
      <4>1. Once(m, T2)
        BY DEF Shape
      <4> QED
        BY <1>2, <2>1, <2>2, <2>3, <4>1, SMTT(30) DEF Once, Leads
    <3>2. L1_INDEX(p) = L1_INDEX(va)
      <4>1. Once(m, {l1})
        BY DEF Shape
      <4> QED
        BY <1>2, <2>1, <2>3, <3>1, <4>1 DEF Once, Leads
    <3> QED
      BY <1>5, <2>3, <3>1, <3>2, IndicesOfPage, SMTT(30)
  <2>4. CASE Valid(d1) /\ Valid(d2) /\ ~(d2.pa = l3 /\ L3_INDEX(p) = L3_INDEX(va))
    <3>1. d2.pa \in T3
      <4>1. LeadsDown(m, l1, T2, T3)
        BY WalksDown
      <4>2. d1.pa \in T2 /\ Valid(d2)
        BY <2>2, <2>4, Zenon
      <4> HIDE DEF d1
      <4> QED
        BY <2>1, <4>1, <4>2, Zenon DEF LeadsDown
    <3>2. n[d2.pa][L3_INDEX(p)] = m[d2.pa][L3_INDEX(p)]
      <4> HIDE DEF d2
      <4>1. CASE d2.pa = l3
        BY <1>3, <2>1, <2>4, <4>1
      <4>2. CASE d2.pa # l3
        BY <1>1, <1>3, <3>1, <4>2
      <4> QED
        BY <4>1, <4>2
    <3> QED
      BY <2>2, <2>4, <3>2, ZenonT(60) DEF WalkOf
  <2>5. CASE ~(Valid(d1) /\ Valid(d2))
    BY <2>2, <2>5, Zenon DEF WalkOf
  <2> QED
    BY <2>3, <2>4, <2>5, Zenon
<1> QED
  BY <1>4, <1>5 DEF n

\* A table that is found or created is one of the tables, and is where a walk
\* looks for it; no mapping changes.
LEMMA GetL2 ==
  ASSUME NEW m, NEW l1, NEW T2, NEW T3, NEW av, NEW dt,
         Shape(m, l1, T2, T3, av, dt), NEW i \in Indices,
         _get_or_alloc_table(m, av, l1, i).child # 0
  PROVE  LET r == _get_or_alloc_table(m, av, l1, i)
         IN  /\ \E U2 : Shape(r.mem, l1, U2, T3, r.free, dt) /\ r.child \in U2
             /\ Leads(r.mem, l1, i, r.child)
             /\ \A va \in Nat : WalkOf(r.mem, l1, va) = WalkOf(m, l1, va)
<1> DEFINE r == _get_or_alloc_table(m, av, l1, i)
           c == PMM!FirstFit(av)
<1>1. CASE Valid(m[l1][i])
  <2>1. r = [mem |-> m, free |-> av, child |-> m[l1][i].pa]
    BY <1>1 DEF _get_or_alloc_table
  <2>2. m[l1][i].pa \in T2
    BY <1>1 DEF Shape, Linked
  <2> QED
    BY <1>1, <2>1, <2>2 DEF Leads
<1>2. CASE ~Valid(m[l1][i])
  <2>1. c # 0
    BY <1>2 DEF _get_or_alloc_table
  <2>2. r = [mem |-> Link(m, c, l1, i), free |-> av \ {c}, child |-> c]
    BY <1>2, <2>1 DEF _get_or_alloc_table, Link
  <2>3. av \subseteq Frames /\ av # {}
    BY <2>1 DEF Shape, Parts, PMM!FirstFit
  <2>4. c \in av
    BY <2>3, FirstFitIsFree
  <2>5. Shape(Link(m, c, l1, i), l1, T2 \cup {c}, T3, av \ {c}, dt)
    BY <1>2, <2>4, LinkL2
  <2>6. Leads(Link(m, c, l1, i), l1, i, c)
    <3>1. m \in Memory /\ l1 \in Frames /\ c \in Frames /\ c # l1
      BY <2>4 DEF Shape, Parts
    <3>2. Link(m, c, l1, i)[l1][i] = TableEntry(c)
      BY <3>1, LinkEffect
    <3> QED
      BY <3>2, DescriptorTypes DEF Leads, TableEntry
  <2>7. \A va \in Nat : WalkOf(Link(m, c, l1, i), l1, va) = WalkOf(m, l1, va)
    BY <1>2, <2>4, LinkL2Walk
  <2> HIDE DEF c
  <2> QED
    BY <2>2, <2>4, <2>5, <2>6, <2>7
<1> QED
  BY <1>1, <1>2

LEMMA GetL3 ==
  ASSUME NEW m, NEW l1, NEW T2, NEW T3, NEW av, NEW dt,
         Shape(m, l1, T2, T3, av, dt), NEW table \in T2, NEW i \in Indices
  PROVE  LET r == _get_or_alloc_table(m, av, table, i)
         IN  /\ \E U3 : /\ Shape(r.mem, l1, T2, U3, r.free, dt)
                        /\ r.child # 0 => r.child \in U3
             /\ r.mem[l1] = m[l1]
             /\ r.child # 0 => Leads(r.mem, table, i, r.child)
             /\ \A va \in Nat : WalkOf(r.mem, l1, va) = WalkOf(m, l1, va)
<1> DEFINE r == _get_or_alloc_table(m, av, table, i)
           c == PMM!FirstFit(av)
<1>1. CASE Valid(m[table][i])
  <2>1. r = [mem |-> m, free |-> av, child |-> m[table][i].pa]
    BY <1>1 DEF _get_or_alloc_table
  <2>2. m[table][i].pa \in T3
    BY <1>1 DEF Shape, Linked
  <2> QED
    BY <1>1, <2>1, <2>2 DEF Leads
<1>2. CASE ~Valid(m[table][i]) /\ c = 0
  <2>1. r = [mem |-> m, free |-> av, child |-> 0]
    BY <1>2 DEF _get_or_alloc_table
  <2> QED
    BY <2>1
<1>3. CASE ~Valid(m[table][i]) /\ c # 0
  <2>1. r = [mem |-> Link(m, c, table, i), free |-> av \ {c}, child |-> c]
    BY <1>3 DEF _get_or_alloc_table, Link
  <2>2. av \subseteq Frames /\ av # {}
    BY <1>3 DEF Shape, Parts, PMM!FirstFit
  <2>3. c \in av
    BY <2>2, FirstFitIsFree
  <2>4. Shape(Link(m, c, table, i), l1, T2, T3 \cup {c}, av \ {c}, dt)
    BY <1>3, <2>3, LinkL3
  <2>5. Link(m, c, table, i)[l1] = m[l1] /\ Leads(Link(m, c, table, i), table, i, c)
    <3>1. /\ m \in Memory /\ l1 \in Frames /\ table \in Frames /\ c \in Frames
          /\ c # table /\ l1 # table /\ l1 # c
      BY <2>3 DEF Shape, Parts
    <3>2. /\ Link(m, c, table, i)[table][i] = TableEntry(c)
          /\ Link(m, c, table, i)[l1] = m[l1]
      BY <3>1, LinkEffect
    <3> QED
      BY <3>2, DescriptorTypes DEF Leads, TableEntry
  <2>6. \A va \in Nat : WalkOf(Link(m, c, table, i), l1, va) = WalkOf(m, l1, va)
    BY <1>3, <2>3, LinkL3Walk
  <2> HIDE DEF c
  <2> QED
    BY <2>1, <2>3, <2>4, <2>5, <2>6
<1> QED
  BY <1>1, <1>2, <1>3

-----------------------------------------------------------------------------
(* The inductive invariant.                                                *)

CallInv ==
  \/ call = Idle
  \/ /\ phase # "off"
     /\ call = MapCall(call.va, call.pa, call.left, call.kind)
     /\ call.va \in Nat /\ call.pa \in Nat /\ call.left \in Nat \ {0} /\ call.kind \in Kinds
     /\ call.va .. call.va + call.left - 1 \subseteq VPages
     /\ call.pa .. call.pa + call.left - 1 \subseteq PPages
  \/ /\ phase = "on"
     /\ call = UnmapCall(call.va, call.left)
     /\ call.va \in Nat /\ call.left \in Nat \ {0}
     /\ call.va .. call.va + call.left - 1 \subseteq PagesOf(UnmapRanges)

StateInv ==
  /\ phase \in {"off", "mapping", "on"} /\ booted \in 0 .. Len(BootRegions)
  /\ l1_table \in Frames \cup {0} /\ (l1_table = 0 <=> phase = "off")
  /\ mem \in Memory /\ data \subseteq Frames /\ free \subseteq Frames
  /\ phase = "off" => data = {}

ShapeInv == Started => \E T2, T3 : Shape(mem, l1_table, T2, T3, free, data)

IInv == StateInv /\ CallInv /\ ShapeInv

\* What is known of each call while it runs.
LEMMA MapRunning ==
  ASSUME CallInv, call.op = "map"
  PROVE  /\ phase # "off" /\ call # Idle
         /\ call = MapCall(call.va, call.pa, call.left, call.kind)
         /\ call.va \in Nat /\ call.pa \in Nat /\ call.left \in Nat \ {0} /\ call.kind \in Kinds
         /\ call.va .. call.va + call.left - 1 \subseteq VPages
         /\ call.pa .. call.pa + call.left - 1 \subseteq PPages
BY DEF CallInv, Idle, UnmapCall

LEMMA UnmapRunning ==
  ASSUME CallInv, call.op = "unmap"
  PROVE  /\ phase = "on" /\ call # Idle
         /\ call = UnmapCall(call.va, call.left)
         /\ call.va \in Nat /\ call.left \in Nat \ {0}
         /\ call.va .. call.va + call.left - 1 \subseteq PagesOf(UnmapRanges)
BY DEF CallInv, Idle, MapCall

LEMMA UnmappedArePages == PagesOf(UnmapRanges) \subseteq VPages
BY RangesAssumption DEF PagesOf

\* The range of a call, and of what is left of it after its first page.
LEMMA RangeTail ==
  ASSUME NEW a \in Nat, NEW n \in Nat \ {0}, NEW S, a .. a + n - 1 \subseteq S
  PROVE  a \in S /\ (n # 1 => n - 1 \in Nat \ {0} /\ a + 1 .. a + 1 + (n - 1) - 1 \subseteq S)
<1>1. a \in a .. a + n - 1
  OBVIOUS
<1>2. a + 1 .. a + 1 + (n - 1) - 1 \subseteq a .. a + n - 1
  OBVIOUS
<1> QED
  BY <1>1, <1>2

LEMMA AdvanceCall ==
  ASSUME CallInv, call.op = "map", call' = Advance(call), phase' # "off"
  PROVE  CallInv'
<1>1. /\ call = MapCall(call.va, call.pa, call.left, call.kind)
      /\ call.va \in Nat /\ call.pa \in Nat /\ call.left \in Nat \ {0} /\ call.kind \in Kinds
      /\ call.va .. call.va + call.left - 1 \subseteq VPages
      /\ call.pa .. call.pa + call.left - 1 \subseteq PPages
  BY MapRunning
<1>2. CASE call.left = 1
  BY <1>2, SMTT(30) DEF Advance, CallInv
<1>3. CASE call.left # 1
  <2>1. call' = MapCall(call.va + 1, call.pa + 1, call.left - 1, call.kind)
    BY <1>1, <1>3 DEF Advance, MapCall
  <2>2. /\ call'.va = call.va + 1 /\ call'.pa = call.pa + 1
        /\ call'.left = call.left - 1 /\ call'.kind = call.kind
    BY <2>1 DEF MapCall
  <2> QED
    BY <1>1, <1>3, <2>1, <2>2, RangeTail DEF CallInv
<1> QED
  BY <1>2, <1>3

LEMMA AdvanceUnmap ==
  ASSUME CallInv, call.op = "unmap", call' = Advance(call), phase' = phase
  PROVE  CallInv'
<1>1. /\ call = UnmapCall(call.va, call.left) /\ phase = "on"
      /\ call.va \in Nat /\ call.left \in Nat \ {0}
      /\ call.va .. call.va + call.left - 1 \subseteq PagesOf(UnmapRanges)
  BY UnmapRunning
<1>2. CASE call.left = 1
  BY <1>2, SMTT(30) DEF Advance, CallInv
<1>3. CASE call.left # 1
  <2>1. call' = UnmapCall(call.va + 1, call.left - 1)
    <3>1. call.op # "map" /\ call.pa = 0 /\ call.kind = "invalid"
      BY <1>1 DEF UnmapCall
    <3>2. call' = [call EXCEPT !.va = @ + 1, !.pa = @, !.left = @ - 1]
      BY <1>3, <3>1 DEF Advance
    <3> QED
      BY <1>1, <3>1, <3>2, ZenonT(60) DEF UnmapCall
  <2>2. call'.va = call.va + 1 /\ call'.left = call.left - 1
    BY <2>1 DEF UnmapCall
  <2> QED
    BY <1>1, <1>3, <2>1, <2>2, RangeTail DEF CallInv
<1> QED
  BY <1>2, <1>3

LEMMA BeginCall ==
  ASSUME NEW va \in Nat, NEW pa \in Nat, NEW n \in Nat \ {0}, NEW k \in Kinds,
         va .. va + n - 1 \subseteq VPages, pa .. pa + n - 1 \subseteq PPages,
         call' = MapCall(va, pa, n, k), phase' # "off"
  PROVE  CallInv'
BY DEF CallInv, MapCall

LEMMA InitInv == Init => IInv
<1> SUFFICES ASSUME Init PROVE IInv
  OBVIOUS
<1>1. StateInv
  <2>1. Len(BootRegions) \in Nat => 0 \in 0 .. Len(BootRegions)
    OBVIOUS
  <2>2. mem \in Memory
    BY PowerOnAssumption DEF Init, Memory
  <2>3. phase = "off" /\ booted = 0 /\ l1_table = 0 /\ free = {} /\ data = {}
    BY DEF Init
  <2> QED
    BY <2>1, <2>2, <2>3, RangesAssumption DEF StateInv
<1> QED
  BY <1>1 DEF Init, IInv, CallInv, ShapeInv, Started

LEMMA mmu_init_Inv ==
  ASSUME IInv, mmu_init
  PROVE  IInv'
<1> DEFINE l1 == PMM!FirstFit(Frames)
<1>1. /\ phase = "off" /\ phase' = "mapping" /\ l1_table' = l1
      /\ mem' = [mem EXCEPT ![l1] = EmptyTable] /\ free' = Frames \ {l1}
      /\ UNCHANGED <<booted, data, call>> /\ data = {}
  BY DEF mmu_init, IInv, StateInv
<1>2. l1 \in Frames /\ l1 # 0
  BY FirstFitIsFree, MMUAssumption
<1> HIDE DEF l1
<1>3. mem' \in Memory /\ mem'[l1] = EmptyTable
  BY <1>1, <1>2, DescriptorTypes DEF Memory, IInv, StateInv
<1>4. Shape(mem', l1, {}, {}, Frames \ {l1}, {})
  <2>1. Parts(l1, {}, {}, Frames \ {l1}, {})
    BY <1>2 DEF Parts
  <2>2. Linked(mem', {l1}, {}) /\ Once(mem', {l1})
    BY <1>3, DescriptorTypes DEF Linked, Once
  <2>3. Linked(mem', {}, {}) /\ Once(mem', {}) /\ Leaves(mem', {})
    BY DEF Linked, Once, Leaves
  <2> QED
    BY <1>3, <2>1, <2>2, <2>3 DEF Shape
<1>5. ShapeInv'
  BY <1>1, <1>4 DEF ShapeInv
<1>6. StateInv'
  BY <1>1, <1>2, <1>3 DEF IInv, StateInv
<1>7. CallInv'
  BY <1>1 DEF IInv, CallInv
<1> QED
  BY <1>5, <1>6, <1>7 DEF IInv

LEMMA MapBootRegionInv ==
  ASSUME IInv, MapBootRegion
  PROVE  IInv'
<1> DEFINE region == BootRegions[booted + 1]
<1>1. /\ phase = "mapping" /\ booted < Len(BootRegions) /\ booted' = booted + 1
      /\ call' = MapCall(region.base, region.base, region.pages, region.kind)
      /\ UNCHANGED <<phase, l1_table, mem, free, data>>
  BY DEF MapBootRegion
<1>2. booted \in Nat /\ Len(BootRegions) \in Nat /\ booted + 1 \in 1 .. Len(BootRegions)
  BY <1>1, RangesAssumption DEF IInv, StateInv
<1>3. /\ region.base \in Nat /\ region.pages \in Nat \ {0} /\ region.kind \in Kinds
      /\ region.base .. region.base + region.pages - 1 \subseteq VPages \cap PPages
  BY <1>2, RangesAssumption
<1> HIDE DEF region
<1>4. CallInv'
  BY <1>1, <1>3, BeginCall
<1>5. StateInv' /\ ShapeInv'
  BY <1>1, <1>2 DEF IInv, StateInv, ShapeInv, Started
<1> QED
  BY <1>4, <1>5 DEF IInv

LEMMA EnableMMUInv ==
  ASSUME IInv, EnableMMU
  PROVE  IInv'
<1>1. /\ phase = "mapping" /\ phase' = "on" /\ call' = Idle
      /\ UNCHANGED <<booted, l1_table, mem, free, data>>
  BY DEF EnableMMU
<1> QED
  BY <1>1 DEF IInv, StateInv, CallInv, ShapeInv, Started

LEMMA alloc_frame_Inv ==
  ASSUME IInv, alloc_frame
  PROVE  IInv'
<1> DEFINE f == PMM!FirstFit(free)
<1>1. /\ phase = "on" /\ call = Idle /\ free # {}
      /\ data' = data \cup {f} /\ free' = free \ {f}
      /\ UNCHANGED <<phase, booted, l1_table, mem, call>>
  BY DEF alloc_frame
<1>2. f \in free /\ f \in Frames
  BY <1>1, FirstFitIsFree DEF IInv, StateInv
<1> HIDE DEF f
<1>3. PICK T2, T3 : Shape(mem, l1_table, T2, T3, free, data)
  BY <1>1 DEF IInv, ShapeInv, Started
<1>4. Shape(mem, l1_table, T2, T3, free \ {f}, data \cup {f})
  BY <1>2, <1>3, TakeFrame
<1>5. ShapeInv'
  BY <1>1, <1>4 DEF ShapeInv
<1>6. StateInv' /\ CallInv'
  BY <1>1, <1>2 DEF IInv, StateInv, CallInv
<1> QED
  BY <1>5, <1>6 DEF IInv

LEMMA mapInv ==
  ASSUME IInv, NEW r \in MapRanges, NEW pa \in data, map(r[1], pa, r[2], "normal")
  PROVE  IInv'
<1>1. /\ phase = "on" /\ call' = MapCall(r[1], pa, r[2], "normal")
      /\ UNCHANGED <<phase, booted, l1_table, mem, free, data>>
  BY DEF map
<1>2. pa \in Frames /\ pa \in Nat /\ "normal" \in Kinds
  BY Constants DEF IInv, StateInv, Kinds
<1>3. /\ r[1] \in Nat /\ r[2] \in Nat \ {0} /\ r[1] .. r[1] + r[2] - 1 \subseteq VPages
      /\ pa .. pa + r[2] - 1 \subseteq PPages
  BY <1>2, RangesAssumption
<1>4. CallInv'
  BY <1>1, <1>2, <1>3, BeginCall, SMTT(30)
<1>5. StateInv' /\ ShapeInv'
  BY <1>1 DEF IInv, StateInv, ShapeInv, Started
<1> QED
  BY <1>4, <1>5 DEF IInv

\* The tables a step of map works with.
LEMMA StepTables ==
  ASSUME IInv, call.op = "map", L2Of(call.va).child # 0
  PROVE  LET r == L3Of(call.va)
         IN  /\ \E T2, T3 : /\ Shape(r.mem, l1_table, T2, T3, r.free, data)
                            /\ L2Of(call.va).child \in T2
                            /\ r.child # 0 => r.child \in T3
             /\ Leads(r.mem, l1_table, L1_INDEX(call.va), L2Of(call.va).child)
             /\ r.child # 0 => Leads(r.mem, L2Of(call.va).child, L2_INDEX(call.va), r.child)
             /\ \A va \in Nat : WalkOf(r.mem, l1_table, va) = WalkOf(mem, l1_table, va)
<1> DEFINE l2 == L2Of(call.va)
<1>1. call.va \in Nat /\ phase # "off"
  BY MapRunning DEF IInv
<1>2. L1_INDEX(call.va) \in Indices /\ L2_INDEX(call.va) \in Indices
  BY <1>1, IndexTypes
<1>3. PICK T2, T3 : Shape(mem, l1_table, T2, T3, free, data)
  BY <1>1 DEF IInv, ShapeInv, Started
<1>4. /\ \E U2 : Shape(l2.mem, l1_table, U2, T3, l2.free, data) /\ l2.child \in U2
      /\ Leads(l2.mem, l1_table, L1_INDEX(call.va), l2.child)
      /\ \A va \in Nat : WalkOf(l2.mem, l1_table, va) = WalkOf(mem, l1_table, va)
  BY <1>2, <1>3, GetL2 DEF L2Of
<1>5. PICK U2 : Shape(l2.mem, l1_table, U2, T3, l2.free, data) /\ l2.child \in U2
  BY <1>4
<1>6. L3Of(call.va) = _get_or_alloc_table(l2.mem, l2.free, l2.child, L2_INDEX(call.va))
  BY DEF L3Of
<1> HIDE DEF l2
<1>7. LET r == L3Of(call.va)
      IN  /\ \E U3 : /\ Shape(r.mem, l1_table, U2, U3, r.free, data)
                     /\ r.child # 0 => r.child \in U3
          /\ r.mem[l1_table] = l2.mem[l1_table]
          /\ r.child # 0 => Leads(r.mem, l2.child, L2_INDEX(call.va), r.child)
          /\ \A va \in Nat : WalkOf(r.mem, l1_table, va) = WalkOf(l2.mem, l1_table, va)
  BY <1>2, <1>5, <1>6, GetL3, SMTT(30)
<1>8. Leads(L3Of(call.va).mem, l1_table, L1_INDEX(call.va), l2.child)
  BY <1>4, <1>7 DEF Leads
<1> QED
  BY <1>4, <1>5, <1>7, <1>8 DEF l2

LEMMA MapPageInv ==
  ASSUME IInv, MapPage
  PROVE  IInv'
<1> DEFINE l3 == L3Of(call.va)
<1>1. /\ call.op = "map" /\ L2Of(call.va).child # 0 /\ l3.child # 0
      /\ mem' = [l3.mem EXCEPT ![l3.child][L3_INDEX(call.va)] = PageEntry(call.pa, call.kind)]
      /\ free' = l3.free /\ call' = Advance(call)
      /\ UNCHANGED <<phase, booted, l1_table, data>>
  BY SMTT(30) DEF MapPage
<1>2. PICK T2, T3 : Shape(l3.mem, l1_table, T2, T3, l3.free, data) /\ l3.child \in T3
  BY <1>1, StepTables
<1> HIDE DEF l3
<1>3. /\ phase # "off" /\ call.va \in Nat /\ call.kind \in Kinds
      /\ call.pa \in Nat /\ call.left \in Nat \ {0}
      /\ call.pa .. call.pa + call.left - 1 \subseteq PPages
  BY <1>1, MapRunning DEF IInv
<1>4. call.pa \in PPages /\ L3_INDEX(call.va) \in Indices
  BY <1>3, RangeTail, IndexTypes
<1> DEFINE entry == PageEntry(call.pa, call.kind)
<1>9. entry \in Descriptors /\ entry.kind \in Kinds
  BY <1>3, <1>4 DEF PageEntry, Descriptors
<1> HIDE DEF entry
<1>5. Shape(mem', l1_table, T2, T3, free', data)
  <2>1. Shape([l3.mem EXCEPT ![l3.child][L3_INDEX(call.va)] = entry],
              l1_table, T2, T3, l3.free, data)
    BY <1>2, <1>4, <1>9, SetLeaf
  <2> QED
    BY <1>1, <2>1 DEF entry
<1>6. ShapeInv'
  BY <1>1, <1>5 DEF ShapeInv
<1>7. CallInv'
  BY <1>1, <1>3, AdvanceCall, SMTT(30) DEF IInv
<1>8. StateInv'
  BY <1>1, <1>5 DEF IInv, StateInv, Shape, Parts
<1> QED
  BY <1>6, <1>7, <1>8, SMTT(30) DEF IInv

LEMMA OnlyUnmapUnmaps ==
  ASSUME UnmapReturnsEarly \/ UnmapPage
  PROVE  call.op = "unmap"
BY Zenon DEF UnmapReturnsEarly, UnmapPage

LEMMA MapNoL3Inv ==
  ASSUME IInv, MapNoL3
  PROVE  IInv'
<1> DEFINE l3 == L3Of(call.va)
<1>1. /\ call.op = "map" /\ L2Of(call.va).child # 0
      /\ mem' = l3.mem /\ free' = l3.free /\ call' = Idle
      /\ UNCHANGED <<phase, booted, l1_table, data>>
  BY DEF MapNoL3
<1>2. PICK T2, T3 : Shape(l3.mem, l1_table, T2, T3, l3.free, data)
  BY <1>1, StepTables
<1> HIDE DEF l3
<1>3. ShapeInv' /\ CallInv'
  BY <1>1, <1>2 DEF ShapeInv, CallInv
<1>4. StateInv'
  BY <1>1, <1>2 DEF IInv, StateInv, Shape, Parts
<1> QED
  BY <1>3, <1>4 DEF IInv

\* The tables a step of unmap works with.
L2At(va) == mem[l1_table][L1_INDEX(va)].pa
L3At(va) == mem[L2At(va)][L2_INDEX(va)].pa

LEMMA UnmapTables ==
  ASSUME IInv, UnmapPage
  PROVE  /\ phase = "on" /\ l1_table # 0 /\ call.va \in VPages
         /\ \E T2, T3 : /\ Shape(mem, l1_table, T2, T3, free, data)
                        /\ L2At(call.va) \in T2 /\ L3At(call.va) \in T3
         /\ Leads(mem, l1_table, L1_INDEX(call.va), L2At(call.va))
         /\ Leads(mem, L2At(call.va), L2_INDEX(call.va), L3At(call.va))
         /\ mem' = Put(mem, L3At(call.va), L3_INDEX(call.va), Invalid)
<1> DEFINE va == call.va
           l2 == L2At(va)
           l3 == L3At(va)
<1>1. /\ call.op = "unmap" /\ mem' = Put(mem, l3, L3_INDEX(va), Invalid)
      /\ Leads(mem, l1_table, L1_INDEX(va), l2) /\ Leads(mem, l2, L2_INDEX(va), l3)
  BY Zenon DEF UnmapPage, Put, Leads, L2At, L3At
<1>2. phase = "on" /\ va \in VPages /\ va \in Nat
  BY <1>1, UnmapRunning, UnmappedArePages, RangeTail DEF IInv
<1>3. PICK T2, T3 : Shape(mem, l1_table, T2, T3, free, data)
  BY <1>2 DEF IInv, ShapeInv, Started
<1>4. L1_INDEX(va) \in Indices /\ L2_INDEX(va) \in Indices
  BY <1>2, IndexTypes
<1> HIDE DEF va, l2, l3
<1>5. LeadsDown(mem, l1_table, T2, T3)
  BY <1>3, WalksDown
<1>6. l2 \in T2
  BY <1>1, <1>4, <1>5, Zenon DEF LeadsDown, Leads
<1>7. l3 \in T3
  BY <1>1, <1>4, <1>5, <1>6, Zenon DEF LeadsDown, Leads
<1>8. l1_table # 0
  BY <1>2 DEF IInv, StateInv
<1> QED
  BY <1>1, <1>2, <1>3, <1>6, <1>7, <1>8 DEF va, l2, l3

\* A step of unmap that frees no table.
LEMMA UnmapPageInv ==
  ASSUME IInv, UnmapPage, UNCHANGED free
  PROVE  IInv'
<1>1. /\ call.op = "unmap" /\ call' = Advance(call)
      /\ UNCHANGED <<phase, booted, l1_table, data>>
  BY Zenon DEF UnmapPage
<1>2. PICK T2, T3 : Shape(mem, l1_table, T2, T3, free, data) /\ L3At(call.va) \in T3
  BY UnmapTables
<1>3. L3_INDEX(call.va) \in Indices
  BY UnmapTables, IndexTypes, Constants DEF VPages
<1>4. Shape(mem', l1_table, T2, T3, free, data)
  <2>1. Shape(Put(mem, L3At(call.va), L3_INDEX(call.va), Invalid), l1_table, T2, T3, free, data)
    BY <1>2, <1>3, DescriptorTypes, SetLeaf DEF Put
  <2> QED
    BY <2>1, UnmapTables
<1>5. ShapeInv'
  BY <1>1, <1>4 DEF ShapeInv
<1>6. CallInv'
  BY <1>1, AdvanceUnmap DEF IInv
<1>7. StateInv'
  BY <1>1, <1>4 DEF IInv, StateInv, Shape
<1> QED
  BY <1>5, <1>6, <1>7 DEF IInv

LEMMA unmapInv ==
  ASSUME IInv, NEW r \in UnmapRanges, unmap(r[1], r[2])
  PROVE  IInv'
<1>1. /\ phase = "on" /\ call' = UnmapCall(r[1], r[2])
      /\ UNCHANGED <<phase, booted, l1_table, mem, free, data>>
  BY DEF unmap
<1>2. /\ r[1] \in Nat /\ r[2] \in Nat \ {0}
      /\ r[1] .. r[1] + r[2] - 1 \subseteq PagesOf(UnmapRanges)
  BY RangesAssumption DEF PagesOf
<1>3. call'.va = r[1] /\ call'.left = r[2]
  BY <1>1 DEF UnmapCall
<1>4. CallInv'
  BY <1>1, <1>2, <1>3 DEF CallInv
<1>5. StateInv' /\ ShapeInv'
  BY <1>1 DEF IInv, StateInv, ShapeInv, Started
<1> QED
  BY <1>4, <1>5 DEF IInv

\* Only a step of unmap can break the tree: the one that frees a table.
LEMMA StepInv ==
  ASSUME IInv, [Next]_vars, UnmapPage => UNCHANGED free
  PROVE  IInv'
<1>0. ASSUME call' = Idle, UNCHANGED <<phase, booted, l1_table, mem, free, data>>
      PROVE  IInv'
  BY <1>0 DEF IInv, StateInv, CallInv, ShapeInv, Started
<1>1. CASE mmu_init
  BY <1>1, mmu_init_Inv
<1>2. CASE MapBootRegion
  BY <1>2, MapBootRegionInv
<1>3. CASE EnableMMU
  BY <1>3, EnableMMUInv
<1>4. CASE alloc_frame
  BY <1>4, alloc_frame_Inv
<1>5. CASE \E r \in MapRanges, pa \in data : map(r[1], pa, r[2], "normal")
  BY <1>5, mapInv
<1>6. CASE MapStep
  <2>1. CASE MapPage
    BY <2>1, MapPageInv
  <2>2. CASE MapNoL2
    BY <1>0, <2>2 DEF MapNoL2
  <2>3. CASE MapNoL3
    BY <2>3, MapNoL3Inv
  <2> QED
    BY <1>6, <2>1, <2>2, <2>3 DEF MapStep
<1>7. CASE \E r \in UnmapRanges : unmap(r[1], r[2])
  BY <1>7, unmapInv
<1>8. CASE UnmapReturnsEarly
  BY <1>0, <1>8 DEF UnmapReturnsEarly
<1>9. CASE UnmapPage
  BY <1>9, UnmapPageInv
<1>10. CASE UNCHANGED vars
  BY <1>10, SMTT(30) DEF vars, IInv, StateInv, CallInv, ShapeInv, Started
<1> QED
  BY <1>1, <1>2, <1>3, <1>4, <1>5, <1>6, <1>7, <1>8, <1>9, <1>10 DEF Next

-----------------------------------------------------------------------------
(* What the inductive invariant says of the properties.                    *)

LEMMA ChildrenOf ==
  ASSUME NEW ts, NEW kids, Linked(mem, ts, kids)
  PROVE  Children(ts) = kids
<1>1. ASSUME NEW k \in Children(ts) PROVE k \in kids
  BY <1>1 DEF Children, Slots, Linked
<1>2. ASSUME NEW k \in kids PROVE k \in Children(ts)
  <2>1. PICK t \in ts, i \in Indices : Valid(mem[t][i]) /\ mem[t][i].pa = k
    BY <1>2 DEF Linked
  <2>2. <<t, i>> \in Slots(ts)
    BY <2>1 DEF Slots
  <2> QED
    BY <2>1, <2>2 DEF Children
<1> QED
  BY <1>1, <1>2

LEMMA TablesOfShape ==
  ASSUME NEW T2, NEW T3, Shape(mem, l1_table, T2, T3, free, data)
  PROVE  L2Tables = T2 /\ L3Tables = T3 /\ Tables = {l1_table} \cup T2 \cup T3
<1>1. L2Tables = T2
  BY ChildrenOf DEF Shape, L2Tables
<1>2. L3Tables = T3
  BY <1>1, ChildrenOf DEF Shape, L3Tables
<1> QED
  BY <1>1, <1>2 DEF Tables

LEMMA IInvTypeOK == IInv => TypeOK
<1> SUFFICES ASSUME IInv PROVE TypeOK
  OBVIOUS
<1>1. CASE call.op = "map"
  <2>1. call.va \in VPages /\ call.pa \in PPages /\ call.left \in Nat \ {0} /\ call.kind \in Kinds
    BY <1>1, MapRunning, RangeTail DEF IInv
  <2> QED
    BY <1>1, <2>1 DEF TypeOK, IInv, StateInv, Memory
<1>2. CASE call.op = "unmap"
  <2>1. call.va \in VPages /\ call.left \in Nat \ {0}
    BY <1>2, UnmapRunning, UnmappedArePages, RangeTail DEF IInv
  <2> QED
    BY <1>2, <2>1 DEF TypeOK, IInv, StateInv, Memory
<1>3. call = Idle \/ call.op = "map" \/ call.op = "unmap"
  BY DEF IInv, CallInv, MapCall, UnmapCall
<1>4. CASE call = Idle
  BY <1>4, SMTT(30) DEF TypeOK, IInv, StateInv, Memory
<1> QED
  BY <1>1, <1>2, <1>3, <1>4

LEMMA IInvTree == IInv => TableTree
<1> SUFFICES ASSUME IInv, Started PROVE TableTree
  BY DEF TableTree
<1>1. PICK T2, T3 : Shape(mem, l1_table, T2, T3, free, data)
  BY DEF IInv, ShapeInv
<1>2. L2Tables = T2 /\ L3Tables = T3 /\ Tables = {l1_table} \cup T2 \cup T3
  BY <1>1, TablesOfShape
<1> DEFINE links == Slots({l1_table} \cup L2Tables)
\* A link comes from the L1 table and leads to an L2 table, or comes from an
\* L2 table and leads to an L3 table.
<1>3. ASSUME NEW s \in links
      PROVE  /\ s[2] \in Indices /\ Valid(mem[s[1]][s[2]]) /\ s = <<s[1], s[2]>>
             /\ mem[s[1]][s[2]].kind = "table"
             /\ \/ s[1] = l1_table /\ mem[s[1]][s[2]].pa \in T2
                \/ s[1] \in T2 /\ mem[s[1]][s[2]].pa \in T3
  <2>1. /\ s[1] \in {l1_table} \cup T2 /\ s[2] \in Indices /\ s = <<s[1], s[2]>>
        /\ Valid(mem[s[1]][s[2]])
    BY <1>2 DEF Slots
  <2> QED
    BY <1>1, <2>1 DEF Shape, Linked
<1>4. ASSUME NEW s \in links, NEW t \in links, mem[s[1]][s[2]] = mem[t[1]][t[2]]
      PROVE  s = t
  <2>1. /\ T2 \cap T3 = {} /\ l1_table \notin T2
        /\ Once(mem, {l1_table}) /\ Once(mem, T2)
    BY <1>1 DEF Shape, Parts
  <2>4. /\ s[2] \in Indices /\ t[2] \in Indices
        /\ Valid(mem[s[1]][s[2]]) /\ Valid(mem[t[1]][t[2]])
        /\ mem[s[1]][s[2]].pa = mem[t[1]][t[2]].pa
    BY <1>3, <1>4, SMTT(30)
  <2>2. CASE s[1] = l1_table /\ t[1] = l1_table
    <3>1. s[2] = t[2]
      BY <2>1, <2>2, <2>4 DEF Once
    <3> QED
      BY <1>3, <2>2, <3>1
  <2>3. CASE s[1] \in T2 /\ t[1] \in T2
    <3>1. s[1] = t[1] /\ s[2] = t[2]
      BY <2>1, <2>3, <2>4 DEF Once
    <3> QED
      BY <1>3, <3>1, SMTT(30)
  <2> QED
    BY <1>3, <1>4, <2>1, <2>2, <2>3
<1>5. l1_table \notin L2Tables \cup L3Tables /\ L2Tables \cap L3Tables = {} /\ Tables \subseteq Frames
  BY <1>1, <1>2 DEF Shape, Parts
<1>6. \A s \in Slots(L3Tables) : mem[s[1]][s[2]].kind \in Kinds
  BY <1>1, <1>2 DEF Slots, Shape, Leaves
<1> QED
  BY <1>3, <1>4, <1>5, <1>6 DEF TableTree

LEMMA IInvFrames == IInv => FrameAccounting /\ NoDescriptorToFreeFrame
<1> SUFFICES ASSUME IInv, Started PROVE FrameAccounting /\ NoDescriptorToFreeFrame
  BY DEF FrameAccounting, NoDescriptorToFreeFrame
<1>1. PICK T2, T3 : Shape(mem, l1_table, T2, T3, free, data)
  BY DEF IInv, ShapeInv
<1>2. Tables = {l1_table} \cup T2 \cup T3
  BY <1>1, TablesOfShape
<1> QED
  BY <1>1, <1>2 DEF Shape, Parts, FrameAccounting, NoDescriptorToFreeFrame

-----------------------------------------------------------------------------
(* The tables implement the address space.                                 *)

VM == [p \in VPages |-> translate(p)]

LEMMA SameNames ==
  /\ AS!Idle = Idle /\ AS!Unmapped = Invalid /\ AS!Advance(call) = Advance(call)
  /\ \A pa, kind : AS!Mapping(pa, kind) = PageEntry(pa, kind)
BY DEF AS!Idle, Idle, AS!Unmapped, Invalid, AS!Advance, Advance, AS!Mapping, PageEntry

LEMMA PagesAreNat == VPages \subseteq Nat
BY Constants DEF VPages

LEMMA InitImplements == Init => AS!Init
BY SMTT(30) DEF Init, AS!Init, AS!Unmapped, AS!Idle, Idle, Invalid, translate

\* The walk before a step and after it.
LEMMA WalkBeforeAfter ==
  ASSUME l1_table # 0, UNCHANGED l1_table
  PROVE  /\ VM  = [p \in VPages |-> WalkOf(mem, l1_table, p)]
         /\ VM' = [p \in VPages |-> WalkOf(mem', l1_table, p)]
BY DEF VM, translate, WalkOf

LEMMA mmu_init_Stutters ==
  ASSUME IInv, mmu_init
  PROVE  UNCHANGED AS!vars
<1> DEFINE l1 == PMM!FirstFit(Frames)
<1>1. /\ l1_table = 0 /\ l1_table' = l1 /\ UNCHANGED call
      /\ mem' = [mem EXCEPT ![l1] = EmptyTable] /\ mem \in Memory
  BY DEF mmu_init, IInv, StateInv
<1>2. l1 \in Frames
  BY FirstFitIsFree, MMUAssumption
<1> HIDE DEF l1
<1>3. mem'[l1] = EmptyTable
  BY <1>1, <1>2, SMTT(30) DEF Memory
<1>4. ASSUME NEW p \in VPages
      PROVE  translate(p) = Invalid /\ translate(p)' = Invalid
  <2>1. translate(p) = Invalid
    BY <1>1 DEF translate
  <2>2. L1_INDEX(p) \in Indices
    BY PagesAreNat, IndexTypes
  <2>3. ~Valid(mem'[l1_table'][L1_INDEX(p)])
    BY <1>1, <1>3, <2>2, DescriptorTypes
  <2> QED
    BY <2>1, <2>3, Zenon DEF translate
<1> QED
  BY <1>1, <1>4 DEF AS!vars

LEMMA BeginImplements ==
  ASSUME IInv, IInv', call = Idle, call' # Idle, UNCHANGED <<l1_table, mem>>
  PROVE  AS!Begin
<1>1. ASSUME call' = MapCall(call'.va, call'.pa, call'.left, call'.kind)
      PROVE  call' \in AS!MapCalls
  <2>1. /\ call'.va \in Nat /\ call'.pa \in Nat /\ call'.left \in Nat \ {0} /\ call'.kind \in Kinds
        /\ call'.va .. call'.va + call'.left - 1 \subseteq VPages
        /\ call'.pa .. call'.pa + call'.left - 1 \subseteq PPages
    BY <1>1 DEF IInv, CallInv, MapCall, UnmapCall
  <2>2. call'.va \in VPages /\ call'.pa \in PPages
    BY <2>1, RangeTail
  <2> QED
    BY <1>1, <2>1, <2>2 DEF AS!MapCalls, MapCall
<1>2. ASSUME call' = UnmapCall(call'.va, call'.left)
      PROVE  call' \in AS!UnmapCalls
  <2>1. /\ call'.va \in Nat /\ call'.left \in Nat \ {0}
        /\ call'.va .. call'.va + call'.left - 1 \subseteq PagesOf(UnmapRanges)
    BY <1>2 DEF IInv, CallInv, MapCall, UnmapCall
  <2>2. call'.va \in VPages
    BY <2>1, RangeTail, UnmappedArePages
  <2> QED
    BY <1>2, <2>1, <2>2 DEF AS!UnmapCalls, UnmapCall
<1>3. call' \in AS!MapCalls \cup AS!UnmapCalls
  BY <1>1, <1>2 DEF IInv, CallInv
<1> QED
  BY <1>3, SameNames DEF AS!Begin, translate

\* A step of map that writes its page changes the mapping of this page, also
\* when it creates the tables for it, and of no other.
LEMMA MapPageImplements ==
  ASSUME IInv, MapPage
  PROVE  AS!MapPage
<1> DEFINE l3 == L3Of(call.va)
           entry == PageEntry(call.pa, call.kind)
<1>1. /\ call.op = "map" /\ L2Of(call.va).child # 0 /\ l3.child # 0
      /\ mem' = [l3.mem EXCEPT ![l3.child][L3_INDEX(call.va)] = entry]
      /\ call' = Advance(call) /\ UNCHANGED l1_table
  BY DEF MapPage
<1>2. l1_table # 0 /\ call.va \in VPages
  BY <1>1, MapRunning, RangeTail, SMTT(30) DEF IInv, StateInv
<1>3. PICK T2, T3 : /\ Shape(l3.mem, l1_table, T2, T3, l3.free, data)
                    /\ L2Of(call.va).child \in T2 /\ l3.child \in T3
  BY <1>1, StepTables, SMTT(30)
<1>4. /\ Leads(l3.mem, l1_table, L1_INDEX(call.va), L2Of(call.va).child)
      /\ Leads(l3.mem, L2Of(call.va).child, L2_INDEX(call.va), l3.child)
      /\ \A va \in Nat : WalkOf(l3.mem, l1_table, va) = WalkOf(mem, l1_table, va)
  BY <1>1, StepTables
<1> HIDE DEF l3, entry
<1>5. /\ WalkOf(mem', l1_table, call.va) = entry
      /\ \A p \in VPages \ {call.va} : WalkOf(mem', l1_table, p) = WalkOf(l3.mem, l1_table, p)
  <2> DEFINE va == call.va
             l2 == L2Of(call.va).child
             t  == l3.child
             m  == l3.mem
             av == l3.free
  <2>1. /\ va \in VPages /\ l2 \in T2 /\ t \in T3 /\ Shape(m, l1_table, T2, T3, av, data)
        /\ Leads(m, l1_table, L1_INDEX(va), l2) /\ Leads(m, l2, L2_INDEX(va), t)
    BY <1>2, <1>3, <1>4
  <2>2. mem' = Put(m, t, L3_INDEX(va), entry)
    BY <1>1 DEF Put
  <2> HIDE DEF va, l2, t, m, av
  <2>3. /\ WalkOf(mem', l1_table, va) = entry
        /\ \A p \in VPages \ {va} : WalkOf(mem', l1_table, p) = WalkOf(m, l1_table, p)
    BY <2>1, <2>2, SetLeafWalk
  <2> QED
    BY <2>3 DEF va, m
<1>6. VM' = [VM EXCEPT ![call.va] = entry]
  <2> DEFINE before(p) == WalkOf(mem, l1_table, p)
             after(p)  == WalkOf(mem', l1_table, p)
  <2>1. after(call.va) = entry /\ \A p \in VPages \ {call.va} : after(p) = before(p)
    BY <1>4, <1>5, PagesAreNat
  <2>2. VM = [p \in VPages |-> before(p)] /\ VM' = [p \in VPages |-> after(p)]
    BY <1>1, <1>2, WalkBeforeAfter
  <2> HIDE DEF before, after
  <2> QED
    BY <1>2, <2>1, <2>2
<1>7. VM' = [VM EXCEPT ![call.va] = AS!Mapping(call.pa, call.kind)]
  BY <1>6, SameNames DEF entry
<1> QED
  BY <1>1, <1>7, SameNames DEF AS!MapPage, VM

\* A step of map that finds no frame changes no mapping.
LEMMA GiveUpImplements ==
  ASSUME IInv, MapNoL2 \/ MapNoL3
  PROVE  AS!GiveUpMap
<1>1. call.op = "map" /\ call' = Idle /\ UNCHANGED l1_table
  BY DEF MapNoL2, MapNoL3
<1>2. l1_table # 0
  BY <1>1, MapRunning DEF IInv, StateInv
<1>3. \A va \in Nat : WalkOf(mem', l1_table, va) = WalkOf(mem, l1_table, va)
  <2>1. CASE MapNoL2
    BY <2>1 DEF MapNoL2
  <2>2. CASE MapNoL3
    <3>1. mem' = L3Of(call.va).mem /\ L2Of(call.va).child # 0
      BY <2>2 DEF MapNoL3
    <3> QED
      BY <1>1, <3>1, StepTables
  <2> QED
    BY <2>1, <2>2
<1>4. UNCHANGED VM
  BY <1>1, <1>2, <1>3, WalkBeforeAfter, PagesAreNat
<1> QED
  BY <1>1, <1>4, SameNames DEF AS!GiveUpMap, VM

\* A step of unmap clears the mapping of its page, and of no other.
LEMMA PageCleared ==
  ASSUME IInv, UnmapPage
  PROVE  /\ WalkOf(mem', l1_table, call.va) = Invalid
         /\ \A p \in VPages \ {call.va} : WalkOf(mem', l1_table, p) = WalkOf(mem, l1_table, p)
<1>1. PICK T2, T3 : /\ Shape(mem, l1_table, T2, T3, free, data)
                    /\ L2At(call.va) \in T2 /\ L3At(call.va) \in T3
  BY UnmapTables
<1> QED
  BY <1>1, UnmapTables, SetLeafWalk

LEMMA UnmapPageImplements ==
  ASSUME IInv, UnmapPage
  PROVE  AS!UnmapPage
<1> DEFINE before(p) == WalkOf(mem, l1_table, p)
           after(p)  == WalkOf(mem', l1_table, p)
<1>1. /\ call.va \in VPages /\ l1_table # 0 /\ after(call.va) = Invalid
      /\ \A p \in VPages \ {call.va} : after(p) = before(p)
  BY UnmapTables, PageCleared
<1>2. call.op = "unmap" /\ call' = Advance(call) /\ UNCHANGED l1_table
  BY Zenon DEF UnmapPage
<1>3. VM = [p \in VPages |-> before(p)] /\ VM' = [p \in VPages |-> after(p)]
  BY <1>1, <1>2, WalkBeforeAfter
<1> HIDE DEF before, after
<1>4. VM' = [VM EXCEPT ![call.va] = Invalid]
  BY <1>1, <1>3
<1> QED
  BY <1>2, <1>4, SameNames DEF AS!UnmapPage, VM

\* An unmap that gives up has met a page that is not mapped.
LEMMA UnmapGivesUp ==
  ASSUME IInv, UnmapReturnsEarly
  PROVE  AS!GiveUpUnmap
<1>1. /\ call.op = "unmap" /\ call' = Idle /\ UNCHANGED <<l1_table, mem>>
      /\ Valid(mem[l1_table][L1_INDEX(call.va)])
           => ~Valid(mem[mem[l1_table][L1_INDEX(call.va)].pa][L2_INDEX(call.va)])
  BY Zenon DEF UnmapReturnsEarly
<1>2. call.va \in VPages
  BY <1>1, UnmapRunning, UnmappedArePages, RangeTail DEF IInv
<1>3. translate(call.va) = Invalid
  BY <1>1, Zenon DEF translate
<1>4. UNCHANGED VM
  BY <1>1 DEF VM, translate
<1>5. VM[call.va] = Invalid
  BY <1>2, <1>3, Zenon DEF VM
<1> QED
  BY <1>1, <1>4, <1>5, SameNames DEF AS!GiveUpUnmap, VM

LEMMA StepImplements ==
  ASSUME IInv, IInv', [Next]_vars
  PROVE  [AS!Next]_(AS!vars)
<1>2. ASSUME UNCHANGED <<l1_table, mem, call>> PROVE UNCHANGED AS!vars
  BY <1>2 DEF AS!vars, translate
<1>3. CASE mmu_init
  BY <1>3, mmu_init_Stutters
<1>4. CASE MapBootRegion
  <2>1. call = Idle /\ call' # Idle /\ UNCHANGED <<l1_table, mem>>
    BY <1>4 DEF MapBootRegion, MapCall, Idle
  <2> QED
    BY <2>1, BeginImplements DEF AS!Next
<1>5. CASE EnableMMU \/ alloc_frame \/ UNCHANGED vars
  BY <1>2, <1>5 DEF EnableMMU, alloc_frame, vars
<1>6. CASE \E r \in MapRanges, pa \in data : map(r[1], pa, r[2], "normal")
  <2>1. call = Idle /\ call' # Idle /\ UNCHANGED <<l1_table, mem>>
    BY <1>6 DEF map, MapCall, Idle
  <2> QED
    BY <2>1, BeginImplements DEF AS!Next
<1>7. CASE MapStep
  <2>1. AS!MapPage \/ AS!GiveUpMap
    BY <1>7, MapPageImplements, GiveUpImplements, Zenon DEF MapStep
  <2> QED
    BY <2>1, Zenon DEF AS!Next
<1>8. CASE \E r \in UnmapRanges : unmap(r[1], r[2])
  <2>1. call = Idle /\ call' # Idle /\ UNCHANGED <<l1_table, mem>>
    BY <1>8 DEF unmap, UnmapCall, Idle
  <2> QED
    BY <2>1, BeginImplements DEF AS!Next
<1>9. CASE UnmapReturnsEarly \/ UnmapPage
  <2>1. AS!UnmapPage \/ AS!GiveUpUnmap
    BY <1>9, UnmapPageImplements, UnmapGivesUp, Zenon
  <2> QED
    BY <2>1, Zenon DEF AS!Next
<1> QED
  BY <1>3, <1>4, <1>5, <1>6, <1>7, <1>8, <1>9 DEF Next

-----------------------------------------------------------------------------
(* The boot map.                                                           *)

LEMMA TablesForFinite ==
  ASSUME NEW pages, IsFiniteSet(pages)
  PROVE  IsFiniteSet(TablesFor(pages))
<1> DEFINE ones == {<<L1_INDEX(p)>> : p \in pages}
           twos == {<<L1_INDEX(p), L2_INDEX(p)>> : p \in pages}
           f == [p \in pages |-> <<L1_INDEX(p)>>]
           g == [p \in pages |-> <<L1_INDEX(p), L2_INDEX(p)>>]
<1>1. f \in Surjection(pages, ones) /\ g \in Surjection(pages, twos)
  BY DEF Surjection
<1> HIDE DEF ones, twos, f, g
<1>2. IsFiniteSet(ones) /\ IsFiniteSet(twos) /\ IsFiniteSet({<< >>})
  BY <1>1, FS_Surjection, FS_Singleton
<1> QED
  BY <1>2, FS_Union DEF TablesFor, ones, twos

LEMMA BootPagesFinite == IsFiniteSet(BootPages)
<1>1. ENTRIES * ENTRIES * ENTRIES - 1 \in Int
  BY Constants
<1>2. IsFiniteSet(VPages)
  BY <1>1, FS_Interval DEF VPages
<1> QED
  BY <1>2, FS_Subset DEF BootPages

\* Only tables with such names are linked.
Named(m, l1, ids) ==
  \A i, j \in Indices :
    Valid(m[l1][i]) => /\ <<i>> \in ids
                       /\ Valid(m[m[l1][i].pa][j]) => <<i, j>> \in ids

\* When no frame is free, every frame that is not in dt is a table, and one of
\* the names, which leads to no table, is left over.
LEMMA Exhausted ==
  ASSUME NEW m, NEW l1, NEW T2, NEW T3, NEW dt, Shape(m, l1, T2, T3, {}, dt),
         NEW ids, IsFiniteSet(ids), << >> \in ids, Named(m, l1, ids), NEW left \in ids,
         \/ \E i \in Indices : left = <<i>> /\ ~Valid(m[l1][i])
         \/ \E i, j \in Indices : left = <<i, j>> /\ ~Valid(m[m[l1][i].pa][j])
  PROVE  Cardinality(Frames \ dt) < Cardinality(ids) /\ IsFiniteSet(Frames \ dt)
<1> DEFINE At(id) == IF Len(id) = 1 THEN m[l1][id[1]].pa
                     ELSE IF Len(id) = 2 THEN m[m[l1][id[1]].pa][id[2]].pa
                     ELSE l1
           names == ids \ {left}
           f == [id \in names |-> IF At(id) \in Frames \ dt THEN At(id) ELSE l1]
<1>0. /\ At(<< >>) = l1 /\ \A i : At(<<i>>) = m[l1][i].pa
      /\ \A i, j : At(<<i, j>>) = m[m[l1][i].pa][j].pa
  OBVIOUS
<1> HIDE DEF At
<1>1. {l1} \cup T2 \cup T3 = Frames \ dt /\ left # << >>
  <2>1. Parts(l1, T2, T3, {}, dt)
    BY DEF Shape
  <2>2. {l1} \cup T2 \cup T3 = Frames \ dt
    BY <2>1 DEF Parts
  <2>3. \A i, j : <<i>> # << >> /\ <<i, j>> # << >>
    OBVIOUS
  <2> QED
    BY <2>2, <2>3, ZenonT(60)
<1>2. ASSUME NEW t \in T2
      PROVE  \E id \in names : At(id) = t
  <2>1. PICK i \in Indices : Valid(m[l1][i]) /\ m[l1][i].pa = t
    BY SMTT(30) DEF Shape, Linked
  <2>2. <<i>> \in ids /\ left # <<i>>
    <3>1. ASSUME NEW k \in Indices, left = <<k>>, ~Valid(m[l1][k]) PROVE left # <<i>>
      BY <2>1, <3>1
    <3>2. ASSUME NEW k \in Indices, NEW j \in Indices, left = <<k, j>> PROVE left # <<i>>
      BY <3>2
    <3> QED
      BY <2>1, <3>1, <3>2 DEF Named
  <2>3. <<i>> \in names /\ At(<<i>>) = t
    BY <1>0, <2>1, <2>2
  <2> QED
    BY <2>3, ZenonT(60)
<1>3. ASSUME NEW t \in T3
      PROVE  \E id \in names : At(id) = t
  <2>1. PICK u \in T2, j \in Indices : Valid(m[u][j]) /\ m[u][j].pa = t
    BY SMTT(30) DEF Shape, Linked
  <2>2. PICK i \in Indices : Valid(m[l1][i]) /\ m[l1][i].pa = u
    BY SMTT(30) DEF Shape, Linked
  <2>3. <<i, j>> \in ids /\ left # <<i, j>>
    <3>1. ASSUME NEW k \in Indices, left = <<k>> PROVE left # <<i, j>>
      BY <3>1
    <3>2. ASSUME NEW k \in Indices, NEW h \in Indices, left = <<k, h>>,
                 ~Valid(m[m[l1][k].pa][h])
          PROVE  left # <<i, j>>
      BY <2>1, <2>2, <3>2
    <3> QED
      BY <2>1, <2>2, <3>1, <3>2 DEF Named
  <2>4. <<i, j>> \in names /\ At(<<i, j>>) = t
    BY <1>0, <2>1, <2>2, <2>3, SMTT(30)
  <2> QED
    BY <2>4, ZenonT(60)
<1>4. << >> \in names /\ At(<< >>) = l1
  BY <1>0, <1>1
<1>5. \A t \in Frames \ dt : \E id \in names : At(id) = t
  BY <1>1, <1>2, <1>3, <1>4
<1>6. f \in Surjection(names, Frames \ dt)
  BY <1>1, <1>5 DEF Surjection
<1> HIDE DEF f
<1>7. /\ IsFiniteSet(names) /\ Cardinality(names) = Cardinality(ids) - 1
      /\ Cardinality(ids) \in Nat
  BY FS_RemoveElement, FS_CardinalityType
<1>8. Cardinality(Frames \ dt) <= Cardinality(names) /\ IsFiniteSet(Frames \ dt)
  BY <1>6, <1>7, FS_Surjection
<1>9. Cardinality(Frames \ dt) \in Nat
  BY <1>8, FS_CardinalityType
<1> QED
  BY <1>7, <1>8, <1>9, SMTT(30)

\* The table that is found or created at an index is the only one that is new.
LEMMA GetL2Named ==
  ASSUME NEW m, NEW l1, NEW T2, NEW T3, NEW av, NEW dt, Shape(m, l1, T2, T3, av, dt),
         NEW ids, Named(m, l1, ids), NEW i \in Indices, <<i>> \in ids
  PROVE  Named(_get_or_alloc_table(m, av, l1, i).mem, l1, ids)
<1> DEFINE c == PMM!FirstFit(av)
           n == Link(m, c, l1, i)
<1>1. CASE Valid(m[l1][i]) \/ c = 0
  BY <1>1 DEF _get_or_alloc_table
<1>2. CASE ~Valid(m[l1][i]) /\ c # 0
  <2>1. m \in Memory /\ l1 \in Frames /\ av \subseteq Frames /\ T2 \subseteq Frames
    BY DEF Shape, Parts
  <2>2. c \in av
    BY <1>2, <2>1, FirstFitIsFree DEF PMM!FirstFit
  <2>3. _get_or_alloc_table(m, av, l1, i).mem = n
    BY <1>2 DEF _get_or_alloc_table, Link
  <2>4. c \in Frames /\ c # l1 /\ c \notin T2
    BY <2>2 DEF Shape, Parts
  <2>5. /\ n[c] = EmptyTable /\ n[l1][i] = TableEntry(c)
        /\ \A k \in Indices \ {i} : n[l1][k] = m[l1][k]
        /\ \A t \in Frames \ {c, l1} : n[t] = m[t]
    BY <2>1, <2>4, LinkEffect
  <2> HIDE DEF n, c
  <2>6. ASSUME NEW k \in Indices, NEW j \in Indices, Valid(n[l1][k])
        PROVE  /\ <<k>> \in ids
               /\ Valid(n[n[l1][k].pa][j]) => <<k, j>> \in ids
    <3>1. CASE k = i
      <4>1. n[n[l1][k].pa][j] = EmptyTable[j]
        BY <2>5, <3>1, SMTT(30) DEF TableEntry
      <4> QED
        BY <3>1, <4>1, DescriptorTypes
    <3>2. CASE k # i
      <4>1. n[l1][k] = m[l1][k] /\ Valid(m[l1][k])
        BY <2>5, <2>6, <3>2
      <4>2. m[l1][k].pa \in T2 /\ l1 \notin T2
        BY <4>1 DEF Shape, Parts, Linked
      <4>3. n[m[l1][k].pa] = m[m[l1][k].pa]
        BY <2>1, <2>4, <2>5, <4>2
      <4> QED
        BY <4>1, <4>3 DEF Named
    <3> QED
      BY <3>1, <3>2
  <2>7. Named(n, l1, ids)
    BY <2>6 DEF Named
  <2> QED
    BY <2>3, <2>7
<1> QED
  BY <1>1, <1>2

LEMMA GetL3Named ==
  ASSUME NEW m, NEW l1, NEW T2, NEW T3, NEW av, NEW dt, Shape(m, l1, T2, T3, av, dt),
         NEW ids, Named(m, l1, ids),
         NEW i \in Indices, NEW table \in T2, Leads(m, l1, i, table),
         NEW e \in Indices, <<i, e>> \in ids
  PROVE  Named(_get_or_alloc_table(m, av, table, e).mem, l1, ids)
<1> DEFINE c == PMM!FirstFit(av)
           n == Link(m, c, table, e)
<1>1. CASE Valid(m[table][e]) \/ c = 0
  BY <1>1 DEF _get_or_alloc_table
<1>2. CASE ~Valid(m[table][e]) /\ c # 0
  <2>1. /\ m \in Memory /\ l1 \in Frames /\ av \subseteq Frames /\ T2 \subseteq Frames
        /\ l1 \notin T2 /\ table \in Frames /\ table # l1
    BY DEF Shape, Parts
  <2>2. c \in av
    BY <1>2, <2>1, FirstFitIsFree DEF PMM!FirstFit
  <2>3. _get_or_alloc_table(m, av, table, e).mem = n
    BY <1>2 DEF _get_or_alloc_table, Link
  <2>4. c \in Frames /\ c # l1 /\ c \notin T2 /\ c # table
    BY <2>2 DEF Shape, Parts
  <2>5. /\ n \in Memory /\ n[c] = EmptyTable /\ n[table][e] = TableEntry(c)
        /\ \A k \in Indices \ {e} : n[table][k] = m[table][k]
        /\ \A t \in Frames \ {c, table} : n[t] = m[t]
    <3> HIDE DEF c
    <3> QED
      BY <2>1, <2>4, LinkEffect, SMTT(60)
  <2> HIDE DEF n, c
  <2>6. ASSUME NEW k \in Indices, NEW h \in Indices, Valid(n[l1][k])
        PROVE  /\ <<k>> \in ids
               /\ Valid(n[n[l1][k].pa][h]) => <<k, h>> \in ids
    <3>1. n[l1] = m[l1] /\ Valid(m[l1][k]) /\ m[l1][k].pa \in T2
      BY <2>1, <2>4, <2>5, <2>6 DEF Shape, Linked
    <3>2. CASE m[l1][k].pa = table /\ h = e
      <4>1. k = i
        BY <3>1, <3>2, SMTT(30) DEF Shape, Once, Leads
      <4> QED
        BY <3>1, <3>2, <4>1 DEF Named
    <3>3. CASE ~(m[l1][k].pa = table /\ h = e)
      <4>1. n[m[l1][k].pa][h] = m[m[l1][k].pa][h]
        BY <2>1, <2>4, <2>5, <3>1, <3>3, SMTT(30)
      <4> QED
        BY <3>1, <4>1 DEF Named
    <3> QED
      BY <3>2, <3>3
  <2>7. Named(n, l1, ids)
    BY <2>6 DEF Named
  <2> QED
    BY <2>3, <2>7
<1> QED
  BY <1>1, <1>2

\* A table is found or created as long as there are frames for all of ids.
LEMMA NamedL2 ==
  ASSUME NEW m, NEW l1, NEW T2, NEW T3, NEW av, NEW dt, Shape(m, l1, T2, T3, av, dt),
         NEW ids, IsFiniteSet(ids), << >> \in ids, Named(m, l1, ids),
         Cardinality(ids) <= Cardinality(Frames \ dt),
         NEW i \in Indices, <<i>> \in ids
  PROVE  _get_or_alloc_table(m, av, l1, i).child # 0
<1>1. av \subseteq Frames /\ T2 \subseteq Frames
  BY DEF Shape, Parts
<1>2. CASE Valid(m[l1][i])
  <2>1. m[l1][i].pa \in T2
    BY <1>2 DEF Shape, Linked
  <2> QED
    BY <1>1, <1>2, <2>1, Constants DEF _get_or_alloc_table
<1>3. CASE ~Valid(m[l1][i])
  <2>1. av # {}
    <3> SUFFICES ASSUME av = {} PROVE FALSE
      OBVIOUS
    <3>1. Cardinality(Frames \ dt) < Cardinality(ids) /\ IsFiniteSet(Frames \ dt)
      BY <1>3, Exhausted
    <3> QED
      BY <3>1, FS_CardinalityType
  <2>2. PMM!FirstFit(av) # 0
    BY <1>1, <2>1, FirstFitIsFree
  <2> QED
    BY <1>3, <2>2 DEF _get_or_alloc_table
<1> QED
  BY <1>2, <1>3

LEMMA NamedL3 ==
  ASSUME NEW m, NEW l1, NEW T2, NEW T3, NEW av, NEW dt, Shape(m, l1, T2, T3, av, dt),
         NEW ids, IsFiniteSet(ids), << >> \in ids, Named(m, l1, ids),
         Cardinality(ids) <= Cardinality(Frames \ dt),
         NEW i \in Indices, NEW table \in T2, Leads(m, l1, i, table),
         NEW e \in Indices, <<i, e>> \in ids
  PROVE  _get_or_alloc_table(m, av, table, e).child # 0
<1>1. av \subseteq Frames /\ T3 \subseteq Frames
  BY DEF Shape, Parts
<1>2. CASE Valid(m[table][e])
  <2>1. m[table][e].pa \in T3
    BY <1>2 DEF Shape, Linked
  <2> QED
    BY <1>1, <1>2, <2>1, Constants DEF _get_or_alloc_table
<1>3. CASE ~Valid(m[table][e])
  <2>1. av # {}
    <3> SUFFICES ASSUME av = {} PROVE FALSE
      OBVIOUS
    <3>1. ~Valid(m[m[l1][i].pa][e])
      BY <1>3 DEF Leads
    <3>2. Cardinality(Frames \ dt) < Cardinality(ids) /\ IsFiniteSet(Frames \ dt)
      BY <3>1, Exhausted
    <3> QED
      BY <3>2, FS_CardinalityType
  <2>2. PMM!FirstFit(av) # 0
    BY <1>1, <2>1, FirstFitIsFree
  <2> QED
    BY <1>3, <2>2 DEF _get_or_alloc_table
<1> QED
  BY <1>2, <1>3

LEMMA NamedLeaf ==
  ASSUME NEW m, NEW l1, NEW T2, NEW T3, NEW av, NEW dt, Shape(m, l1, T2, T3, av, dt),
         NEW ids, Named(m, l1, ids), NEW t \in T3, NEW i \in Indices, NEW entry
  PROVE  Named(Put(m, t, i, entry), l1, ids)
<1> DEFINE n == Put(m, t, i, entry)
<1>1. /\ m \in Memory /\ T2 \subseteq Frames \ {t} /\ l1 \in Frames \ {t}
  BY DEF Shape, Parts
<1>2. \A u \in Frames \ {t} : n[u] = m[u]
  BY <1>1 DEF Memory, Put
<1> HIDE DEF n
<1>3. \A k \in Indices : Valid(m[l1][k]) => n[m[l1][k].pa] = m[m[l1][k].pa]
  BY <1>1, <1>2 DEF Shape, Linked
<1>4. n[l1] = m[l1]
  BY <1>1, <1>2, SMTT(30)
<1>5. Named(n, l1, ids)
  BY <1>3, <1>4 DEF Named
<1> QED
  BY <1>5 DEF n

\* The n-th region has been mapped over page p.
Through(n, p) ==
  /\ n \in 1 .. booted /\ Covers(BootRegions[n], p)
  /\ n = booted /\ call # Idle => p < call.va

Names == TablesFor(BootPages)

\* While mmu_init maps, pages are as the last region over them says, and a
\* map that is under way is for the last region.
BootInv ==
  /\ phase = "off" => booted = 0
  /\ phase = "mapping" =>
       /\ data = {} /\ Named(mem, l1_table, Names)
       /\ call # Idle => /\ booted >= 1 /\ call.op = "map" /\ call.va = call.pa
                         /\ call.kind = BootRegions[booted].kind
                         /\ call.va >= BootRegions[booted].base
                         /\ call.va + call.left = BootRegions[booted].base + BootRegions[booted].pages
       /\ \A n \in Nat, p \in VPages : Through(n, p) /\ (\A k \in Nat : Through(k, p) => k <= n) =>
            WalkOf(mem, l1_table, p) = PageEntry(p, BootRegions[n].kind)

\* Afterwards calls map other pages.
StayInv ==
  phase = "on" =>
    /\ \A p \in BootPages : WalkOf(mem, l1_table, p) = PageEntry(p, LastRegion(p).kind)
    /\ call # Idle => (call.va .. call.va + call.left - 1) \cap BootPages = {}

LEMMA RegionsOf ==
  ASSUME NEW n \in 1 .. Len(BootRegions)
  PROVE  /\ BootRegions[n].base \in Nat /\ BootRegions[n].pages \in Nat \ {0}
         /\ BootRegions[n].kind \in Kinds
         /\ \A p : Covers(BootRegions[n], p) => p \in BootPages
BY RangesAssumption DEF BootPages, Covers

\* The region that decides a page is the last one that covers it.
LEMMA LastCovers ==
  ASSUME NEW p \in BootPages
  PROVE  \E n \in 1 .. Len(BootRegions) :
           /\ Covers(BootRegions[n], p) /\ LastRegion(p) = BootRegions[n]
           /\ \A k \in 1 .. Len(BootRegions) : Covers(BootRegions[k], p) => k <= n
<1> DEFINE S == {n \in 1 .. Len(BootRegions) : Covers(BootRegions[n], p)}
           N == Len(BootRegions)
           T == {N - n : n \in S}
<1>1. S # {} /\ N \in Nat
  BY RangesAssumption DEF BootPages
<1>2. T \subseteq Nat /\ T # {}
  BY <1>1
<1>3. Min(T) \in T /\ \A y \in T : Min(T) <= y
  BY <1>2, MinOfNat
<1>4. PICK m \in S : Min(T) = N - m
  BY <1>3
<1>5. ASSUME NEW n \in S PROVE n <= m
  <2>1. N - n \in T /\ n \in Int /\ m \in Int
    OBVIOUS
  <2>2. N - m <= N - n
    BY <1>3, <1>4, <2>1
  <2> QED
    BY <1>1, <2>1, <2>2
<1>6. Max(S) \in S /\ \A n \in S : Max(S) >= n
  BY <1>4, <1>5 DEF Max
<1> HIDE DEF S
<1>7. LastRegion(p) = BootRegions[Max(S)]
  BY DEF LastRegion, S
<1> QED
  BY <1>6, <1>7 DEF S

LEMMA InitBoot == Init => BootInv /\ StayInv
BY DEF Init, BootInv, StayInv

LEMMA mmu_init_Boot ==
  ASSUME IInv, BootInv, mmu_init
  PROVE  BootInv' /\ StayInv'
<1> DEFINE l1 == PMM!FirstFit(Frames)
<1>1. /\ phase = "off" /\ phase' = "mapping" /\ l1_table' = l1 /\ call = Idle /\ call' = Idle
      /\ mem' = [mem EXCEPT ![l1] = EmptyTable] /\ data' = {} /\ booted' = 0 /\ mem \in Memory
  BY DEF mmu_init, IInv, StateInv, CallInv, BootInv
<1>2. l1 \in Frames
  BY FirstFitIsFree, MMUAssumption
<1> HIDE DEF l1
<1>3. mem'[l1] = EmptyTable
  BY <1>1, <1>2 DEF Memory
<1>4. Named(mem', l1, Names)
  BY <1>3, DescriptorTypes DEF Named
<1>5. \A n, p : ~Through(n, p)'
  BY <1>1, SMTT(30) DEF Through
<1> QED
  BY <1>1, <1>4, <1>5 DEF BootInv, StayInv, Names

LEMMA MapBootRegionBoot ==
  ASSUME IInv, BootInv, MapBootRegion
  PROVE  BootInv' /\ StayInv'
<1> DEFINE region == BootRegions[booted + 1]
<1>1. /\ phase = "mapping" /\ booted < Len(BootRegions) /\ booted' = booted + 1 /\ call = Idle
      /\ call' = MapCall(region.base, region.base, region.pages, region.kind)
      /\ UNCHANGED <<phase, l1_table, mem, free, data>>
  BY DEF MapBootRegion
<1>2. booted \in Nat /\ Len(BootRegions) \in Nat /\ booted + 1 \in 1 .. Len(BootRegions)
  BY <1>1, RangesAssumption DEF IInv, StateInv
<1>3. region.base \in Nat /\ region.pages \in Nat \ {0} /\ region = BootRegions[booted']
  BY <1>1, <1>2, RegionsOf
<1> HIDE DEF region
<1>4. /\ call' # Idle /\ call'.op = "map" /\ call'.va = region.base /\ call'.pa = region.base
      /\ call'.left = region.pages /\ call'.kind = region.kind
  BY <1>1 DEF MapCall, Idle
<1>5. ASSUME NEW n \in Nat, NEW p \in VPages PROVE Through(n, p)' <=> Through(n, p)
  <2>1. p \in Nat
    BY Constants, SMTT(30) DEF VPages
  <2>2. CASE n = booted + 1
    BY <1>1, <1>2, <1>3, <1>4, <2>1, <2>2, SMTT(30) DEF Through, Covers
  <2>3. CASE n # booted + 1
    BY <1>1, <1>2, <1>4, <2>3 DEF Through
  <2> QED
    BY <2>2, <2>3
<1>6. booted' >= 1
  BY <1>1, <1>2
<1> QED
  BY <1>1, <1>3, <1>4, <1>5, <1>6 DEF BootInv, StayInv, Names

LEMMA EnableMMUBoot ==
  ASSUME IInv, BootInv, EnableMMU
  PROVE  BootInv' /\ StayInv'
<1>1. /\ phase = "mapping" /\ phase' = "on" /\ call = Idle /\ call' = Idle
      /\ booted = Len(BootRegions) /\ UNCHANGED <<l1_table, mem>>
  BY DEF EnableMMU
<1>2. ASSUME NEW p \in BootPages
      PROVE  WalkOf(mem, l1_table, p) = PageEntry(p, LastRegion(p).kind)
  <2>1. PICK n \in 1 .. Len(BootRegions) :
          /\ Covers(BootRegions[n], p) /\ LastRegion(p) = BootRegions[n]
          /\ \A k \in 1 .. Len(BootRegions) : Covers(BootRegions[k], p) => k <= n
    BY LastCovers
  <2>2. n \in Nat /\ p \in VPages
    BY DEF BootPages
  <2>3. Through(n, p) /\ \A k \in Nat : Through(k, p) => k <= n
    BY <1>1, <2>1 DEF Through
  <2> QED
    BY <1>1, <2>1, <2>2, <2>3 DEF BootInv
<1> QED
  BY <1>1, <1>2 DEF BootInv, StayInv

\* A step of map links no tables but the two of its page, and finds them when
\* there are frames for all of ids.
LEMMA StepNamed ==
  ASSUME IInv, call.op = "map", NEW ids, Named(mem, l1_table, ids),
         <<L1_INDEX(call.va)>> \in ids
  PROVE  /\ Named(L2Of(call.va).mem, l1_table, ids)
         /\ L2Of(call.va).child # 0 /\ <<L1_INDEX(call.va), L2_INDEX(call.va)>> \in ids
              => Named(L3Of(call.va).mem, l1_table, ids)
         /\ IsFiniteSet(ids) /\ << >> \in ids
            /\ <<L1_INDEX(call.va), L2_INDEX(call.va)>> \in ids
            /\ Cardinality(ids) <= Cardinality(Frames \ data)
              => L2Of(call.va).child # 0 /\ L3Of(call.va).child # 0
<1> DEFINE va == call.va
           i  == L1_INDEX(va)
           j  == L2_INDEX(va)
           l2 == L2Of(va)
<1>1. va \in Nat /\ phase # "off"
  BY MapRunning DEF IInv
<1>2. PICK T2, T3 : Shape(mem, l1_table, T2, T3, free, data)
  BY <1>1 DEF IInv, ShapeInv, Started
<1>3. i \in Indices /\ j \in Indices
  BY <1>1, IndexTypes
<1>4. l2 = _get_or_alloc_table(mem, free, l1_table, i)
  BY DEF L2Of
<1>5. L3Of(va) = _get_or_alloc_table(l2.mem, l2.free, l2.child, j)
  BY DEF L3Of
<1>6. <<i>> \in ids
  OBVIOUS
<1> HIDE DEF va, i, j, l2
<1>7. Named(l2.mem, l1_table, ids)
  BY <1>2, <1>3, <1>4, <1>6, GetL2Named
<1>8. IsFiniteSet(ids) /\ << >> \in ids /\ Cardinality(ids) <= Cardinality(Frames \ data)
        => l2.child # 0
  BY <1>2, <1>3, <1>4, <1>6, NamedL2
<1>9. ASSUME l2.child # 0, <<i, j>> \in ids
      PROVE  /\ Named(L3Of(va).mem, l1_table, ids)
             /\ IsFiniteSet(ids) /\ << >> \in ids
                /\ Cardinality(ids) <= Cardinality(Frames \ data) => L3Of(va).child # 0
  <2>1. /\ \E U2 : Shape(l2.mem, l1_table, U2, T3, l2.free, data) /\ l2.child \in U2
        /\ Leads(l2.mem, l1_table, i, l2.child)
    BY <1>2, <1>3, <1>4, <1>9, GetL2
  <2>2. PICK U2 : Shape(l2.mem, l1_table, U2, T3, l2.free, data) /\ l2.child \in U2
    BY <2>1
  <2> DEFINE m == l2.mem
             t == l2.child
             av == l2.free
  <2>3. /\ Shape(m, l1_table, U2, T3, av, data) /\ t \in U2 /\ Leads(m, l1_table, i, t)
        /\ Named(m, l1_table, ids) /\ L3Of(va) = _get_or_alloc_table(m, av, t, j)
    BY <1>5, <1>7, <2>1, <2>2
  <2> HIDE DEF m, t, av
  <2>4. Named(L3Of(va).mem, l1_table, ids)
    BY <1>3, <1>9, <2>3, GetL3Named
  <2>5. IsFiniteSet(ids) /\ << >> \in ids /\ Cardinality(ids) <= Cardinality(Frames \ data)
          => L3Of(va).child # 0
    BY <1>3, <1>9, <2>3, NamedL3
  <2> QED
    BY <2>4, <2>5
<1> QED
  BY <1>7, <1>8, <1>9 DEF va, i, j, l2

\* Writing the leaf links no table.
LEMMA PageNamed ==
  ASSUME IInv, MapPage, NEW ids, Named(L3Of(call.va).mem, l1_table, ids)
  PROVE  Named(mem', l1_table, ids)
<1> DEFINE l3 == L3Of(call.va)
           entry == PageEntry(call.pa, call.kind)
<1>1. /\ call.op = "map" /\ L2Of(call.va).child # 0 /\ l3.child # 0
      /\ mem' = Put(l3.mem, l3.child, L3_INDEX(call.va), entry)
  BY DEF MapPage, Put
<1>2. PICK T2, T3 : Shape(l3.mem, l1_table, T2, T3, l3.free, data) /\ l3.child \in T3
  BY <1>1, StepTables
<1>3. L3_INDEX(call.va) \in Indices
  BY <1>1, MapRunning, IndexTypes DEF IInv
<1> DEFINE m == l3.mem
           t == l3.child
           av == l3.free
<1>4. Shape(m, l1_table, T2, T3, av, data) /\ t \in T3 /\ Named(m, l1_table, ids)
  BY <1>2
<1> HIDE DEF l3, m, t, av, entry
<1>5. Named(Put(m, t, L3_INDEX(call.va), entry), l1_table, ids)
  BY <1>3, <1>4, NamedLeaf
<1> QED
  BY <1>1, <1>5, SMTT(30) DEF m, t

\* Pages that are mapped have all their tables, each in a frame of its own.
LEMMA TablesTaken ==
  ASSUME NEW m, NEW l1, NEW T2, NEW T3, NEW av, NEW dt, Shape(m, l1, T2, T3, av, dt),
         IsFiniteSet(Frames), NEW pages, pages \subseteq Nat,
         \A p \in pages : Valid(WalkOf(m, l1, p))
  PROVE  Cardinality(TablesFor(pages)) <= Cardinality(Frames \ dt)
<1> DEFINE At(id) == IF Len(id) = 1 THEN m[l1][id[1]].pa
                     ELSE IF Len(id) = 2 THEN m[m[l1][id[1]].pa][id[2]].pa
                     ELSE l1
           One(id) == \E i \in Indices : id = <<i>> /\ Valid(m[l1][i])
           Two(id) == \E i, j \in Indices :
                        id = <<i, j>> /\ Valid(m[l1][i]) /\ Valid(m[m[l1][i].pa][j])
           names == TablesFor(pages)
           f == [id \in names |-> At(id)]
<1>1. /\ {l1} \cup T2 \cup T3 \subseteq Frames \ dt
      /\ l1 \notin T2 \cup T3 /\ T2 \cap T3 = {}
  BY DEF Shape, Parts
<1>13. /\ Once(m, {l1}) /\ Once(m, T2)
       /\ \A i \in Indices : Valid(m[l1][i]) => m[l1][i].pa \in T2
  BY DEF Shape, Linked
<1>14. /\ \A i, k \in Indices :
            Valid(m[l1][i]) /\ Valid(m[l1][k]) /\ m[l1][i].pa = m[l1][k].pa => i = k
       /\ \A t, u \in T2, j, h \in Indices :
            Valid(m[t][j]) /\ Valid(m[u][h]) /\ m[t][j].pa = m[u][h].pa => t = u /\ j = h
  BY <1>13, Zenon DEF Once
<1>2. ASSUME NEW id \in names PROVE id = << >> \/ One(id) \/ Two(id)
  <2>1. ASSUME NEW p \in pages
        PROVE  /\ L1_INDEX(p) \in Indices /\ L2_INDEX(p) \in Indices
               /\ Valid(m[l1][L1_INDEX(p)]) /\ Valid(m[m[l1][L1_INDEX(p)].pa][L2_INDEX(p)])
    BY <2>1, IndexTypes, DescriptorTypes, Zenon DEF WalkOf
  <2> QED
    BY <2>1 DEF TablesFor
<1>5. At(<< >>) = l1
  OBVIOUS
<1>12. /\ \A i : At(<<i>>) = m[l1][i].pa /\ Len(<<i>>) = 1
       /\ \A i, j : At(<<i, j>>) = m[m[l1][i].pa][j].pa /\ Len(<<i, j>>) = 2
  BY SMTT(30)
<1> HIDE DEF At
<1>3. ASSUME NEW id, One(id) PROVE At(id) \in T2 /\ Len(id) = 1
  BY <1>3, <1>12, SMTT(30) DEF Shape, Linked
<1>4. ASSUME NEW id, Two(id) PROVE At(id) \in T3 /\ Len(id) = 2
  <2>1. PICK i, j \in Indices :
          id = <<i, j>> /\ Valid(m[l1][i]) /\ Valid(m[m[l1][i].pa][j])
    BY <1>4, SMTT(30)
  <2>2. m[l1][i].pa \in T2
    BY <2>1, SMTT(30) DEF Shape, Linked
  <2>3. m[m[l1][i].pa][j].pa \in T3
    BY <2>1, <2>2 DEF Shape, Linked
  <2> QED
    BY <1>12, <2>1, <2>3, SMTT(30)
<1>6. ASSUME NEW x, NEW y, One(x), One(y), At(x) = At(y) PROVE x = y
  <2>1. PICK i \in Indices : x = <<i>> /\ Valid(m[l1][i])
    BY <1>6
  <2>2. PICK k \in Indices : y = <<k>> /\ Valid(m[l1][k])
    BY <1>6, SMTT(30)
  <2>3. m[l1][i].pa = m[l1][k].pa
    BY <1>6, <1>12, <2>1, <2>2
  <2>4. i = k
    BY <1>14, <2>1, <2>2, <2>3, Zenon
  <2> QED
    BY <2>1, <2>2, <2>4, Zenon
<1>7. ASSUME NEW x, NEW y, Two(x), Two(y), At(x) = At(y) PROVE x = y
  <2>1. PICK i, j \in Indices :
          x = <<i, j>> /\ Valid(m[l1][i]) /\ Valid(m[m[l1][i].pa][j])
    BY <1>7, Zenon
  <2>2. PICK k, h \in Indices :
          y = <<k, h>> /\ Valid(m[l1][k]) /\ Valid(m[m[l1][k].pa][h])
    BY <1>7, Zenon
  <2> HIDE DEF One, Two
  <2>3. m[m[l1][i].pa][j].pa = m[m[l1][k].pa][h].pa
    <3>1. At(x) = m[m[l1][i].pa][j].pa
      BY <1>12, <2>1, ZenonT(60)
    <3>2. At(y) = m[m[l1][k].pa][h].pa
      BY <1>12, <2>2, ZenonT(60)
    <3> QED
      BY <1>7, <3>1, <3>2, Zenon
  <2>4. PICK u : u = m[l1][i].pa
    OBVIOUS
  <2>5. PICK w : w = m[l1][k].pa
    OBVIOUS
  <2>6. u \in T2 /\ w \in T2
    BY <1>13, <2>1, <2>2, <2>4, <2>5, Zenon
  <2>7. Valid(m[u][j]) /\ Valid(m[w][h]) /\ m[u][j].pa = m[w][h].pa
    BY <2>1, <2>2, <2>3, <2>4, <2>5, Zenon
  <2>8. u = w /\ j = h
    BY <1>14, <2>6, <2>7, ZenonT(60)
  <2>9. i = k
    BY <1>14, <2>1, <2>2, <2>4, <2>5, <2>8, Zenon
  <2> QED
    BY <2>1, <2>2, <2>8, <2>9, Zenon
<1> HIDE DEF At, One, Two, names
<1>8. \A id \in names : At(id) \in Frames \ dt
  BY <1>1, <1>2, <1>3, <1>4, <1>5
<1>9. \A x, y \in names : At(x) = At(y) => x = y
  BY <1>1, <1>2, <1>3, <1>4, <1>5, <1>6, <1>7
<1>10. f \in Injection(names, Frames \ dt)
  BY <1>8, <1>9 DEF Injection, IsInjective
<1> HIDE DEF f
<1>11. IsFiniteSet(Frames \ dt)
  BY FS_Difference
<1> QED
  BY <1>10, <1>11, FS_Injection DEF names

\* A map of mmu_init finds its tables.
LEMMA BootTables ==
  ASSUME IInv, BootInv, FramesSuffice, phase = "mapping", call.op = "map"
  PROVE  /\ L2Of(call.va).child # 0 /\ L3Of(call.va).child # 0
         /\ Named(L3Of(call.va).mem, l1_table, Names)
<1> DEFINE va == call.va
<1>1. /\ Named(mem, l1_table, Names) /\ data = {} /\ va \in BootPages
  <2>1. /\ Named(mem, l1_table, Names) /\ data = {} /\ va \in Nat /\ call.left \in Nat \ {0}
        /\ va >= BootRegions[booted].base
        /\ va + call.left = BootRegions[booted].base + BootRegions[booted].pages
        /\ booted \in 1 .. Len(BootRegions)
    BY MapRunning, RangesAssumption DEF IInv, StateInv, BootInv
  <2>2. Covers(BootRegions[booted], va)
    BY <2>1, RegionsOf, SMTT(30) DEF Covers
  <2> QED
    BY <2>1, <2>2, RegionsOf
<1>2. <<L1_INDEX(va)>> \in Names /\ <<L1_INDEX(va), L2_INDEX(va)>> \in Names /\ << >> \in Names
  BY <1>1 DEF Names, TablesFor
<1>3. Frames \ data = Frames
  BY <1>1
<1>4. IsFiniteSet(Names) /\ Cardinality(Names) <= Cardinality(Frames \ data)
  BY <1>3, BootPagesFinite, TablesForFinite DEF Names, FramesSuffice
<1> HIDE DEF Names
<1> QED
  BY <1>1, <1>2, <1>4, StepNamed

\* What a page of map leaves: the walk of that page leads to its frame, and
\* nothing else changes.
LEMMA PageWritten ==
  ASSUME IInv, MapPage
  PROVE  /\ call.va \in VPages
         /\ WalkOf(mem', l1_table, call.va) = PageEntry(call.pa, call.kind)
         /\ \A p \in VPages \ {call.va} : WalkOf(mem', l1_table, p) = WalkOf(mem, l1_table, p)
<1> DEFINE l3 == L3Of(call.va)
           entry == PageEntry(call.pa, call.kind)
<1>1. /\ call.op = "map" /\ L2Of(call.va).child # 0 /\ l3.child # 0
      /\ mem' = [l3.mem EXCEPT ![l3.child][L3_INDEX(call.va)] = entry]
      /\ call' = Advance(call) /\ UNCHANGED l1_table
  BY DEF MapPage
<1>2. AS!MapPage
  BY MapPageImplements
<1>3. l1_table # 0 /\ call.va \in VPages
  BY <1>1, MapRunning, RangeTail DEF IInv, StateInv
<1>4. VM' = [VM EXCEPT ![call.va] = entry]
  BY <1>2, SameNames DEF AS!MapPage, VM
<1> HIDE DEF entry
<1>5. \A p \in VPages : VM[p] = WalkOf(mem, l1_table, p) /\ VM'[p] = WalkOf(mem', l1_table, p)
  BY <1>1, <1>3, WalkBeforeAfter
<1>6. \A p \in VPages : VM'[p] = IF p = call.va THEN entry ELSE VM[p]
  BY <1>3, <1>4 DEF VM
<1> QED
  BY <1>3, <1>5, <1>6 DEF entry

LEMMA MapPageBoot ==
  ASSUME IInv, BootInv, StayInv, FramesSuffice, MapPage
  PROVE  BootInv' /\ StayInv'
<1> DEFINE va == call.va
           l3 == L3Of(va)
<1>1. /\ call.op = "map" /\ call' = Advance(call) /\ UNCHANGED <<phase, booted, l1_table, data>>
      /\ L2Of(va).child # 0 /\ l3.child # 0
      /\ mem' = [l3.mem EXCEPT ![l3.child][L3_INDEX(va)] = PageEntry(call.pa, call.kind)]
  BY DEF MapPage
<1>2. /\ phase # "off" /\ call # Idle /\ va \in Nat /\ call.left \in Nat \ {0} /\ call.pa \in Nat
      /\ call = MapCall(va, call.pa, call.left, call.kind)
  BY <1>1, MapRunning DEF IInv
<1>3. /\ va \in VPages
      /\ WalkOf(mem', l1_table, va) = PageEntry(call.pa, call.kind)
      /\ \A p \in VPages \ {va} : WalkOf(mem', l1_table, p) = WalkOf(mem, l1_table, p)
  BY PageWritten
<1>4. IF call.left = 1 THEN call' = Idle
      ELSE /\ call' # Idle /\ call'.op = "map" /\ call'.va = va + 1 /\ call'.pa = call.pa + 1
           /\ call'.left = call.left - 1 /\ call'.kind = call.kind
  BY <1>1, <1>2 DEF Advance, MapCall, Idle
<1>5. CASE phase = "mapping"
  <2> DEFINE region == BootRegions[booted]
  <2>1. /\ data = {} /\ booted \in 1 .. Len(BootRegions) /\ call.va = call.pa
        /\ call.kind = region.kind /\ va >= region.base
        /\ va + call.left = region.base + region.pages
    BY <1>2, <1>5, RangesAssumption DEF BootInv, IInv, StateInv
  <2>2. region.base \in Nat /\ region.pages \in Nat \ {0}
    BY <2>1, RegionsOf
  <2>3. Named(mem', l1_table, Names)
    <3>1. Named(l3.mem, l1_table, Names)
      BY <1>1, <1>5, BootTables
    <3> QED
      BY <3>1, PageNamed
  <2>4. ASSUME NEW n \in Nat, NEW p \in VPages
        PROVE  Through(n, p)' <=> Through(n, p) \/ (n = booted /\ p = va)
    <3>1. p \in Nat
      BY Constants DEF VPages
    <3>2. CASE n # booted
      BY <1>1, <3>2 DEF Through
    <3>3. CASE n = booted
      <4>1. Through(n, p) <=> Covers(region, p) /\ p < va
        BY <1>2, <2>1, <3>3, SMTT(30) DEF Through
      <4>2. Through(n, p)' <=> Covers(region, p) /\ (call' # Idle => p < call'.va)
        BY <1>1, <2>1, <3>3 DEF Through
      <4>3. Covers(region, p) <=> region.base <= p /\ p < region.base + region.pages
        BY <2>2, <3>1 DEF Covers
      <4> HIDE DEF region
      <4>4. CASE call.left = 1
        BY <1>2, <1>4, <2>1, <2>2, <3>1, <3>3, <4>1, <4>2, <4>3, <4>4, SMTT(30)
      <4>5. CASE call.left # 1
        BY <1>2, <1>4, <2>1, <2>2, <3>1, <3>3, <4>1, <4>2, <4>3, <4>5, SMTT(30)
      <4> QED
        BY <4>4, <4>5
    <3> QED
      BY <3>2, <3>3
  <2>5. ASSUME NEW n \in Nat, NEW p \in VPages,
               Through(n, p)', \A k \in Nat : Through(k, p)' => k <= n
        PROVE  WalkOf(mem', l1_table, p) = PageEntry(p, BootRegions[n].kind)
    <3>1. CASE p = va
      <4>1. n <= booted
        BY <1>1, <2>1, <2>5 DEF Through
      <4>2. booted <= n
        BY <2>1, <2>4, <2>5, <3>1
      <4>3. n = booted
        BY <2>1, <4>1, <4>2
      <4> QED
        BY <1>3, <2>1, <3>1, <4>3
    <3>2. CASE p # va
      <4>1. Through(n, p) /\ \A k \in Nat : Through(k, p) => k <= n
        BY <2>4, <2>5, <3>2
      <4> QED
        BY <1>3, <1>5, <3>2, <4>1 DEF BootInv
    <3> QED
      BY <3>1, <3>2
  <2>6. call' # Idle => /\ booted >= 1 /\ call'.op = "map" /\ call'.va = call'.pa
                        /\ call'.kind = region.kind /\ call'.va >= region.base
                        /\ call'.va + call'.left = region.base + region.pages
    <3> SUFFICES ASSUME call' # Idle
                 PROVE  /\ booted >= 1 /\ call'.op = "map" /\ call'.va = call'.pa
                        /\ call'.kind = region.kind /\ call'.va >= region.base
                        /\ call'.va + call'.left = region.base + region.pages
      OBVIOUS
    <3>1. /\ call'.op = "map" /\ call'.va = va + 1 /\ call'.pa = call.pa + 1
          /\ call'.left = call.left - 1 /\ call'.kind = call.kind
      BY <1>4, Zenon
    <3>2. call'.va = call'.pa /\ call'.kind = region.kind
      BY <2>1, <3>1, Zenon
    <3>3. PICK l : l = call.left
      OBVIOUS
    <3> HIDE DEF va, region
    <3>4. va + 1 >= region.base /\ (va + 1) + (l - 1) = region.base + region.pages /\ booted >= 1
      BY <1>2, <2>1, <2>2, <3>3, SMTT(30)
    <3> QED
      BY <3>1, <3>2, <3>3, <3>4, Zenon
  <2>7. phase' = "mapping" /\ phase' # "off" /\ phase' # "on" /\ data' = {} /\ booted' = booted
    BY <1>1, <1>5, <2>1
  <2>8. StayInv'
    BY <2>7 DEF StayInv
  <2>9. Named(mem', l1_table', Names')
    BY <1>1, <2>3 DEF Names
  <2> HIDE DEF va, l3
  <2>10. BootInv'
    BY <1>1, <2>5, <2>6, <2>7, <2>9, Zenon DEF BootInv
  <2> QED
    BY <2>8, <2>10
<1>6. CASE phase = "on"
  <2>1. (va .. va + call.left - 1) \cap BootPages = {}
    BY <1>2, <1>6 DEF StayInv
  <2>2. va \notin BootPages /\ BootPages \subseteq VPages
    BY <1>2, <2>1, SMTT(30) DEF BootPages
  <2>3. \A p \in BootPages : WalkOf(mem', l1_table, p) = PageEntry(p, LastRegion(p).kind)
    BY <1>3, <1>6, <2>2 DEF StayInv
  <2>4. call' # Idle => (call'.va .. call'.va + call'.left - 1) \cap BootPages = {}
    <3> SUFFICES ASSUME call.left # 1
                 PROVE  (call'.va .. call'.va + call'.left - 1) \subseteq va .. va + call.left - 1
      BY <1>4, <2>1
    <3> QED
      BY <1>2, <1>4
  <2> QED
    BY <1>1, <1>6, <2>3, <2>4 DEF BootInv, StayInv
<1> QED
  BY <1>2, <1>5, <1>6 DEF IInv, StateInv

LEMMA GiveUpBoot ==
  ASSUME IInv, BootInv, StayInv, FramesSuffice, MapNoL2 \/ MapNoL3
  PROVE  BootInv' /\ StayInv'
<1>1. call.op = "map" /\ call' = Idle /\ UNCHANGED <<phase, booted, l1_table>>
  BY DEF MapNoL2, MapNoL3
<1>2. phase = "on"
  <2>1. phase # "off" /\ phase \in {"off", "mapping", "on"}
    BY <1>1, MapRunning DEF IInv, StateInv
  <2>2. phase # "mapping"
    BY <1>1, BootTables DEF MapNoL2, MapNoL3
  <2> QED
    BY <2>1, <2>2
<1>3. \A va \in Nat : WalkOf(mem', l1_table, va) = WalkOf(mem, l1_table, va)
  <2>1. CASE MapNoL2
    BY <2>1 DEF MapNoL2
  <2>2. CASE MapNoL3
    <3>1. mem' = L3Of(call.va).mem /\ L2Of(call.va).child # 0
      BY <2>2 DEF MapNoL3
    <3> QED
      BY <1>1, <3>1, StepTables
  <2> QED
    BY <2>1, <2>2
<1>4. BootPages \subseteq Nat
  BY PagesAreNat DEF BootPages
<1> QED
  BY <1>1, <1>2, <1>3, <1>4 DEF BootInv, StayInv

LEMMA mapBoot ==
  ASSUME IInv, BootInv, StayInv, MapsElsewhere,
         NEW r \in MapRanges, NEW pa \in data, map(r[1], pa, r[2], "normal")
  PROVE  BootInv' /\ StayInv'
<1>1. /\ phase = "on" /\ call' = MapCall(r[1], pa, r[2], "normal")
      /\ UNCHANGED <<phase, booted, l1_table, mem>>
  BY DEF map
<1>2. call'.va = r[1] /\ call'.left = r[2]
  BY <1>1 DEF MapCall
<1> QED
  BY <1>1, <1>2 DEF BootInv, StayInv, MapsElsewhere

LEMMA unmapBoot ==
  ASSUME IInv, BootInv, StayInv, UnmapsKeepTables,
         NEW r \in UnmapRanges, unmap(r[1], r[2])
  PROVE  BootInv' /\ StayInv'
<1>1. /\ phase = "on" /\ call' = UnmapCall(r[1], r[2])
      /\ UNCHANGED <<phase, booted, l1_table, mem>>
  BY DEF unmap
<1>2. call'.va = r[1] /\ call'.left = r[2]
  BY <1>1 DEF UnmapCall
<1>3. (r[1] .. r[1] + r[2] - 1) \cap BootPages = {}
  BY DEF UnmapsKeepTables, PagesOf
<1> QED
  BY <1>1, <1>2, <1>3 DEF BootInv, StayInv

LEMMA UnmapPageBoot ==
  ASSUME IInv, BootInv, StayInv, UnmapPage
  PROVE  BootInv' /\ StayInv'
<1> DEFINE va == call.va
<1>1. call.op = "unmap" /\ call' = Advance(call) /\ UNCHANGED <<phase, booted, l1_table>>
  BY Zenon DEF UnmapPage
<1>2. /\ phase = "on" /\ call # Idle /\ va \in Nat /\ call.left \in Nat \ {0}
      /\ call = UnmapCall(va, call.left)
  BY <1>1, UnmapRunning DEF IInv
<1>3. \A p \in VPages \ {va} : WalkOf(mem', l1_table, p) = WalkOf(mem, l1_table, p)
  BY PageCleared
<1>4. call.left # 1 => call'.va = va + 1 /\ call'.left = call.left - 1
  BY <1>1, <1>2 DEF Advance, UnmapCall
<1>5. call.left = 1 => call' = Idle
  BY <1>1 DEF Advance
<1>6. (va .. va + call.left - 1) \cap BootPages = {}
  BY <1>2 DEF StayInv
<1>7. va \notin BootPages /\ BootPages \subseteq VPages
  BY <1>2, <1>6, SMTT(30) DEF BootPages
<1>8. \A p \in BootPages : WalkOf(mem', l1_table, p) = PageEntry(p, LastRegion(p).kind)
  BY <1>2, <1>3, <1>7 DEF StayInv
<1>9. call' # Idle => (call'.va .. call'.va + call'.left - 1) \cap BootPages = {}
  <2> SUFFICES ASSUME call.left # 1
               PROVE  (call'.va .. call'.va + call'.left - 1) \subseteq va .. va + call.left - 1
    BY <1>5, <1>6
  <2> QED
    BY <1>2, <1>4
<1> QED
  BY <1>1, <1>2, <1>8, <1>9 DEF BootInv, StayInv

LEMMA StepBoot ==
  ASSUME FramesSuffice, MapsElsewhere, UnmapsKeepTables,
         IInv, BootInv, StayInv, [Next]_vars
  PROVE  BootInv' /\ StayInv'
<1>1. CASE mmu_init
  BY <1>1, mmu_init_Boot
<1>2. CASE MapBootRegion
  BY <1>2, MapBootRegionBoot
<1>3. CASE EnableMMU
  BY <1>3, EnableMMUBoot
<1>4. CASE alloc_frame
  BY <1>4 DEF alloc_frame, BootInv, StayInv
<1>5. CASE \E r \in MapRanges, pa \in data : map(r[1], pa, r[2], "normal")
  BY <1>5, mapBoot
<1>6. CASE MapStep
  BY <1>6, MapPageBoot, GiveUpBoot, Zenon DEF MapStep
<1>7. CASE \E r \in UnmapRanges : unmap(r[1], r[2])
  BY <1>7, unmapBoot
<1>8. CASE UnmapReturnsEarly
  <2>1. call' = Idle /\ UNCHANGED <<phase, booted, l1_table, mem>>
    BY <1>8, Zenon DEF UnmapReturnsEarly
  <2>2. phase = "on"
    BY <1>8, OnlyUnmapUnmaps, UnmapRunning DEF IInv
  <2> QED
    BY <2>1, <2>2 DEF BootInv, StayInv
<1>9. CASE UnmapPage
  BY <1>9, UnmapPageBoot
<1>10. CASE UNCHANGED vars
  <2>1. \A n, p : Through(n, p)' <=> Through(n, p)
    BY <1>10 DEF vars, Through
  <2> QED
    BY <1>10, <2>1 DEF vars, BootInv, StayInv, Names
<1> QED
  BY <1>1, <1>2, <1>3, <1>4, <1>5, <1>6, <1>7, <1>8, <1>9, <1>10 DEF Next

-----------------------------------------------------------------------------
(* The L3 tables are in use, so unmap frees none.                          *)

MappedIn(m, l1) == {p \in VPages : Valid(WalkOf(m, l1, p))}

\* The tables that the walk of a mapped page goes through, and all L2 tables.
Used(m, l1) ==
  {<<i>> : i \in Indices} \cup {<<L1_INDEX(p), L2_INDEX(p)>> : p \in MappedIn(m, l1)}

Mappable == BootPages \cup PagesOf(MapRanges)

\* Every L3 table has a page that is mapped, and every mapped page is one of
\* those that somebody maps.
UsedInv ==
  Started =>
    /\ Named(mem, l1_table, Used(mem, l1_table))
    /\ MappedIn(mem, l1_table) \subseteq Mappable
    /\ call.op = "map" => call.va .. call.va + call.left - 1 \subseteq Mappable

LEMMA NamedMore ==
  ASSUME NEW m, NEW l1, NEW ids, NEW more, ids \subseteq more, Named(m, l1, ids)
  PROVE  Named(m, l1, more)
BY DEF Named

\* Steps that leave the tables alone.
LEMMA SameUsed ==
  ASSUME UsedInv, Started, UNCHANGED <<l1_table, mem>>,
         call'.op = "map" => call'.va .. call'.va + call'.left - 1 \subseteq Mappable
  PROVE  UsedInv'
<1>1. Mappable' = Mappable
  BY DEF Mappable, BootPages, Covers
<1>2. Named(mem, l1_table, Used(mem, l1_table)) /\ MappedIn(mem, l1_table) \subseteq Mappable
  BY DEF UsedInv
<1>3. /\ Named(mem', l1_table', Used(mem', l1_table'))
      /\ MappedIn(mem', l1_table') \subseteq Mappable
  BY <1>2
<1> QED
  BY <1>1, <1>3, Zenon DEF UsedInv

LEMMA mmu_init_Used ==
  ASSUME IInv, mmu_init
  PROVE  UsedInv'
<1> DEFINE l1 == PMM!FirstFit(Frames)
<1>1. /\ phase = "off" /\ l1_table' = l1 /\ UNCHANGED call
      /\ mem' = [mem EXCEPT ![l1] = EmptyTable] /\ mem \in Memory
  BY DEF mmu_init, IInv, StateInv
<1>2. l1 \in Frames
  BY FirstFitIsFree, MMUAssumption
<1> HIDE DEF l1
<1>3. mem'[l1] = EmptyTable
  BY <1>1, <1>2, SMTT(30) DEF Memory
<1>4. \A i \in Indices : ~Valid(mem'[l1][i])
  BY <1>3, DescriptorTypes
<1>5. Named(mem', l1, Used(mem', l1))
  BY <1>4, Zenon DEF Named
<1>6. MappedIn(mem', l1) = {}
  <2>1. ASSUME NEW p \in VPages PROVE ~Valid(WalkOf(mem', l1, p))
    <3>1. L1_INDEX(p) \in Indices
      BY PagesAreNat, IndexTypes
    <3>2. WalkOf(mem', l1, p) = Invalid
      BY <1>4, <3>1, Zenon DEF WalkOf
    <3> QED
      BY <3>2, DescriptorTypes, Zenon
  <2> QED
    BY <2>1 DEF MappedIn
<1>7. call'.op # "map"
  BY <1>1 DEF IInv, CallInv, Idle, UnmapCall
<1>8. /\ Named(mem', l1_table', Used(mem', l1_table')) /\ MappedIn(mem', l1_table') = {}
  BY <1>1, <1>5, <1>6, Zenon
<1> QED
  BY <1>7, <1>8 DEF UsedInv

\* A map that begins is of pages of the boot map or of a range.
LEMMA BeginUsed ==
  ASSUME IInv, UsedInv,
         MapBootRegion \/ \E r \in MapRanges, pa \in data : map(r[1], pa, r[2], "normal")
  PROVE  UsedInv'
<1>1. CASE MapBootRegion
  <2> DEFINE region == BootRegions[booted + 1]
  <2>1. /\ phase = "mapping" /\ booted < Len(BootRegions) /\ UNCHANGED <<l1_table, mem>>
        /\ call' = MapCall(region.base, region.base, region.pages, region.kind)
    BY <1>1 DEF MapBootRegion
  <2>2. booted + 1 \in 1 .. Len(BootRegions)
    BY <2>1, RangesAssumption DEF IInv, StateInv
  <2>3. region.base .. region.base + region.pages - 1 \subseteq BootPages
    BY <2>2, RegionsOf DEF Covers
  <2> HIDE DEF region
  <2>4. call'.va .. call'.va + call'.left - 1 \subseteq Mappable
    BY <2>1, <2>3 DEF MapCall, Mappable
  <2> QED
    BY <2>1, <2>4, SameUsed DEF Started
<1>2. ASSUME NEW r \in MapRanges, NEW pa \in data, map(r[1], pa, r[2], "normal")
      PROVE  UsedInv'
  <2>1. /\ phase = "on" /\ UNCHANGED <<l1_table, mem>>
        /\ call' = MapCall(r[1], pa, r[2], "normal")
    BY <1>2 DEF map
  <2>2. r[1] .. r[1] + r[2] - 1 \subseteq PagesOf(MapRanges)
    BY DEF PagesOf
  <2>3. call'.va .. call'.va + call'.left - 1 \subseteq Mappable
    BY <2>1, <2>2 DEF MapCall, Mappable
  <2> QED
    BY <2>1, <2>3, SameUsed DEF Started
<1> QED
  BY <1>1, <1>2

\* The page a step of map writes is the first in the tables it created.
LEMMA MapPageUsed ==
  ASSUME IInv, UsedInv, MapPage
  PROVE  UsedInv'
<1> DEFINE va == call.va
           id == <<L1_INDEX(va), L2_INDEX(va)>>
           ids == Used(mem, l1_table) \cup {id}
<1>1. /\ call.op = "map" /\ call' = Advance(call) /\ UNCHANGED <<phase, l1_table>>
      /\ L2Of(va).child # 0
  BY DEF MapPage
<1>2. /\ phase # "off" /\ va \in VPages /\ va \in Nat /\ call.left \in Nat \ {0}
      /\ call = MapCall(va, call.pa, call.left, call.kind) /\ call.kind \in Kinds
      /\ va \in Mappable /\ va .. va + call.left - 1 \subseteq Mappable
  BY <1>1, MapRunning, RangeTail DEF IInv, UsedInv, Started
<1>3. Named(mem, l1_table, Used(mem, l1_table)) /\ MappedIn(mem, l1_table) \subseteq Mappable
  BY <1>2 DEF UsedInv, Started
<1>4. /\ Valid(WalkOf(mem', l1_table, va))
      /\ \A p \in VPages \ {va} : WalkOf(mem', l1_table, p) = WalkOf(mem, l1_table, p)
  BY <1>2, PageWritten, DescriptorTypes
<1>5. Named(mem', l1_table, ids)
  <2>1. Named(mem, l1_table, ids)
    BY <1>3, NamedMore
  <2>2. <<L1_INDEX(va)>> \in ids /\ id \in ids
    BY <1>2, IndexTypes DEF Used
  <2>3. Named(L3Of(va).mem, l1_table, ids)
    BY <1>1, <2>1, <2>2, StepNamed
  <2> QED
    BY <2>3, PageNamed
<1>6. MappedIn(mem', l1_table) = MappedIn(mem, l1_table) \cup {va}
  BY <1>2, <1>4 DEF MappedIn
<1>7. ids \subseteq Used(mem', l1_table)
  BY <1>6 DEF Used
<1>8. Named(mem', l1_table, Used(mem', l1_table))
  BY <1>5, <1>7, NamedMore
<1>9. call'.op = "map" => call'.va .. call'.va + call'.left - 1 \subseteq Mappable
  <2>1. CASE call.left = 1
    BY <1>1, <2>1 DEF Advance, Idle
  <2>2. CASE call.left # 1
    <3>1. call'.va = va + 1 /\ call'.left = call.left - 1
      BY <1>1, <1>2, <2>2 DEF Advance, MapCall
    <3> QED
      BY <1>2, <2>2, <3>1, RangeTail
  <2> QED
    BY <2>1, <2>2
<1>10. /\ Named(mem', l1_table', Used(mem', l1_table')) /\ MappedIn(mem', l1_table') \subseteq Mappable
  BY <1>1, <1>2, <1>3, <1>6, <1>8
<1>11. Mappable' = Mappable
  BY DEF Mappable, BootPages, Covers
<1> QED
  BY <1>9, <1>10, <1>11 DEF UsedInv

\* A map that gives up leaves an L2 table at most.
LEMMA MapNoL3Used ==
  ASSUME IInv, UsedInv, MapNoL3
  PROVE  UsedInv'
<1> DEFINE va == call.va
           ids == Used(mem, l1_table)
<1>1. /\ call.op = "map" /\ call' = Idle /\ UNCHANGED <<phase, l1_table>>
      /\ mem' = L3Of(va).mem /\ L2Of(va).child # 0 /\ L3Of(va).child = 0
  BY DEF MapNoL3
<1>2. phase # "off" /\ va \in Nat
  BY <1>1, MapRunning DEF IInv
<1>3. Named(mem, l1_table, ids) /\ MappedIn(mem, l1_table) \subseteq Mappable
  BY <1>2 DEF UsedInv, Started
<1>4. L3Of(va).mem = L2Of(va).mem
  <2>1. PICK m, av, t, i : /\ L3Of(va) = _get_or_alloc_table(m, av, t, i) /\ m = L2Of(va).mem
    BY SMTT(30) DEF L3Of
  <2>2. L3Of(va).mem = m
    BY <1>1, <2>1 DEF _get_or_alloc_table
  <2> QED
    BY <2>1, <2>2
<1>5. <<L1_INDEX(va)>> \in ids
  BY <1>2, IndexTypes DEF Used
<1>6. Named(mem', l1_table, ids)
  BY <1>1, <1>3, <1>4, <1>5, StepNamed
<1>7. \A p \in VPages : WalkOf(mem', l1_table, p) = WalkOf(mem, l1_table, p)
  BY <1>1, StepTables, PagesAreNat
<1>8. MappedIn(mem', l1_table) = MappedIn(mem, l1_table)
  BY <1>7 DEF MappedIn
<1>9. /\ Named(mem', l1_table', Used(mem', l1_table')) /\ MappedIn(mem', l1_table') \subseteq Mappable
  BY <1>1, <1>3, <1>6, <1>8 DEF Used
<1>10. Mappable' = Mappable
  BY DEF Mappable, BootPages, Covers
<1> QED
  BY <1>1, <1>9, <1>10 DEF UsedInv, Idle

\* The page that unmap clears is not the only one its L3 table maps: if it is
\* mapped a page of the boot map is there too.
LEMMA AnotherMapped ==
  ASSUME IInv, StayInv, UsedInv, UnmapsKeepTables, UnmapPage
  PROVE  \E q \in VPages \ {call.va} :
           /\ L1_INDEX(q) = L1_INDEX(call.va) /\ L2_INDEX(q) = L2_INDEX(call.va)
           /\ Valid(WalkOf(mem, l1_table, q))
<1> DEFINE va == call.va
           i  == L1_INDEX(va)
           j  == L2_INDEX(va)
<1>1. /\ phase = "on" /\ va \in VPages
      /\ Leads(mem, l1_table, i, L2At(va)) /\ Leads(mem, L2At(va), j, L3At(va))
  BY UnmapTables
<1>2. va \in PagesOf(UnmapRanges)
  BY UnmapRunning, RangeTail, OnlyUnmapUnmaps DEF IInv
<1>3. /\ Named(mem, l1_table, Used(mem, l1_table))
      /\ MappedIn(mem, l1_table) \subseteq Mappable
  BY <1>1 DEF UsedInv, Started
<1>4. i \in Indices /\ j \in Indices
  BY <1>1, PagesAreNat, IndexTypes
<1>5. CASE Valid(WalkOf(mem, l1_table, va))
  <2>1. va \in Mappable /\ va \notin BootPages
    BY <1>1, <1>2, <1>3, <1>5 DEF MappedIn, UnmapsKeepTables
  <2>2. PICK q \in BootPages : L1_INDEX(q) = i /\ L2_INDEX(q) = j
    BY <1>2, <2>1 DEF Mappable, UnmapsKeepTables
  <2>3. WalkOf(mem, l1_table, q) = PageEntry(q, LastRegion(q).kind)
    BY <1>1 DEF StayInv
  <2>4. LastRegion(q).kind \in Kinds
    BY LastCovers, RegionsOf
  <2>5. Valid(WalkOf(mem, l1_table, q))
    BY <2>3, <2>4, DescriptorTypes
  <2> QED
    BY <2>1, <2>2, <2>5 DEF BootPages
<1>6. CASE ~Valid(WalkOf(mem, l1_table, va))
  <2> HIDE DEF i, j
  <2>1. <<i, j>> \in Used(mem, l1_table)
    BY <1>1, <1>3, <1>4, Zenon DEF Named, Leads
  <2>2. PICK q \in MappedIn(mem, l1_table) : <<i, j>> = <<L1_INDEX(q), L2_INDEX(q)>>
    BY <2>1 DEF Used
  <2> QED
    BY <1>6, <2>2 DEF MappedIn, i, j
<1> QED
  BY <1>5, <1>6

LEMMA UnmapPageUsed ==
  ASSUME IInv, StayInv, UsedInv, UnmapsKeepTables, UnmapPage
  PROVE  UsedInv'
<1> DEFINE va == call.va
<1>1. /\ call.op = "unmap" /\ call' = Advance(call) /\ UNCHANGED <<phase, l1_table>>
      /\ call = UnmapCall(va, call.left)
  BY UnmapRunning, Zenon DEF UnmapPage, IInv
<1>2. /\ phase = "on" /\ va \in VPages
      /\ mem' = Put(mem, L3At(va), L3_INDEX(va), Invalid)
  BY UnmapTables
<1>3. PICK T2, T3 : Shape(mem, l1_table, T2, T3, free, data) /\ L3At(va) \in T3
  BY UnmapTables
<1>4. /\ Named(mem, l1_table, Used(mem, l1_table))
      /\ MappedIn(mem, l1_table) \subseteq Mappable
  BY <1>2 DEF UsedInv, Started
<1>5. /\ WalkOf(mem', l1_table, va) = Invalid
      /\ \A p \in VPages \ {va} : WalkOf(mem', l1_table, p) = WalkOf(mem, l1_table, p)
  BY PageCleared
<1>6. Named(mem', l1_table, Used(mem, l1_table))
  <2>1. L3_INDEX(va) \in Indices
    BY <1>2, PagesAreNat, IndexTypes
  <2> QED
    BY <1>2, <1>3, <1>4, <2>1, NamedLeaf
<1>7. MappedIn(mem', l1_table) = MappedIn(mem, l1_table) \ {va}
  BY <1>2, <1>5, DescriptorTypes DEF MappedIn
<1>8. PICK q \in VPages \ {va} :
        /\ L1_INDEX(q) = L1_INDEX(va) /\ L2_INDEX(q) = L2_INDEX(va)
        /\ Valid(WalkOf(mem, l1_table, q))
  BY AnotherMapped
<1>9. q \in MappedIn(mem', l1_table)
  BY <1>7, <1>8 DEF MappedIn
<1>10. Used(mem, l1_table) \subseteq Used(mem', l1_table)
  BY <1>7, <1>8, <1>9 DEF Used
<1>11. Named(mem', l1_table, Used(mem', l1_table))
  BY <1>6, <1>10, NamedMore
<1>12. call'.op # "map"
  BY <1>1 DEF Advance, Idle, UnmapCall
<1>13. /\ Named(mem', l1_table', Used(mem', l1_table')) /\ MappedIn(mem', l1_table') \subseteq Mappable
  BY <1>1, <1>4, <1>7, <1>11
<1>14. Mappable' = Mappable
  BY DEF Mappable, BootPages, Covers
<1> QED
  BY <1>12, <1>13, <1>14 DEF UsedInv

\* The tables of the page that is cleared are not empty: the L3 table has the
\* other page, and the L2 table the descriptor of the L3 table.
LEMMA NothingFreed ==
  ASSUME IInv, StayInv, UsedInv, UnmapsKeepTables, UnmapPage
  PROVE  UNCHANGED free
<1> DEFINE va == call.va
           i  == L1_INDEX(va)
           j  == L2_INDEX(va)
           l2 == L2At(va)
           l3 == L3At(va)
<1>1. PICK q \in VPages \ {va} : /\ L1_INDEX(q) = i /\ L2_INDEX(q) = j
                                  /\ Valid(WalkOf(mem, l1_table, q))
  BY AnotherMapped
<1>2. /\ va \in VPages /\ mem' = Put(mem, l3, L3_INDEX(va), Invalid)
      /\ Leads(mem, l1_table, i, l2) /\ Leads(mem, l2, j, l3)
  BY UnmapTables
<1>3. PICK T2, T3 : Shape(mem, l1_table, T2, T3, free, data) /\ l2 \in T2 /\ l3 \in T3
  BY UnmapTables
<1>4. /\ free' = free \cup (((IF mem'[l3] = EmptyTable THEN {l3} ELSE {})
                           \cup (IF mem'[l2] = EmptyTable THEN {l2} ELSE {})) \cap Frames)
  BY Zenon DEF UnmapPage, _table_is_empty, L2At, L3At
<1>5. j \in Indices /\ L3_INDEX(va) \in Indices /\ L3_INDEX(q) \in Indices
  BY <1>1, <1>2, PagesAreNat, IndexTypes
<1>6. L3_INDEX(q) # L3_INDEX(va)
  BY <1>1, <1>2, IndicesOfPage
<1>7. WalkOf(mem, l1_table, q) = mem[l3][L3_INDEX(q)]
  BY <1>1, <1>2, Zenon DEF WalkOf, Leads
<1> HIDE DEF va, i, j, l2, l3
<1>8. mem \in Memory /\ l2 \in Frames /\ l3 \in Frames /\ l2 # l3
  BY <1>3 DEF Shape, Parts
<1>9. mem'[l3][L3_INDEX(q)] = mem[l3][L3_INDEX(q)] /\ mem'[l2] = mem[l2]
  BY <1>2, <1>5, <1>6, <1>8 DEF Memory, Put
<1>10. mem'[l3] # EmptyTable
  BY <1>1, <1>5, <1>7, <1>9, DescriptorTypes
<1>11. mem'[l2] # EmptyTable
  BY <1>2, <1>5, <1>9, DescriptorTypes DEF Leads
<1> QED
  BY <1>4, <1>10, <1>11

LEMMA StepUsed ==
  ASSUME UnmapsKeepTables, IInv, StayInv, UsedInv, [Next]_vars
  PROVE  UsedInv'
<1>1. CASE mmu_init
  BY <1>1, mmu_init_Used
<1>2. CASE MapBootRegion \/ \E r \in MapRanges, pa \in data : map(r[1], pa, r[2], "normal")
  BY <1>2, BeginUsed
<1>3. ASSUME Started, UNCHANGED <<l1_table, mem>>, call' = call \/ call'.op # "map"
      PROVE  UsedInv'
  BY <1>3, SameUsed DEF UsedInv
<1>4. CASE EnableMMU \/ alloc_frame
  BY <1>3, <1>4 DEF EnableMMU, alloc_frame, Started
<1>5. CASE MapNoL2 \/ UnmapReturnsEarly
  <2>1. call' = Idle /\ UNCHANGED <<l1_table, mem>> /\ call.op \in {"map", "unmap"}
    BY <1>5 DEF MapNoL2, UnmapReturnsEarly
  <2>2. Started
    BY <2>1, MapRunning, UnmapRunning DEF IInv, Started
  <2> QED
    BY <1>3, <2>1, <2>2 DEF Idle
<1>6. CASE MapPage
  BY <1>6, MapPageUsed
<1>7. CASE MapNoL3
  BY <1>7, MapNoL3Used
<1>8. CASE \E r \in UnmapRanges : unmap(r[1], r[2])
  <2>1. phase = "on" /\ UNCHANGED <<l1_table, mem>> /\ call'.op # "map"
    BY <1>8 DEF unmap, UnmapCall
  <2> QED
    BY <1>3, <2>1 DEF Started
<1>9. CASE UnmapPage
  BY <1>9, UnmapPageUsed
<1>10. CASE UNCHANGED vars
  <2>1. UNCHANGED <<phase, l1_table, mem, call>>
    BY <1>10 DEF vars
  <2>2. ~Started => UsedInv'
    BY <2>1 DEF UsedInv, Started
  <2> QED
    BY <1>3, <2>1, <2>2
<1> QED
  BY <1>1, <1>2, <1>4, <1>5, <1>6, <1>7, <1>8, <1>9, <1>10 DEF Next, MapStep

-----------------------------------------------------------------------------
(* The theorems.                                                           *)

\* What a kernel that unmaps needs besides IInv, so that no table is freed.
UnmapInv == UnmapRanges # {} => BootInv /\ StayInv /\ UsedInv

LEMMA NoUnmapRuns ==
  ASSUME CallInv, UnmapRanges = {}
  PROVE  ~UnmapPage
<1> SUFFICES ASSUME UnmapPage PROVE FALSE
  OBVIOUS
<1>1. call.va \in PagesOf(UnmapRanges)
  BY OnlyUnmapUnmaps, UnmapRunning, RangeTail
<1> QED
  BY <1>1 DEF PagesOf

LEMMA StepFreesNoTable ==
  ASSUME UnmapsHarmless, IInv, UnmapInv
  PROVE  UnmapPage => UNCHANGED free
BY NoUnmapRuns, NothingFreed DEF UnmapsHarmless, UnmapInv, IInv

\* At every moment the descriptors link the tables into a tree, and if anything
\* is unmapped the boot map and the pages mapped elsewhere hold its tables.
THEOREM TablesStayATree ==
  ASSUME UnmapsHarmless
  PROVE  Spec => [](IInv /\ UnmapInv)
<1>1. Init => IInv /\ UnmapInv
  BY InitInv, InitBoot DEF UnmapInv, UsedInv, Init, Started
<1>2. IInv /\ UnmapInv /\ [Next]_vars => IInv' /\ UnmapInv'
  <2> SUFFICES ASSUME IInv, UnmapInv, [Next]_vars PROVE IInv' /\ UnmapInv'
    OBVIOUS
  <2>1. IInv'
    BY StepFreesNoTable, StepInv
  <2>2. CASE UnmapRanges = {}
    BY <2>1, <2>2 DEF UnmapInv
  <2>3. CASE UnmapRanges # {}
    <3>1. /\ FramesSuffice /\ MapsElsewhere /\ UnmapsKeepTables
          /\ BootInv /\ StayInv /\ UsedInv
      BY <2>3 DEF UnmapsHarmless, UnmapInv
    <3>2. BootInv' /\ StayInv' /\ UsedInv'
      BY <3>1, StepBoot, StepUsed
    <3> QED
      BY <2>1, <3>2 DEF UnmapInv
  <2> QED
    BY <2>2, <2>3
<1> QED
  BY <1>1, <1>2, PTL DEF Spec

\* Whatever is mapped and unmapped, the tables, the descriptors and the call in
\* progress keep their types: no index leaves a table, no address the memory.
THEOREM MMUTypeCorrect ==
  ASSUME UnmapsHarmless
  PROVE  Spec => []TypeOK
BY TablesStayATree, IInvTypeOK, PTL

\* For every size of table, memory and sequence of calls, the walker finds a
\* tree of tables at every moment.
THEOREM WalkerFindsTree ==
  ASSUME UnmapsHarmless
  PROVE  Spec => []TableTree
BY TablesStayATree, IInvTree, PTL

\* No frame is lost or shared, also by a map that runs out of frames half way.
THEOREM NoFrameLostOrShared ==
  ASSUME UnmapsHarmless
  PROVE  Spec => []FrameAccounting
BY TablesStayATree, IInvFrames, PTL

\* The frame that is free and still linked, which unmap can leave, is the doing
\* of an unmap that empties a table, and of nothing else.
THEOREM NoFreeTableLinked ==
  ASSUME UnmapsHarmless
  PROVE  Spec => []NoDescriptorToFreeFrame
BY TablesStayATree, IInvFrames, PTL

\* An unmap of a page next to the boot map, or of one that nobody maps, gives
\* no frame back.
THEOREM UnmapsFreeNothing ==
  ASSUME UnmapsHarmless
  PROVE  Spec => [][UnmapPage => UNCHANGED free]_vars
<1>1. IInv /\ UnmapInv => (UnmapPage => UNCHANGED free)
  BY StepFreesNoTable
<1> QED
  BY <1>1, TablesStayATree, PTL DEF Spec

\* For every size of table, memory and sequence of calls, the walk of translate
\* is the function that the calls describe: a map or an unmap edits its pages in
\* order, one by one, and no others, or gives up and keeps what it has done.
THEOREM TablesImplementAddressSpace ==
  ASSUME UnmapsHarmless
  PROVE  Spec => ImplementsAddressSpace
<1>1. Init => AS!Init
  BY InitImplements
<1>2. IInv /\ IInv' /\ [Next]_vars => [AS!Next]_(AS!vars)
  BY StepImplements
<1> QED
  BY <1>1, <1>2, TablesStayATree, PTL DEF Spec, ImplementsAddressSpace, AS!Spec

\* If there are frames for its tables, the boot map is complete when the MMU
\* is switched on, later regions over earlier ones, and stays so whatever is
\* mapped and unmapped elsewhere, also by maps that run out of frames.
THEOREM BootMapStays ==
  ASSUME FramesSuffice, MapsElsewhere, UnmapsKeepTables
  PROVE  Spec => []KernelStaysMapped
<1> DEFINE Both == BootInv /\ StayInv
<1>1. Init => Both
  BY InitBoot
<1>2. IInv /\ Both /\ [Next]_vars => Both'
  BY StepBoot, SMTT(30)
<1>3. IInv /\ Both => KernelStaysMapped
  <2> SUFFICES ASSUME IInv, StayInv, phase = "on", NEW p \in BootPages
               PROVE  translate(p) = PageEntry(p, LastRegion(p).kind)
    BY DEF KernelStaysMapped
  <2>1. l1_table # 0
    BY DEF IInv, StateInv
  <2> QED
    BY <2>1, Zenon DEF StayInv, translate, WalkOf
<1>4. UnmapsHarmless
  BY DEF UnmapsHarmless
<1> HIDE DEF Both
<1> QED
  BY <1>1, <1>2, <1>3, <1>4, TablesStayATree, PTL DEF Spec
=============================================================================
