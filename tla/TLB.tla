-------------------------------- MODULE TLB ----------------------------------
(***************************************************************************)
(* The page-table-edit sequence of map and unmap in src/mmu/mmu.cpp, as    *)
(* the hardware sees it: stores of descriptors become visible to the table *)
(* walker some time after they are executed, the walker may read and cache *)
(* a translation at any time, and only `dsb` waits for stores.  The tables *)
(* above the descriptors are those of MMU.tla, reduced here to the         *)
(* question which pages have one.                                          *)
(***************************************************************************)
EXTENDS Integers

CONSTANTS
  VPages,      \* virtual pages, a set of consecutive integers
  Tabled,      \* the pages whose L3 table exists; there is no frame for another
  Frames       \* physical pages

VARIABLES
  l3_table,    \* page -> descriptor, as the program has written it
  visible,     \* page -> descriptor, as the walker reads it
  tlb,         \* page -> cached translation
  call,        \* the call in progress: its next page, and the step it is at
  skipped      \* pages edited by calls that returned before invalidating

vars == <<l3_table, visible, tlb, call, skipped>>

Invalid == "invalid"   \* a descriptor without the valid bit; not cached
Idle    == [step |-> "idle"]
Pages(c) == c.va .. c.va + c.num_pages - 1

Init ==
  /\ l3_table = [p \in VPages |-> Invalid]
  /\ visible = l3_table /\ tlb = l3_table
  /\ call = Idle /\ skipped = {}

-----------------------------------------------------------------------------
(* The hardware.                                                           *)

\* A store reaches the point where the walker sees it.
Drain ==
  \E p \in VPages :
    /\ visible[p] # l3_table[p]
    /\ visible' = [visible EXCEPT ![p] = l3_table[p]]
    /\ UNCHANGED <<l3_table, tlb, call, skipped>>

\* A walk, speculative or not.
Walk ==
  \E p \in VPages :
    /\ tlb[p] = Invalid /\ visible[p] # Invalid
    /\ tlb' = [tlb EXCEPT ![p] = visible[p]]
    /\ UNCHANGED <<l3_table, visible, call, skipped>>

StoresComplete == visible = l3_table

-----------------------------------------------------------------------------
(* map and unmap.                                                          *)

\* `dsb ishst`, then the loop over the pages.
Begin(op, va, num_pages, pa) ==
  /\ call = Idle /\ StoresComplete
  /\ call' = [step |-> "edit", op |-> op, va |-> va, num_pages |-> num_pages, pa |-> pa, i |-> 0]
  /\ Pages(call') \subseteq VPages
  /\ UNCHANGED <<l3_table, visible, tlb, skipped>>

map   == \E va \in VPages, n \in 1 .. 2, pa \in Frames : Begin("map", va, n, pa)
unmap == \E va \in VPages, n \in 1 .. 2 : Begin("unmap", va, n, Invalid)

EditPage ==
  LET page == call.va + call.i
  IN  /\ call.step = "edit" /\ call.i < call.num_pages /\ page \in Tabled
      /\ l3_table' = [l3_table EXCEPT ![page] = call.pa]
      /\ call' = [call EXCEPT !.i = @ + 1]
      /\ UNCHANGED <<visible, tlb, skipped>>

\* A page without a table: unmap returns, and so does map when no frame is left.
ReturnEarly ==
  LET page == call.va + call.i
  IN  /\ call.step = "edit" /\ call.i < call.num_pages /\ page \notin Tabled
      /\ call' = Idle
      /\ skipped' = skipped \cup call.va .. page - 1
      /\ UNCHANGED <<l3_table, visible, tlb>>

EditsDone ==
  /\ call.step = "edit" /\ call.i = call.num_pages
  /\ call' = [call EXCEPT !.step = "tlbi", !.i = 0]
  /\ UNCHANGED <<l3_table, visible, tlb, skipped>>

\* `tlbi vaae1is`.
Invalidate ==
  LET page == call.va + call.i
  IN  /\ call.step = "tlbi" /\ call.i < call.num_pages
      /\ tlb' = [tlb EXCEPT ![page] = Invalid]
      /\ skipped' = skipped \ {page}
      /\ call' = [call EXCEPT !.i = @ + 1]
      /\ UNCHANGED <<l3_table, visible>>

\* `dsb ish`, `isb`.
Finish ==
  /\ call.step = "tlbi" /\ call.i = call.num_pages /\ StoresComplete
  /\ call' = Idle
  /\ UNCHANGED <<l3_table, visible, tlb, skipped>>

Next ==
  \/ Drain \/ Walk
  \/ map \/ unmap \/ EditPage \/ ReturnEarly \/ EditsDone \/ Invalidate \/ Finish

Spec == Init /\ [][Next]_vars

-----------------------------------------------------------------------------
(* Properties.                                                             *)

\* When map or unmap has returned, the TLB holds no translation that the call
\* replaced or removed: the stores were visible before the invalidation, so a
\* walk after it finds the new descriptors.  Pages of a call that returned
\* early are excepted: that unmap leaves those is announced in mmu.h.
NoStaleTranslation ==
  call = Idle =>
    \A p \in VPages \ skipped : tlb[p] \in {Invalid, l3_table[p]}
=============================================================================
