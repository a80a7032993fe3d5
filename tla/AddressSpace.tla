---------------------------- MODULE AddressSpace ----------------------------
(***************************************************************************)
(* What include/mmu.h promises of map and unmap: a function from virtual   *)
(* pages to mappings that a call edits page by page, in ascending order,   *)
(* and that nothing else changes.  A map may stop early when no frame is   *)
(* left for a table, an unmap when it meets a page that is not mapped.     *)
(* MMU.tla, with its tables in physical frames, implements this.           *)
(***************************************************************************)
EXTENDS Naturals

CONSTANTS
  VPages,     \* virtual page numbers
  PPages,     \* physical page numbers
  Kinds       \* memory types a page can be mapped with

VARIABLES
  vm,         \* virtual page -> its mapping
  call        \* the call in progress: pages still to edit (left = 0: none)

vars == <<vm, call>>

Unmapped == [kind |-> "invalid", pa |-> 0]

Mapping(pa, kind) == [kind |-> kind, pa |-> pa]

Idle == [op |-> "none", va |-> 0, pa |-> 0, left |-> 0, kind |-> "invalid"]

\* The call that is left to do once its first page has been edited.
Advance(c) ==
  IF c.left = 1 THEN Idle
  ELSE [c EXCEPT !.va = @ + 1, !.pa = IF c.op = "map" THEN @ + 1 ELSE @, !.left = @ - 1]

MapCalls   == [op : {"map"}, va : VPages, pa : PPages, left : Nat \ {0}, kind : Kinds]
UnmapCalls == [op : {"unmap"}, va : VPages, pa : {0}, left : Nat \ {0}, kind : {"invalid"}]

-----------------------------------------------------------------------------
Init == vm = [p \in VPages |-> Unmapped] /\ call = Idle

Begin == call = Idle /\ call' \in MapCalls \cup UnmapCalls /\ UNCHANGED vm

MapPage ==
  /\ call.op = "map"
  /\ vm' = [vm EXCEPT ![call.va] = Mapping(call.pa, call.kind)]
  /\ call' = Advance(call)

UnmapPage ==
  /\ call.op = "unmap"
  /\ vm' = [vm EXCEPT ![call.va] = Unmapped]
  /\ call' = Advance(call)

\* A map that finds no frame for a table gives up, silently.
GiveUpMap == call.op = "map" /\ call' = Idle /\ UNCHANGED vm

\* An unmap gives up at a page no table covers.
GiveUpUnmap ==
  call.op = "unmap" /\ vm[call.va] = Unmapped /\ call' = Idle /\ UNCHANGED vm

Next == Begin \/ MapPage \/ UnmapPage \/ GiveUpMap \/ GiveUpUnmap

Spec == Init /\ [][Next]_vars
=============================================================================
