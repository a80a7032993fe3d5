-------------------------------- MODULE MCTLB --------------------------------
(* TLC instance of TLB: three pages, the last of them without a table.     *)
EXTENDS TLB

MCVPages == 0 .. 2
MCTabled == 0 .. 1
=============================================================================
