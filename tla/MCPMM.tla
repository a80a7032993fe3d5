------------------------------- MODULE MCPMM --------------------------------
(* TLC instance of PMM: free_frame is called with every address of memory  *)
(* and of one page past its end, aligned or not.                           *)
EXTENDS PMM

MCAddresses == 0 .. PHYS_MEM_END + PAGE_SIZE
=============================================================================
