---------------------------- MODULE MCInterrupts ----------------------------
(* TLC instance of Interrupts.                                             *)
EXTENDS Interrupts

MCBoards == {"pi3", "pi5"}
MCChars  == {"a", "DEL", "BS", "CR"}

\* A data abort, and an SP alignment fault, which has no case.
MCFaults == {"none", "0x25", "0x2C"}
=============================================================================
