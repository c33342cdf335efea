---------------------------- MODULE MCCpuFlags ----------------------------
(* Registers of four bits, operands of two and of four, for TLC. *)
EXTENDS CpuFlags
=============================================================================
