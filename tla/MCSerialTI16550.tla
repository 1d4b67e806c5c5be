-------------------------- MODULE MCSerialTI16550 --------------------------
(***************************************************************************)
(* Small instances of SerialTI16550 for TLC: a buffer of 5 slots without   *)
(* flow control, and a CPU that takes interrupts.                          *)
(***************************************************************************)
EXTENDS SerialTI16550

MCInterrupts == {[flow |-> FALSE, interrupts |-> TRUE]}
=============================================================================
