------------------------------ MODULE MCExcep ------------------------------
(***************************************************************************)
(* Small instances of Excep for TLC: two CPU lines, one of them driven by  *)
(* the interrupt controller, two controller lines, one of them the serial  *)
(* driver's, and two handlers per line.                                    *)
(***************************************************************************)
EXTENDS Excep

CONSTANTS h1, h2, e1
MCCpuLines == {0, 2}
MCIcLines == {1, 4}
=============================================================================
