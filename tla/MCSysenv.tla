------------------------------ MODULE MCSysenv ------------------------------
(***************************************************************************)
(* A small instance of Sysenv for TLC.                                     *)
(***************************************************************************)
EXTENDS Sysenv

MCEraseFaults == {"erase"}
=============================================================================
