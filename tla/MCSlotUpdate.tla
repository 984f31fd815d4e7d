---------------------------- MODULE MCSlotUpdate -----------------------------
(***************************************************************************)
(* The update with an installed version, a bad one and a good one.         *)
(***************************************************************************)
EXTENDS SlotUpdate
==============================================================================
