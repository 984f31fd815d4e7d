----------------------------- MODULE MCFatVolume -----------------------------
(***************************************************************************)
(* A volume with room for the three files and one kernel more.             *)
(***************************************************************************)
EXTENDS FatVolume
==============================================================================
