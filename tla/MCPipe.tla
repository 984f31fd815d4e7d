------------------------------- MODULE MCPipe --------------------------------
(***************************************************************************)
(* The pipe with a few tasks on each side and a ring of two bytes, so that *)
(* it wraps around and fills up.                                           *)
(***************************************************************************)
EXTENDS Pipe
==============================================================================
