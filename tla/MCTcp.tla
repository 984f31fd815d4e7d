------------------------------- MODULE MCTcp ---------------------------------
(***************************************************************************)
(* Instances of Tcp for TLC.  Both initial sequence numbers lie just below *)
(* the modulus, so that the stream wraps around.                           *)
(***************************************************************************)
EXTENDS Tcp
==============================================================================
