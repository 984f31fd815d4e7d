------------------------------- MODULE MCKill --------------------------------
(***************************************************************************)
(* The instance of Kill that TLC checks (kill.cfg): a program of up to     *)
(* three threads, which wait in all four ways.                             *)
(***************************************************************************)
EXTENDS Kill
MCProcesses == {1}
MCMainCalls == {"slice", "join"}
MCThreadCalls == {"sleep", "futex"}
=============================================================================
