-------------------------- MODULE MCEventLoopPool --------------------------
(***************************************************************************)
(* EventLoopPool for TLC.                                                  *)
(***************************************************************************)
EXTENDS EventLoopPool
=============================================================================
