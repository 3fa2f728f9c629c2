---------------------------- MODULE MCTaskFinish ----------------------------
(***************************************************************************)
(* TaskFinish for TLC.                                                     *)
(***************************************************************************)
EXTENDS TaskFinish
=============================================================================
