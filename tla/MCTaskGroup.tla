---------------------------- MODULE MCTaskGroup ----------------------------
(* Instances of TaskGroup for TLC.                                          *)
EXTENDS TaskGroup

FirstEndless == {1}
=============================================================================
