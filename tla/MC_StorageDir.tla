---------------------------- MODULE MC_StorageDir ----------------------------
(***************************************************************************)
(* Instantiation of StorageDir for TLC: three file slots, two data         *)
(* lengths, a clock of three ticks so that mtimes both tie and differ.     *)
(* The saved strings have those lengths.                                   *)
(***************************************************************************)
EXTENDS StorageDir

\* Strings of one and two characters, one with a byte after its NUL.
MCStrings == {<<7, 0>>, <<7, 7, 0>>, <<7, 0, 7, 0>>}
=============================================================================
