---------------------------- MODULE MCDumpIndex ----------------------------
(* Two processes, pools of two goroutines, a dump of two files. *)
EXTENDS DumpIndex

MCFiles == 1..2
=============================================================================
