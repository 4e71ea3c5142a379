---------------------------- MODULE MCOpenDatabase ----------------------------
(* Two openers of one new database. *)
EXTENDS OpenDatabase
CONSTANTS o1, o2
=============================================================================
