----------------------------- MODULE MCCTester -----------------------------
(* ctester with any script, as long as its list has at most four entries. *)
EXTENDS CTester
=============================================================================
