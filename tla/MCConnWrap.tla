----------------------------- MODULE MCConnWrap -----------------------------
(***************************************************************************)
(* Small instances of ConnWrap for TLC: two or three goroutines, each      *)
(* making one to three calls.                                              *)
(***************************************************************************)
EXTENDS ConnWrap

=============================================================================
