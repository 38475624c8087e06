---------------------------- MODULE MCJobControl ----------------------------
(* JobControl for TLC: every constant is given its value in the .cfg files. *)
EXTENDS JobControl
=============================================================================
