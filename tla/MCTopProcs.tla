------------------------------ MODULE MCTopProcs ------------------------------
(* Constants of TopProcs for TLC. *)
EXTENDS TopProcs

MCPages == 0 .. 2
=============================================================================
