------------------------------ MODULE MCLibrary ------------------------------
(* A small instance of Library: one catalog work.                          *)
EXTENDS Library, TLC

OneWork == <<"w1">>

=============================================================================
