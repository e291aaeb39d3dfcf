------------------------------ MODULE MCSharing -----------------------------
(* A small instance of Sharing: a guest, an account, one catalog work.     *)
EXTENDS Sharing

MCWorks == {"walden"}
=============================================================================
