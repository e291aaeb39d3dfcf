------------------------------ MODULE MCIngest ------------------------------
(* A small instance of Ingest.                                             *)
EXTENDS Ingest
=============================================================================
