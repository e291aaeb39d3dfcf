----------------------------- MODULE MCStorage -----------------------------
(* A small instance of Storage, with the ten batches of db.rs.             *)
EXTENDS Storage
=============================================================================
