------------------------------- MODULE Option -------------------------------
(* The value of an Option that holds nothing, as Rust calls it.             *)
CONSTANT None
=============================================================================
