-------------------------- MODULE MCBoundedProcess --------------------------
(* BoundedProcess has only numbers for constants; they are in the .cfg files. *)
EXTENDS BoundedProcess
=============================================================================
