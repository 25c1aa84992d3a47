-------------------------- MODULE MCRefrigeration --------------------------
(***************************************************************************)
(* Instances of Refrigeration for TLC; the constants are in the .cfg files. *)
(***************************************************************************)
EXTENDS Refrigeration
============================================================================
