------------------------- MODULE MCConfStoreShared -------------------------
(***************************************************************************)
(* The instance of ConfStoreShared for TLC, with the values of MCConfStore. *)
(***************************************************************************)
EXTENDS ConfStoreShared, MCConfStore
=============================================================================
