----------------------------- MODULE MCListSort -----------------------------
(***************************************************************************)
(* Sorting every list of up to MaxLen headers.                             *)
(***************************************************************************)
EXTENDS ListSort
=============================================================================
