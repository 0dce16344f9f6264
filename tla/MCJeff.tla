------------------------------- MODULE MCJeff -------------------------------
(***************************************************************************)
(* jeff on small heaps.  One unit stands for about ten bytes of the 64-bit *)
(* build, where a header has 29, a free_memory_block_t 16 and a pointer 8  *)
(* bytes.                                                                  *)
(***************************************************************************)
EXTENDS JeffImplements
=============================================================================
