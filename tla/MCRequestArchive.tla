--------------------------- MODULE MCRequestArchive ---------------------------
(***************************************************************************)
(* The request loop of MCRequestLoop with its archive.                     *)
(***************************************************************************)
EXTENDS MCRequestLoop, RequestArchive, RequestLoopRefinement

=============================================================================
