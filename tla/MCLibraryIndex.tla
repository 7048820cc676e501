--------------------------- MODULE MCLibraryIndex ---------------------------
(***************************************************************************)
(* Instances of LibraryIndex for TLC: a card whose directory is not in the *)
(* order of the names and has one free place.                              *)
(***************************************************************************)
EXTENDS LibraryIndex

MCBooks == 1 .. 4
MCDirs == {<<3, 1, 0, 0>>}
=============================================================================
