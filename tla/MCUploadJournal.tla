-------------------------- MODULE MCUploadJournal --------------------------
(* Small instance of UploadJournal for TLC. *)
EXTENDS UploadJournal, TLC

CONSTANTS n1, n2, c1, c2

MCNames == {n1, n2}
MCOneName == {n1}
MCContents == {c1, c2}
Symmetry == Permutations(MCContents)
============================================================================
