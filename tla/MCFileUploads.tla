--------------------------- MODULE MCFileUploads ---------------------------
(* FileUploads on small instances. *)
EXTENDS FileUploads, TLC

MCSymmetry ==
  Permutations(Hashes) \cup Permutations(Contents) \cup Permutations(Uploaders)
=============================================================================
