------------------------------- MODULE MCMFS -------------------------------
(* Constants of the TLC runs of MFS.                                       *)
EXTENDS MFS, TLC

CONSTANTS n0, n1, n2, n3, s1, s2, s3, f, g

(* fs_recover enters the name RecoverName and no other.                    *)
RecoverSymmetry == Permutations(Slots) \cup Permutations(Inums \ {n0})

Symmetry == Permutations(Slots) \cup Permutations(Inums \ {n0}) \cup Permutations(FileNames)
=============================================================================
