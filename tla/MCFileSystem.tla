---------------------------- MODULE MCFileSystem ----------------------------
(* The file system when power does not fail while the inode bitmap on the  *)
(* disk is the one that flush_sbm has put there.                           *)
EXTENDS FileSystemInv, TLC
CONSTANTS n1, n2

NameSymmetry == Permutations(Name)
=============================================================================
