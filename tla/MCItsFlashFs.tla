---------------------------- MODULE MCItsFlashFs ----------------------------
(* Instances of ItsFlashFs for TLC: the file ids are interchangeable.      *)
EXTENDS ItsFlashFs

CONSTANTS f1, f2, f3, v1   \* file ids and a value

FidSymmetry == Permutations(Fid)
=============================================================================
