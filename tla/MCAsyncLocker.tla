--------------------------- MODULE MCAsyncLocker ----------------------------
(***************************************************************************)
(* Small instances of AsyncLocker for TLC.  Locks are interchangeable and  *)
(* every property of the runs is a safety property, so the runs reduce by  *)
(* the symmetry of the locks.                                              *)
(***************************************************************************)
EXTENDS AsyncLocker, TLC

LockerSymmetry == Permutations(Lock)
=============================================================================
