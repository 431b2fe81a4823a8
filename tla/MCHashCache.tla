---------------------------- MODULE MCHashCache ----------------------------
(* A cache of three entries under two buckets, for TLC. *)
EXTENDS HashCache, TLC

CONSTANTS f1, f2, f3

\* f1 and f2 share a bucket.
TwoBuckets == f1 :> 0 @@ f2 :> 0 @@ f3 :> 1

AnyCell == Permutations(Cells)
=============================================================================
