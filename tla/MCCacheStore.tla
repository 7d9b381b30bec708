---------------------------- MODULE MCCacheStore ----------------------------
(* Constants for model-checking CacheStore. *)
EXTENDS CacheStore, TLC

CONSTANTS r1, r2, r3, s1, s2, s3, base, full, other, v1, v2

\* `full` and `other` are keys that extend the restore-key `base`.
MCExtends == {<<base, base>>, <<full, full>>, <<other, other>>,
              <<base, full>>, <<base, other>>}

Symmetry == Permutations({r1, r2, r3}) \cup Permutations({s1, s2, s3})
              \cup Permutations({full, other}) \cup Permutations({v1, v2})
=============================================================================
