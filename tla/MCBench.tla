-------------------------------- MODULE MCBench --------------------------------
(* Two runners on one directory; a few runs more than the fewest that can  *)
(* be judged, ten logs and more, so that their names do not sort by text.  *)
(* The rules of "real" are those of "single".                              *)
EXTENDS Bench, TLC

MCRuns == [t \in {"single", "batch"} |-> IF t = "batch" THEN 32 ELSE 16]

Symmetry == Permutations(Runners)
================================================================================
