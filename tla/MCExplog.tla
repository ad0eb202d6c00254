------------------------------- MODULE MCExplog -------------------------------
(* Two processes, two configuration files, ids that may collide.           *)
EXTENDS Explog, TLC

(* Nothing reads which data_roots exist.                                   *)
View == <<proc, log, log_parent, config, dir, head, pending, clock, runs, edits,
          succeeded>>

Symmetry == Permutations(Processes) \union Permutations(Configs)
=============================================================================
