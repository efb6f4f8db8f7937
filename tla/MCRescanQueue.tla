---------------------------- MODULE MCRescanQueue ----------------------------
(* Instances of RescanQueue for TLC. *)
EXTENDS RescanQueue, TLC

Symmetry == Permutations(Task) \cup Permutations(Ip)
              \cup Permutations(ScanId) \cup Permutations(Agent)
=============================================================================
