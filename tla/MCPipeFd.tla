------------------------------ MODULE MCPipeFd ------------------------------
(* PipeFd with the descriptors that are closed and the symmetry of the      *)
(* threads other than the first.                                            *)
EXTENDS PipeFd, TLC

(* The first program, like sh, closes both ends that it gave to others. *)
Closed == {FirstTid} \X {2, 3}

Symmetry == Permutations(Tids \ {FirstTid})

=============================================================================
