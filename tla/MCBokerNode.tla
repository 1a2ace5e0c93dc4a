---------------------------- MODULE MCBokerNode ----------------------------
(* Instances of BokerNode. The voters are interchangeable, and so are the    *)
(* candidates.                                                               *)
EXTENDS BokerNode, TLC

Interchangeable == Permutations(Voter) \cup Permutations(Candidate)
=============================================================================
