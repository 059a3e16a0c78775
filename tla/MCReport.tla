------------------------------ MODULE MCReport ------------------------------
(***************************************************************************)
(* Constants for Evidence.                                                 *)
(***************************************************************************)
EXTENDS Evidence

MCRank == [k \in {"balancer", "curve", "malformed"} |->
              CASE k = "balancer" -> 1 [] k = "curve" -> 2 [] OTHER -> 3]

CallSymmetry == Permutations(Calls)
=============================================================================
