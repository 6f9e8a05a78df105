------------------------------- MODULE MCShowcase -------------------------------
(* Small instances of Showcase for TLC. *)
EXTENDS Showcase, TLC

SmallLimits == [b \in Buckets |-> IF b = "mutation" THEN 2 ELSE 1]
AnyRequest == Permutations(Requests)
================================================================================
