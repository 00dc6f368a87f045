-------------------------------- MODULE Sums --------------------------------
(* Sums of the amounts of a family, a function or a sequence.              *)
EXTENDS Integers, FiniteSets

(* The sum is the number of units: 1 to amounts[k], for every k.           *)
Units(amounts) == UNION {{k} \X (1 .. amounts[k]) : k \in DOMAIN amounts}
Sum(amounts) == Cardinality(Units(amounts))
=============================================================================
