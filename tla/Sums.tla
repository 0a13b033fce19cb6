--------------------------------- MODULE Sums ---------------------------------
(***************************************************************************)
(* The sum of a column of whole amounts, as the number of units in it: the *)
(* dollars of a row are counted one by one.  (Cardinalities have theorems; *)
(* folds have none.)                                                       *)
(***************************************************************************)
EXTENDS Naturals, FiniteSets

Units(f) == UNION {{i} \X (1..f[i]) : i \in DOMAIN f}
SumOf(f) == Cardinality(Units(f))
=============================================================================
