-------------------------------- MODULE Arranging --------------------------------
(* Lists in an order. SetToSortSeq gives them too, by an operator of TLC that *)
(* the provers have no definition of.                                        *)
EXTENDS Integers, FiniteSets

(* The elements of a set, each once, in the order of "before", which no two   *)
(* of them share: Python's sorted, a query's ORDER BY.                        *)
Arranged(S, before(_, _)) ==
  CHOOSE list \in [1..Cardinality(S) -> S] :
    \A i, k \in DOMAIN list : i < k => before(list[i], list[k])

===============================================================================
