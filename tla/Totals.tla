------------------------------- MODULE Totals -------------------------------
(* The sum of a function with natural values over a finite domain, written   *)
(* as the number of unit coins it stands for: a value f[x] is the set of     *)
(* coins <<x, 1>>, ..., <<x, f[x]>>.  A sum defined by a fold can only be    *)
(* reasoned about by induction over the domain; a cardinality comes with the *)
(* theorems about finite sets.                                               *)
EXTENDS Integers, FiniteSets

\* The unit coins of f; a value below 1 has none.
Coins(f) == UNION {{x} \X (1..f[x]) : x \in DOMAIN f}

\* The sum of f over its domain.
Total(f) == Cardinality(Coins(f))
=============================================================================
