------------------------------ MODULE MCHelper ------------------------------
(* Reads: two clients of one query, whose device has two answers of two     *)
(* pages each; one of them fits the cache. Captures: two targets and two    *)
(* filters; a text of a section of its own, and one twice as large. Limits: *)
(* three requests in two seconds, for two reads of two pages each and calls *)
(* of one or two. Log: a segment takes two records, or a fragment, its      *)
(* newline and a record.                                                    *)
EXTENDS Helper, TLC
CONSTANTS q1, d1, a, b, x, y, g1, g2, a1, r1, r2
MCDevice == q1 :> d1
MCOutputs == q1 :> {a, b}
MCPages == a :> 2 @@ b :> 2
MCSection == x :> g1 @@ y :> g2
MCSize == x :> 1 @@ y :> 2
MCAlias == r1 :> a1 @@ r2 :> a1
(* Threads, Targets and Writers are of different parts, and the same set *)
Symmetry == Permutations(Threads) \cup Permutations(Filters)
=============================================================================
