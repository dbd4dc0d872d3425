------------------------- MODULE MCChangeExecution -------------------------
(* Small instances of ChangeExecution for TLC. *)
EXTENDS ChangeExecution, TLC

(* The states of the object, of the rest and of the accounts are compared   *)
(* for equality only.                                                       *)
Interchangeable == Permutations(Ops) \cup Permutations(Values) \cup Permutations(Rests) \cup Permutations(Accounts)
============================================================================
