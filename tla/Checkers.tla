------------------------------ MODULE Checkers ------------------------------
(***************************************************************************)
(* The two implementations of ModelChecker side by side: the iterative one *)
(* runs, and what it returns is compared with what the recursive one       *)
(* returns for the same history.                                           *)
(***************************************************************************)
EXTENDS WglChecker, RecursiveChecker

(* The two checkers give the same answer ("the semantics of this           *)
(* implementation must be the same as the semantics of the non-recursive   *)
(* implementation", lincheck_recursive.h:51).                              *)
AgreesWithRecursive ==
  verdict # "none" => (verdict = "linearizable") = CheckRecursive(history)
=============================================================================
