-------------------------------- MODULE Sums --------------------------------
(***************************************************************************)
(* Finite sums over 1..n, written as a recursive function so that the      *)
(* modules that use them can be proved about.                              *)
(***************************************************************************)
EXTENDS Integers

SumTo(h, n) ==
  LET s[i \in 0..n] == IF i = 0 THEN 0 ELSE s[i-1] + h[i]
  IN  s[n]
=============================================================================
