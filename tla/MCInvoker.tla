------------------------------ MODULE MCInvoker ------------------------------
(* Invoker with interchangeable workers.                                   *)
EXTENDS Invoker, TLC

MCSymmetry == Permutations(Workers)
=============================================================================
