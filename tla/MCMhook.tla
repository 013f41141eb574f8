------------------------------ MODULE MCMhook ------------------------------
(* Instances of Mhook for TLC.                                             *)
EXTENDS Mhook

CONSTANTS t1, t2, findFirst, findNext

FunctionsDef == <<findFirst, findNext>>

=============================================================================
