---------------------------- MODULE MCOverlapEmu ----------------------------
(* Instances of OverlapEmu for TLC.                                        *)
EXTENDS OverlapEmu, TLC

CONSTANTS r1, r2, r3

(* No definition of OverlapEmu tells one request from another.             *)
RequestSymmetry == Permutations(Requests)

=============================================================================
