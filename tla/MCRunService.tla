----------------------------- MODULE MCRunService -----------------------------
(* Instances of RunService for TLC.                                          *)
EXTENDS RunService, TLC

\* Callers are interchangeable: they differ in nothing but their name.
CallerSymmetry == Permutations(Callers)
=============================================================================
