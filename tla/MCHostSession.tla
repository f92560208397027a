---------------------------- MODULE MCHostSession ----------------------------
(* Instances of HostSession for TLC.                                         *)
EXTENDS HostSession

\* Prompts are interchangeable: they differ in nothing but their name.
PromptSymmetry == Permutations(Prompts)
==============================================================================
