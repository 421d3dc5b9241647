-------------------------- MODULE RegenPipelineMC --------------------------
(* RegenPipeline for TLC: attempts are interchangeable.                     *)
EXTENDS RegenPipeline, TLC

AttemptSymmetry == Permutations(Attempts)
=============================================================================
