-------------------------- MODULE MCStreamPipeline --------------------------
(* StreamPipeline for TLC: event ids are interchangeable model values. *)
EXTENDS StreamPipeline, TLC

EventIdSymmetry == Permutations(EventIds)

=============================================================================
