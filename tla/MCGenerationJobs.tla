-------------------------- MODULE MCGenerationJobs --------------------------
(* Instances of GenerationJobs for TLC.                                    *)
EXTENDS GenerationJobs, TLC

AllFaults == FaultKinds

\* Jobs, workers and streams are interchangeable: no property names one.  (Not
\* used for the liveness property, where symmetry is not sound.)
Symmetry == Permutations(Jobs) \cup Permutations(Workers)
              \cup Permutations(Streams)

=============================================================================
