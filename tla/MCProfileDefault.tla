--------------------------- MODULE MCProfileDefault ---------------------------
(* Instances of ProfileDefault for TLC.                                    *)
EXTENDS ProfileDefault, TLC

\* The profiles are alike, and so are the requests.
Symmetry == Permutations(Profiles) \cup Permutations(Handlers)

=============================================================================
