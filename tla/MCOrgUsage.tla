----------------------------- MODULE MCOrgUsage -----------------------------
(* An instance of OrgUsage for TLC.                                        *)
EXTENDS OrgUsage, TLC

\* Rows and requests are interchangeable.
Symmetry == Permutations(Rows) \cup Permutations(Handlers)

=============================================================================
