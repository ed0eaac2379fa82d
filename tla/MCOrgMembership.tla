--------------------------- MODULE MCOrgMembership ---------------------------
(* Instances of OrgMembership for TLC.                                     *)
EXTENDS OrgMembership, TLC

\* The users but the owner, the invitations and the requests are alike.
Symmetry == Permutations(Users \ {Owner}) \cup Permutations(Invitations)
              \cup Permutations(Handlers)

=============================================================================
