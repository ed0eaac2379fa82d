----------------------------- MODULE MCAccounts -----------------------------
(* An instance of Accounts for TLC.                                        *)
EXTENDS Accounts, TLC

\* Clients and requests are interchangeable.
Symmetry == Permutations(Clients) \cup Permutations(Handlers)

=============================================================================
