------------------------------ MODULE MCAccounts ------------------------------
(* Instances of Accounts for TLC. *)
EXTENDS Accounts, TLC

CONSTANTS k1, e1, e2, r1, r2, r3, r4

\* Requests, keys and addresses are interchangeable: no action or property names one.
AccountsSymmetry == Permutations(Request) \cup Permutations(Email)
=============================================================================
