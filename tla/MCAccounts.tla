----------------------------- MODULE MCAccounts ------------------------------
(* Instances of Accounts small enough for TLC.                             *)
EXTENDS Accounts, TLC

\* An address, and something that is none.
MCInputs     == {"User@Host.net", "user"}
MCNormalForm == [i \in MCInputs |-> IF i = "user" THEN None ELSE CHOOSE u \in Users : TRUE]

\* Goroutines are interchangeable.
Symmetry == Permutations(Workers)
=============================================================================
