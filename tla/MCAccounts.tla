------------------------------ MODULE MCAccounts ------------------------------
EXTENDS Accounts, TLC

CONSTANTS ada, adaTyped, bob

\* adaTyped is ada with capitals in the domain.
MCCanonical == [e \in Email |-> IF e = adaTyped THEN ada ELSE e]
MCLower == MCCanonical
BrowserSymmetry == Permutations(Browser)
=============================================================================
