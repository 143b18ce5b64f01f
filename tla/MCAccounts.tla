----------------------------- MODULE MCAccounts -----------------------------
\* Accounts for TLC.
EXTENDS Accounts, TLC

CONSTANTS m1, m2

MacSymmetry == Permutations(Macs)
=============================================================================
