------------------------------ MODULE MCUsers ------------------------------
\* Users and Pages for TLC.
EXTENDS Pages, TLC

CONSTANTS m1, m2, m3, alice

MacSymmetry == Permutations(Macs)
=============================================================================
