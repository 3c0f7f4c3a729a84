---------------------------- MODULE MCDashboard ----------------------------
EXTENDS Dashboard, TLC
MCSymmetry == Permutations(Keys)
=============================================================================
