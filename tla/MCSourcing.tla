----------------------------- MODULE MCSourcing -----------------------------
EXTENDS Sourcing, TLC

CONSTANTS cheap, dear, r1, r2

Symmetry == Permutations({r1, r2}) \cup Permutations({cheap, dear})
=============================================================================
