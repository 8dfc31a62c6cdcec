------------------------------- MODULE MCDisk -------------------------------
EXTENDS Disk

Symmetry == Permutations(Procs) \cup Permutations(Blocks)
=============================================================================
