---------------------------- MODULE MCOrderedDict ----------------------------
EXTENDS OrderedDict, TLC

Symmetry == Permutations(Key)
=============================================================================
