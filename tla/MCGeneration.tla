---------------------------- MODULE MCGeneration ----------------------------
EXTENDS Generation, TLC

\* Workers are interchangeable (safety runs only).
Symmetry == Permutations(Workers)
=============================================================================
