------------------------------ MODULE MCOutbox ------------------------------
EXTENDS Outbox, TLC

CONSTANT u1

\* Every event is for the first user.
OneTarget == [e \in Events |-> u1]

\* Dispatchers are interchangeable (safety runs only).
Symmetry == Permutations(Dispatchers)
=============================================================================
