---------------------------- MODULE MCSkpSessions ----------------------------
EXTENDS SkpSessions, TLC

\* Queries, and the STARTs of a ticket, are interchangeable.
MCSymmetry == Permutations(Query) \cup Permutations(Start)
=============================================================================
