-------------------------- MODULE MCDataPlaneServer --------------------------
EXTENDS DataPlaneServer, TLC

\* Connections are interchangeable.
ConnSymmetry == Permutations(Conn)
=============================================================================
