-------------------------- MODULE MCConnectionPool --------------------------
(* Instances of ConnectionPool for TLC: holders are interchangeable.        *)
EXTENDS ConnectionPool, TLC

HolderSymmetry == Permutations(Holder)
=============================================================================
