---------------------------- MODULE MCCorrelator ----------------------------
(* Instances of Correlator for TLC: entities "ip" and "user". *)
EXTENDS Correlator, TLC

MCEntitySets == {{"ip"}, {"user"}}
Symmetry == Permutations(Thread)
=============================================================================
