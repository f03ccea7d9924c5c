------------------------------ MODULE MCListener ------------------------------
(* Instances of Listener for TLC. *)
EXTENDS Listener, TLC

(* Descriptors and peers are interchangeable: sound where only safety is    *)
(* checked.                                                                 *)
Symmetry == Permutations(Fd) \cup Permutations(Peers)
=============================================================================
