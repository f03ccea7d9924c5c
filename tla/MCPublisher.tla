---------------------------- MODULE MCPublisher ----------------------------
(* Instances of Publisher for TLC. *)
EXTENDS Publisher, TLC

(* Descriptors, workers and publishing threads are interchangeable: sound   *)
(* where only safety is checked.                                            *)
Symmetry == Permutations(Fd) \cup Permutations(Workers) \cup Permutations(Publishers)
=============================================================================
