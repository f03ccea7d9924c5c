--------------------------- MODULE MCFramePipeline ---------------------------
(* Instances of FramePipeline for TLC. *)
EXTENDS FramePipeline, TLC

(* Buffers are interchangeable, and so are connections: sound where only    *)
(* safety is checked.                                                       *)
Symmetry == Permutations(Buffers) \cup Permutations(Sockets)
=============================================================================
