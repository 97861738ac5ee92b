--------------------------- MODULE MCLinkedQueue ---------------------------
(* LinkedQueue with a handful of nodes and PCBs. *)
EXTENDS LinkedQueue, TLC

\* Nodes differ in nothing but their address, PCBs in nothing but their name.
Symmetry == Permutations(Node) \cup Permutations(Data)
=============================================================================
