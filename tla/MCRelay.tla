------------------------------ MODULE MCRelay ------------------------------
(* Small instances of RelayControl for TLC: requests and handlers are      *)
(* interchangeable, and so are channels.                                   *)
EXTENDS RelayControl, TLC

Symmetry == Permutations(Request) \cup Permutations(Hook)
=============================================================================
