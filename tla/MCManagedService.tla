--------------------------- MODULE MCManagedService ---------------------------
(* Small instances of the Service step: its ports are interchangeable. *)
EXTENDS ManagedService, TLC

PortSymmetry == Permutations(Ports)
=============================================================================
