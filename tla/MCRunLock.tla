------------------------------ MODULE MCRunLock ------------------------------
(* Finite instances of RunLock alone. *)
EXTENDS RunLock

CONSTANTS p1, p2, hostA

\* Everything on one host: dead owners are found and their locks archived.
HostShared == [p \in Procs |-> hostA]

=============================================================================
