----------------------------- MODULE MCRunEvents -----------------------------
(* Finite instances of RunEvents. *)
EXTENDS RunEvents, TLC

CONSTANTS p1, p2, p3, hostA, hostB

\* No process shares its host with a mortal one: p1 alone on A may die.
HostApart == (p1 :> hostA) @@ (p2 :> hostB) @@ (p3 :> hostB)
\* Everything on one host.
HostShared == [p \in Procs |-> hostA]

\* The two immortal processes, the ids and the bodies are interchangeable.
Interchangeable ==
    Permutations({p2, p3}) \cup Permutations(Ids) \cup Permutations(Bodies)

=============================================================================
