------------------------------ MODULE MCModload ------------------------------
(* Modload for TLC: a compiled module that is reloaded, and that calls itself and   *)
(* one that is interpreted and reloaded until it is sealed.                        *)
EXTENDS Modload, TLC

CONSTANTS a, b

Plain(sites) == [sealed |-> FALSE, jit |-> TRUE, sites |-> sites]
Interpreted == [sealed |-> FALSE, jit |-> FALSE, sites |-> {}]
SealedTo(sites) == [sealed |-> TRUE, jit |-> TRUE, sites |-> sites]

TwoNames == {a, b}
LoadKinds == a :> {Plain({a, b})} @@ b :> {SealedTo({}), Interpreted}

Symmetry == Permutations(Loaders)
=============================================================================
