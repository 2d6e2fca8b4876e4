------------------------------- MODULE MCHeaps -------------------------------
(***************************************************************************)
(* Heaps of up to four small pages: an object of three words, a page of    *)
(* four, and a quota that a few objects reach.                             *)
(***************************************************************************)
EXTENDS Heaps, TLC

CONSTANTS p, q

One == <<"int", 1>>
\* Two keys, in descending order; map_put meets them again.
SomeKeys == {<<<<"atom", 0>>, <<"int", 0>>>>}
ProcSymmetry == Permutations(Procs)
\* Two registers, and one of them twice.
Pairs == {<<1, 1>>, <<1, 2>>}
Blob == {BinaryWords(3, <<<<"raw", 7>>, <<"raw", 8>>>>)}
=============================================================================
