-------------------------- MODULE MCHostedSnapshot --------------------------
(* A small instance: two queries, two seeds, and deployments of one or two *)
(* storages that serve at the same time, as they do during a publication.  *)
EXTENDS HostedSnapshot, TLC

CONSTANTS r1, r2, r3, q1, q2, A, B

On(seed, storage) == [seed |-> seed, storage |-> storage]
MCFleets == {
    {On(A, "object"), On(B, "object")},
    {On(A, "generation"), On(B, "generation")},
    {On(A, "inline"), On(B, "inline")},
    {On(A, "generation"), On(A, "object")},
    {On(A, "inline"), On(B, "generation")}}
Symmetry == Permutations({r1, r2, r3}) \cup Permutations({q1, q2})
=============================================================================
