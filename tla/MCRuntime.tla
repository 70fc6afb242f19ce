----------------------------- MODULE MCRuntime ------------------------------
(***************************************************************************)
(* Instances of Runtime for TLC: a host root with one dotdir, and one      *)
(* container layer whose dotdir shows in its diff/ and its merged/ view.   *)
(***************************************************************************)
EXTENDS Runtime, TLC

CONSTANTS d1, d2, tmp, diff, merged, p1, q1, q2, n1, n2

MCRootOf == (p1 :> tmp) @@ (q1 :> diff) @@ (q2 :> merged)
MCDirOf  == (p1 :> d2) @@ (q1 :> d1) @@ (q2 :> d1)
MCNameOf == (p1 :> n2) @@ (q1 :> n1) @@ (q2 :> n1)
MCRank   == (tmp :> 0) @@ (p1 :> 1) @@ (q1 :> 2) @@ (q2 :> 3)

\* Hashes and file slots are interchangeable: only sets of them are compared.
Symmetry == Permutations(Hashes) \cup Permutations(Files)
=============================================================================
