---------------------------- MODULE MCThreadPool ----------------------------
(* Small instances of ThreadPool for TLC. *)
EXTENDS ThreadPool, TLC

CONSTANTS l1, l2, r1, r2, r3

\* Two requests on the first loop, any other on the second.
TwoLoops == [r \in Reqs |-> IF r \in {r1, r2} THEN l1 ELSE l2]
OneLoop == [r \in Reqs |-> l1]

\* UV_THREADPOOL_SIZE zero and negative.
EdgeSizes == {0, -1}

\* The requests of a single loop are interchangeable.
Symmetry == Permutations(Reqs)
=============================================================================
