---------------------------- MODULE MCMockFaults ----------------------------
EXTENDS MockFaults, TLC

CONSTANTS a, b, health

MCPaths == {a, b, health}
MCUnfaulted == {health}

Body(p, s, d, n) == [path |-> p, status |-> s, delay |-> d, remaining |-> n]

\* One-shot and repeated failures, a delay with and without a status, a
\* catch-all said in both ways, a fault for a path that is never faulted, and
\* a body Add rejects for each of its reasons.
MCPosts ==
  { Body(a, 503, 0, 2), Body(a, 0, 1, 0), Body(b, 503, 1, 1),
    Body(MatchAll, 503, 0, 1), Body(Omitted, 503, 0, 2), Body(health, 503, 0, -1),
    Body(a, 0, 0, 1), Body(a, 99, 0, 1), Body(a, 503, -1, 1) }

Symmetry == Permutations(Requests)
=============================================================================
