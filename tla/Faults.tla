------------------------------- MODULE Faults -------------------------------
(***************************************************************************)
(* What a mock upstream and its clients see of fault injection: the faults *)
(* the harness has posted, and the requests the platform has sent.  Faults *)
(* are numbered in the order the mock accepted them; a fault is known by   *)
(* its number, and 0 stands for no fault.                                  *)
(***************************************************************************)
EXTENDS Integers, Sequences, FiniteSets

CONSTANTS
  Paths,        \* request paths
  MatchAll,     \* FaultMatchAll, the key of faults that match every path
  Unfaulted,    \* /health and the control plane /__mock/, never faulted
  Requests,     \* requests clients send to the mock
  MaxFaults     \* bound: how many faults are accepted

Keys == Paths \cup {MatchAll}

ASSUME PathAssumption == MatchAll \notin Paths /\ Unfaulted \subseteq Paths
ASSUME RequestAssumption == IsFiniteSet(Requests)

\* A fault as the mock keeps it; status 0 leaves the answer to the handler.
Fault ==
  { f \in [key : Keys, status : Nat, delay : Nat, times : Nat \ {0}] :
      f.status # 0 \/ f.delay # 0 }

VARIABLES
  added,        \* every fault accepted so far, oldest first
  cleared,      \* how many of them the last reset removed
  path,         \* the path of each request
  taken,        \* the fault that hits it
  stage,        \* how far it has got
  gone          \* the requests whose client has given up waiting

faultVars == <<added, cleared, path, taken, stage, gone>>

Outcomes == {"real", "fault", "dropped"}

\* The requests fault f has hit.
Hits(f) == { r \in Requests : taken[r] = f }

\* The faults for key k that still have requests to hit.
Pending(k) ==
  { f \in cleared + 1 .. Len(added) :
      added[f].key = k /\ Cardinality(Hits(f)) < added[f].times }

Oldest(F) == CHOOSE f \in F : \A g \in F : f <= g
=============================================================================
