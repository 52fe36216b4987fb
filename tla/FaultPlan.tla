----------------------------- MODULE FaultPlan ------------------------------
(***************************************************************************)
(* What fault injection promises a scenario (mocks/README.md, "Fault       *)
(* injection"): every request is judged once, at one instant.  The oldest  *)
(* pending fault for its path hits it; failing one, the oldest pending     *)
(* catch-all fault; failing that, none.  A fault is pending until it has   *)
(* hit as many requests as it was posted for, or the harness clears it.    *)
(***************************************************************************)
EXTENDS Faults

Init ==
  /\ added = <<>>
  /\ cleared = 0
  /\ path = [r \in Requests |-> MatchAll]
  /\ taken = [r \in Requests |-> 0]
  /\ stage = [r \in Requests |-> "new"]
  /\ gone = {}

Post ==
  /\ Len(added) < MaxFaults
  /\ Len(added') = Len(added) + 1
  /\ added'[Len(added')] \in Fault
  /\ added' = Append(added, added'[Len(added')])
  /\ UNCHANGED <<cleared, path, taken, stage, gone>>

Clear ==
  /\ cleared' = Len(added)
  /\ UNCHANGED <<added, path, taken, stage, gone>>

Send(r, p) ==
  /\ stage[r] = "new"
  /\ path' = [path EXCEPT ![r] = p]
  /\ stage' = [stage EXCEPT ![r] = "arrived"]
  /\ UNCHANGED <<added, cleared, taken, gone>>

GiveUp(r) ==
  /\ stage[r] \in {"arrived", "judged"}
  /\ gone' = gone \cup {r}
  /\ UNCHANGED <<added, cleared, path, taken, stage>>

Culprits(p) == IF Pending(p) # {} THEN Pending(p) ELSE Pending(MatchAll)

Judge(r) ==
  /\ stage[r] = "arrived"
  /\ stage' = [stage EXCEPT ![r] = "judged"]
  /\ \/ /\ path[r] \in Unfaulted \/ Culprits(path[r]) = {}
        /\ UNCHANGED taken
     \/ /\ path[r] \notin Unfaulted /\ Culprits(path[r]) # {}
        /\ taken' = [taken EXCEPT ![r] = Oldest(Culprits(path[r]))]
  /\ UNCHANGED <<added, cleared, path, gone>>

\* A fault with a status replaces the answer; one that only delays does not;
\* one that delays may outlast the client's patience.
Answers(r) ==
  IF taken[r] = 0 THEN {"real"}
  ELSE LET f == added[taken[r]] IN
       {IF f.status = 0 THEN "real" ELSE "fault"}
       \cup {o \in {"dropped"} : f.delay # 0 /\ r \in gone}

Answer(r) ==
  /\ stage[r] = "judged"
  /\ \E o \in Answers(r) : stage' = [stage EXCEPT ![r] = o]
  /\ UNCHANGED <<added, cleared, path, taken, gone>>

Next ==
  \/ Post \/ Clear
  \/ \E r \in Requests, p \in Paths : Send(r, p)
  \/ \E r \in Requests : GiveUp(r) \/ Judge(r) \/ Answer(r)

Spec == Init /\ [][Next]_faultVars
=============================================================================
