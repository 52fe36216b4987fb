----------------------------- MODULE MockFaults -----------------------------
(***************************************************************************)
(* Fault injection in the mock upstreams, mocks/internal/mockhttp.  The    *)
(* HTTP server runs every request in a goroutine of its own through        *)
(* injectFaults; the harness posts and clears faults meanwhile.  Faults    *)
(* keeps one queue per path, and a mutex makes Add, Reset and Take atomic; *)
(* everything else interleaves.                                            *)
(***************************************************************************)
EXTENDS Faults

CONSTANTS
  Omitted,      \* a posted fault without a path
  Posts         \* the fault bodies the harness posts, well formed or not

ASSUME PostAssumption ==
  /\ Omitted \notin Keys
  /\ Posts \subseteq [path : Keys \cup {Omitted}, status : Int,
                      delay : Int, remaining : Int]

VARIABLES
  queues,       \* the queued faults of each key
  remaining     \* how many requests each fault has left to hit

vars == <<faultVars, queues, remaining>>

Stages == {"new", "arrived", "delaying", "waited", "serving"} \cup Outcomes

TypeOK ==
  /\ added \in Seq(Fault)
  /\ cleared \in 0 .. Len(added)
  /\ path \in [Requests -> Keys]
  /\ taken \in [Requests -> 0 .. Len(added)]
  /\ stage \in [Requests -> Stages]
  /\ gone \subseteq Requests
  /\ queues \in [Keys -> Seq(Nat)]
  /\ remaining \in Seq(Nat)

Init ==
  /\ added = <<>>
  /\ cleared = 0
  /\ path = [r \in Requests |-> MatchAll]
  /\ taken = [r \in Requests |-> 0]
  /\ stage = [r \in Requests |-> "new"]
  /\ gone = {}
  /\ queues = [k \in Keys |-> <<>>]
  /\ remaining = <<>>
-----------------------------------------------------------------------------
(* The control plane *)

\* Mistake: only the status is validated.
ValidStatus(post) == post.status # 0 => post.status \in 100 .. 599

Valid(post) ==
  /\ post.status # 0 \/ post.delay # 0
  /\ post.status # 0 => post.status \in 100 .. 599
  /\ post.delay >= 0

\* Faults.Add fills in what the body leaves out.
Normal(post) ==
  [key |-> IF post.path = Omitted THEN MatchAll ELSE post.path,
   status |-> post.status, delay |-> post.delay,
   times |-> IF post.remaining <= 0 THEN 1 ELSE post.remaining]

Enqueue(fault) ==
  /\ added' = Append(added, fault)
  /\ remaining' = Append(remaining, fault.times)
  /\ queues' = [queues EXCEPT ![fault.key] = Append(@, Len(added) + 1)]

\* POST /__mock/faults.  An invalid body is answered 400 and changes nothing.
AddFault(post) ==
  /\ Valid(post)
  /\ Len(added) < MaxFaults
  /\ Enqueue(Normal(post))
  /\ UNCHANGED <<cleared, path, taken, stage, gone>>

\* DELETE /__mock/faults.
ResetFaults ==
  /\ cleared' = Len(added)
  /\ queues' = [k \in Keys |-> <<>>]
  /\ UNCHANGED <<added, path, taken, stage, gone, remaining>>
-----------------------------------------------------------------------------
(* A request's goroutine, through injectFaults *)

Goto(r, to) == stage' = [stage EXCEPT ![r] = to]

Arrive(r) ==
  /\ stage[r] = "new"
  /\ \E p \in Paths : path' = [path EXCEPT ![r] = p]
  /\ Goto(r, "arrived")
  /\ UNCHANGED <<added, cleared, taken, gone, queues, remaining>>

Bypass(r) ==
  /\ stage[r] = "arrived" /\ path[r] \in Unfaulted
  /\ Goto(r, "serving")
  /\ UNCHANGED <<added, cleared, path, taken, gone, queues, remaining>>

\* Mistake: off by one, the fault stays queued for one request too many.
TakeFromOnceMore(r, k) ==
  LET f == Head(queues[k]) IN
  /\ taken' = [taken EXCEPT ![r] = f]
  /\ remaining' = [remaining EXCEPT ![f] = @ - 1]
  /\ queues' = IF remaining[f] <= 0
               THEN [queues EXCEPT ![k] = Tail(@)] ELSE queues
  /\ Goto(r, "delaying")

\* One request fewer for the fault at the head of the queue, which leaves it
\* with the last one.
TakeFrom(r, k) ==
  LET f == Head(queues[k]) IN
  /\ taken' = [taken EXCEPT ![r] = f]
  /\ remaining' = [remaining EXCEPT ![f] = @ - 1]
  /\ queues' = IF remaining[f] - 1 <= 0
               THEN [queues EXCEPT ![k] = Tail(@)] ELSE queues
  /\ Goto(r, "delaying")

\* Mistake: the catch-all queue comes first.
TakeCatchAllFirst(r) ==
  /\ stage[r] = "arrived" /\ path[r] \notin Unfaulted
  /\ \/ queues[MatchAll] # <<>> /\ TakeFrom(r, MatchAll)
     \/ queues[MatchAll] = <<>> /\ queues[path[r]] # <<>> /\ TakeFrom(r, path[r])
     \/ /\ queues[path[r]] = <<>> /\ queues[MatchAll] = <<>>
        /\ Goto(r, "serving")
        /\ UNCHANGED <<taken, queues, remaining>>
  /\ UNCHANGED <<added, cleared, path, gone>>

\* Faults.Take prefers the queue of the exact path to the catch-all one.
Take(r) ==
  /\ stage[r] = "arrived" /\ path[r] \notin Unfaulted
  /\ \/ queues[path[r]] # <<>> /\ TakeFrom(r, path[r])
     \/ queues[path[r]] = <<>> /\ queues[MatchAll] # <<>> /\ TakeFrom(r, MatchAll)
     \/ /\ queues[path[r]] = <<>> /\ queues[MatchAll] = <<>>
        /\ Goto(r, "serving")
        /\ UNCHANGED <<taken, queues, remaining>>
  /\ UNCHANGED <<added, cleared, path, gone>>

\* The timer ends the delay, or the request's context does.
Wait(r) ==
  /\ stage[r] = "delaying"
  /\ \/ Goto(r, "waited")
     \/ added[taken[r]].delay > 0 /\ r \in gone /\ Goto(r, "dropped")
  /\ UNCHANGED <<added, cleared, path, taken, gone, queues, remaining>>

Reply(r) ==
  /\ stage[r] = "waited"
  /\ Goto(r, IF added[taken[r]].status = 0 THEN "serving" ELSE "fault")
  /\ UNCHANGED <<added, cleared, path, taken, gone, queues, remaining>>

Serve(r) ==
  /\ stage[r] = "serving"
  /\ Goto(r, "real")
  /\ UNCHANGED <<added, cleared, path, taken, gone, queues, remaining>>

\* The client times out or hangs up, and the server cancels the context;
\* only a delay that is still ahead looks at it.
GiveUp(r) ==
  /\ stage[r] \in {"arrived", "delaying"}
  /\ gone' = gone \cup {r}
  /\ UNCHANGED <<added, cleared, path, taken, stage, queues, remaining>>

Handle(r) ==
  \/ Arrive(r) \/ Bypass(r) \/ Take(r) \/ Wait(r)
  \/ Reply(r) \/ Serve(r) \/ GiveUp(r)

Next ==
  \/ \E post \in Posts : AddFault(post)
  \/ ResetFaults
  \/ \E r \in Requests : Handle(r)

Spec == Init /\ [][Next]_vars
-----------------------------------------------------------------------------
(* Properties *)

\* The queues say what the history says: the queue of a key holds exactly
\* the faults still pending for it, in the order they were posted, and each
\* fault has as many requests left as it was posted for less those it hit.
QueuesInOrder ==
  \A k \in Keys : \A i, j \in 1 .. Len(queues[k]) :
    i < j => queues[k][i] < queues[k][j]

QueuesComplete ==
  \A k \in Keys : { queues[k][i] : i \in 1 .. Len(queues[k]) } = Pending(k)

QueuesCount ==
  /\ Len(remaining) = Len(added)
  /\ \A f \in 1 .. Len(added) :
       remaining[f] = added[f].times - Cardinality(Hits(f))

\* A fault only ever hits a request on its own path or, as a catch-all, on
\* one that may be faulted; whoever still has its judgement ahead has not
\* been hit, and whoever the handler serves was hit at most by a delay.
HitsFit ==
  \A r \in Requests :
    /\ taken[r] # 0 =>
         /\ added[taken[r]].key \in {path[r], MatchAll}
         /\ path[r] \notin Unfaulted
    /\ stage[r] \in {"delaying", "waited"} => taken[r] # 0
    /\ stage[r] \in {"new", "arrived"} => taken[r] = 0
    /\ stage[r] = "serving" => taken[r] = 0 \/ added[taken[r]].status = 0
    /\ stage[r] # "new" => path[r] \in Paths

QueueInv == QueuesInOrder /\ QueuesComplete /\ QueuesCount /\ HitsFit

IndInv == TypeOK /\ QueueInv

\* However requests, posts and resets interleave, each request is judged at
\* one instant as FaultPlan says, and answered accordingly
\* (mocks/README.md:53-64).
Plan == INSTANCE FaultPlan WITH
  stage <- [r \in Requests |->
              IF stage[r] \in {"delaying", "waited", "serving"}
              THEN "judged" ELSE stage[r]]
Implements == Plan!Spec
=============================================================================
