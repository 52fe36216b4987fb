------------------------------ MODULE LoadRun -------------------------------
(***************************************************************************)
(* The load test, src/loadtest/main.go.  main runs the targets one after   *)
(* the other; run starts the workers of a target, which claim the indices  *)
(* of its requests from one atomic counter, write the duration of each     *)
(* into one shared slice and count the errors, and reports once they have  *)
(* all returned.                                                           *)
(***************************************************************************)
EXTENDS Integers, FiniteSets, Sequences, Functions

CONSTANTS
  Workers,      \* the goroutines -concurrency may ask for
  MaxTotal,     \* bound: the largest -requests
  Targets,      \* how many targets there are
  Durations     \* how long a request may take

ASSUME LoadAssumption ==
  /\ IsFiniteSet(Workers)
  /\ MaxTotal \in Nat /\ Targets \in Nat
  /\ Durations \subseteq Nat \ {0}

VARIABLES
  crew,         \* -concurrency, as the goroutines it starts
  total,        \* -requests: requests per target
  target,       \* the target main is at
  pc,           \* where main is
  index,        \* the shared counter
  at,           \* where each worker is
  claim,        \* the request each worker claimed last
  durations,    \* the shared slice
  errors,       \* the shared count
  failures,     \* the requests of this target that failed
  report,       \* what run returned for it
  failed        \* main's verdict so far

flags == <<crew, total>>
run == <<index, at, claim, durations, errors, failures>>
vars == <<crew, total, target, pc, index, at, claim, durations, errors, failures, report, failed>>

Requests == 1 .. total

NoReport == [errors |-> 0, p50 |-> 0, p90 |-> 0, p99 |-> 0, max |-> 0]

TypeOK ==
  /\ crew \subseteq Workers
  /\ total \in 0 .. MaxTotal
  /\ target \in 1 .. Targets + 1
  /\ pc \in {"main", "running", "reported", "exited"}
  /\ index \in 0 .. total + Cardinality(crew)
  /\ at \in [Workers -> {"idle", "claiming", "calling", "counting", "done"}]
  /\ claim \in [Workers -> 0 .. total]
  /\ durations \in [Requests -> {0} \cup Durations]
  /\ errors \in 0 .. total
  /\ failures \subseteq Requests
  /\ DOMAIN report = DOMAIN NoReport
  /\ failed \in BOOLEAN

Init ==
  /\ crew \in SUBSET Workers
  /\ total \in 0 .. MaxTotal
  /\ target = 1
  /\ pc = "main"
  /\ index = 0
  /\ at = [w \in Workers |-> "idle"]
  /\ claim = [w \in Workers |-> 0]
  /\ durations = [i \in Requests |-> 0]
  /\ errors = 0
  /\ failures = {}
  /\ report = NoReport
  /\ failed = FALSE
-----------------------------------------------------------------------------
(* main *)

\* run refuses a concurrency or a number of requests that is not positive.
Refuse ==
  /\ pc = "main" /\ target <= Targets
  /\ crew = {} \/ total < 1
  /\ failed' = TRUE
  /\ target' = target + 1
  /\ UNCHANGED <<flags, pc, run, report>>

Start ==
  /\ pc = "main" /\ target <= Targets
  /\ crew # {} /\ total >= 1
  /\ pc' = "running"
  /\ index' = 0
  /\ at' = [w \in Workers |-> IF w \in crew THEN "claiming" ELSE "idle"]
  /\ claim' = [w \in Workers |-> 0]
  /\ durations' = [i \in Requests |-> 0]
  /\ errors' = 0
  /\ failures' = {}
  /\ UNCHANGED <<flags, target, report, failed>>

\* sort.Slice with durations[i] < durations[j]: the same durations, each as
\* often, none before a smaller one.
Sorted(s) ==
  CHOOSE t \in {[i \in DOMAIN s |-> s[p[i]]] : p \in Bijection(DOMAIN s, DOMAIN s)} :
    \A i, j \in DOMAIN s : i < j => t[i] <= t[j]

\* The slice counts from 0, the sequence from 1.
Percentile(sorted, p) ==
  LET i == (p * Len(sorted)) \div 100
  IN  sorted[IF i >= Len(sorted) THEN Len(sorted) ELSE i + 1]

Report(count, sorted) ==
  [errors |-> count, p50 |-> Percentile(sorted, 50), p90 |-> Percentile(sorted, 90),
   p99 |-> Percentile(sorted, 99), max |-> sorted[Len(sorted)]]

\* Mistake: the results are read once every request is claimed.
CollectEarly ==
  /\ pc = "running" /\ index >= total
  /\ pc' = "reported"
  /\ report' = Report(errors, Sorted(durations))
  /\ UNCHANGED <<flags, target, run, failed>>

\* wg.Wait, and then nobody else touches the slice.
Collect ==
  /\ pc = "running" /\ \A w \in crew : at[w] = "done"
  /\ pc' = "reported"
  /\ report' = Report(errors, Sorted(durations))
  /\ UNCHANGED <<flags, target, run, failed>>

\* main prints the line of the target and goes on to the next.
NextTarget ==
  /\ pc = "reported"
  /\ pc' = "main"
  /\ target' = target + 1
  /\ failed' = (failed \/ report.errors > 0)
  /\ UNCHANGED <<flags, run, report>>

\* The process exits with 1 when failed.
Exit ==
  /\ pc = "main" /\ target > Targets
  /\ pc' = "exited"
  /\ UNCHANGED <<flags, target, run, report, failed>>
-----------------------------------------------------------------------------
(* A worker *)

Goto(w, to) == at' = [at EXCEPT ![w] = to]

\* Mistake: one index too many.
ClaimOneMore(w) ==
  /\ at[w] = "claiming"
  /\ index' = index + 1
  /\ IF index > total
     THEN Goto(w, "done") /\ UNCHANGED claim
     ELSE Goto(w, "calling") /\ claim' = [claim EXCEPT ![w] = index + 1]
  /\ UNCHANGED <<flags, target, pc, durations, errors, failures, report, failed>>

\* Mistake: the add is not atomic, and another worker's is lost.
ClaimRacing(w) ==
  /\ at[w] = "claiming"
  /\ \/ index' = index + 1
     \/ (\E v \in Workers \ {w} : at[v] = "claiming") /\ index' = index
  /\ IF index >= total
     THEN Goto(w, "done") /\ UNCHANGED claim
     ELSE Goto(w, "calling") /\ claim' = [claim EXCEPT ![w] = index + 1]
  /\ UNCHANGED <<flags, target, pc, durations, errors, failures, report, failed>>

\* The atomic add; the worker returns when there is nothing left to claim.
Claim(w) ==
  /\ at[w] = "claiming"
  /\ index' = index + 1
  /\ IF index >= total
     THEN Goto(w, "done") /\ UNCHANGED claim
     ELSE Goto(w, "calling") /\ claim' = [claim EXCEPT ![w] = index + 1]
  /\ UNCHANGED <<flags, target, pc, durations, errors, failures, report, failed>>

\* The request, answered below 400 or not, or not answered at all; its time is
\* taken either way.
Call(w) ==
  /\ at[w] = "calling"
  /\ \E d \in Durations : durations' = [durations EXCEPT ![claim[w]] = d]
  /\ \/ Goto(w, "claiming") /\ UNCHANGED failures
     \/ Goto(w, "counting") /\ failures' = failures \cup {claim[w]}
  /\ UNCHANGED <<flags, target, pc, index, claim, errors, report, failed>>

\* Mistake: the worker that has counted an error does not go on.
CountAndHang(w) ==
  /\ at[w] = "counting"
  /\ errors' = errors + 1
  /\ Goto(w, "idle")
  /\ UNCHANGED <<flags, target, pc, index, claim, durations, failures, report, failed>>

Count(w) ==
  /\ at[w] = "counting"
  /\ errors' = errors + 1
  /\ Goto(w, "claiming")
  /\ UNCHANGED <<flags, target, pc, index, claim, durations, failures, report, failed>>
-----------------------------------------------------------------------------
Worker(w) == Claim(w) \/ Call(w) \/ Count(w)

Main == Refuse \/ Start \/ Collect \/ NextTarget \/ Exit

Next == Main \/ \E w \in Workers : Worker(w)

\* main and the goroutines keep running, and every request ends: the client
\* gives it the -timeout.
Fairness == WF_vars(Main) /\ \A w \in Workers : WF_vars(Worker(w))

Spec == Init /\ [][Next]_vars /\ Fairness
-----------------------------------------------------------------------------
TookAtMost(d) == {i \in Requests : durations[i] <= d}
TookLess(d) == {i \in Requests : durations[i] < d}

\* d is a p-th percentile of the requests: more than p percent of them, or all,
\* took at most d, and no more than p percent took less.
IsPercentile(d, p) ==
  /\ \/ 100 * Cardinality(TookAtMost(d)) > p * total
     \/ Cardinality(TookAtMost(d)) = total
  /\ 100 * Cardinality(TookLess(d)) <= p * total

\* What run reports is about exactly the requests it made: every one was
\* measured, once, the errors are the requests that failed, and the figures are
\* the percentiles of the measured durations, whatever the workers interleave.
ReportExact ==
  pc = "reported" =>
    /\ \A i \in Requests : durations[i] \in Durations
    /\ report.errors = Cardinality(failures)
    /\ IsPercentile(report.p50, 50)
    /\ IsPercentile(report.p90, 90)
    /\ IsPercentile(report.p99, 99)
    /\ TookAtMost(report.max) = Requests
    /\ \E i \in Requests : durations[i] = report.max

\* No two workers have the same request, and what is not yet claimed has not
\* been measured: the counter and the slice agree at every moment.
Claims ==
  /\ \A w, v \in Workers :
       w # v /\ claim[w] = claim[v] => claim[w] = 0
  /\ \A i \in Requests : durations[i] # 0 => i <= index
  /\ errors = Cardinality(failures \ {claim[w] : w \in {v \in Workers : at[v] = "counting"}})

\* A load run that is started ends, with errors or without: wg.Wait waits for
\* workers that all return.
Ends == <>(pc = "exited")

\* main.go:96 says that "the percentiles above describe only the requests that
\* succeeded": the slowest request reported is the slowest that succeeded.
DescribesSuccesses ==
  pc = "reported" /\ failures # Requests =>
    \E i \in Requests \ failures : durations[i] = report.max
=============================================================================
