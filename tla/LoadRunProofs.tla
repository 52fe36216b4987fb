---------------------------- MODULE LoadRunProofs ----------------------------
(***************************************************************************)
(* For any number of workers, requests and targets: the counter hands out  *)
(* each request once, and when run reports, each request has been measured *)
(* and each failure counted.  Ledger says why: a request the counter has   *)
(* passed is measured or in some worker's hands.                           *)
(***************************************************************************)
EXTENDS LoadRun, FiniteSetTheorems, FunctionTheorems, SequenceTheorems, TLAPS

Done == {w \in Workers : at[w] = "done"}
Uncounted == {claim[w] : w \in {v \in Workers : at[v] = "counting"}}

\* Where the requests are: those beyond the counter are untouched; of the others
\* each is measured or being made by the worker that claimed it; the failed ones
\* are measured, and counted or about to be.
Ledger ==
  /\ \A w \in Workers : claim[w] <= index
  /\ \A w \in Workers : at[w] \in {"calling", "counting"} => claim[w] # 0
  /\ \A w \in Workers : at[w] = "calling" => durations[claim[w]] = 0
  /\ \A w \in Workers : at[w] = "counting" => claim[w] \in failures
  /\ \A i \in Requests : durations[i] = 0 => i \notin failures
  /\ \A i \in Requests : i <= index =>
       durations[i] # 0 \/ \E w \in Workers : at[w] = "calling" /\ claim[w] = i

\* Where main and the workers are: nobody works unless run waits for them, and
\* a worker has returned only when there was nothing left to claim.
Order ==
  /\ index <= total + Cardinality(Done)
  /\ \A w \in Workers : at[w] = "done" => index > total
  /\ \A w \in Workers : at[w] # "idle" => w \in crew
  /\ pc # "running" => \A w \in Workers : at[w] \in {"idle", "done"}
  /\ pc \in {"running", "reported"} => crew # {} /\ total >= 1 /\ target <= Targets
  /\ pc = "reported" => \A w \in crew : at[w] = "done"
  /\ pc = "reported" => report = Report(errors, Sorted(durations))

IndInv == TypeOK /\ Claims /\ Ledger /\ Order

-----------------------------------------------------------------------------
\* The sets of workers and requests are finite, and so are their parts.
LEMMA Finite ==
  ASSUME TypeOK
  PROVE  /\ IsFiniteSet(crew) /\ Cardinality(crew) \in Nat
         /\ IsFiniteSet(Done) /\ Cardinality(Done) \in Nat
         /\ total \in Nat /\ index \in Nat
         /\ \A S \in SUBSET Requests :
              IsFiniteSet(S) /\ Cardinality(S) \in 0 .. total
<1>1. IsFiniteSet(crew) /\ IsFiniteSet(Done)
  BY LoadAssumption, FS_Subset DEF TypeOK, Done
<1>2. Cardinality(crew) \in Nat /\ Cardinality(Done) \in Nat
  BY <1>1, FS_CardinalityType
<1>3. total \in Nat /\ index \in Nat
  BY <1>2, LoadAssumption DEF TypeOK
<1>4. IsFiniteSet(Requests) /\ Cardinality(Requests) = total
  BY <1>3, FS_Interval DEF Requests
<1>5. ASSUME NEW S \in SUBSET Requests
      PROVE  IsFiniteSet(S) /\ Cardinality(S) \in 0 .. total
  BY <1>3, <1>4, <1>5, FS_Subset, FS_CardinalityType
<1> QED
  BY <1>1, <1>2, <1>3, <1>5

\* The bounds TypeOK puts on the shared counters follow from who may move them.
LEMMA Bounds ==
  ASSUME TypeOK, Claims, Order
  PROVE  index <= total + Cardinality(crew)
<1>1. Done \subseteq crew
  BY DEF Done, Order
<1>2. Cardinality(Done) <= Cardinality(crew)
  BY <1>1, Finite, FS_Subset
<1> QED
  BY <1>2, Finite DEF Order

\* Before the first target nothing is claimed, measured or counted.
LEMMA InvInit == Init => IndInv
<1> SUFFICES ASSUME Init PROVE IndInv
  OBVIOUS
<1>1. IsFiniteSet(crew) /\ Cardinality(crew) \in Nat /\ total \in Nat
  BY LoadAssumption, FS_Subset, FS_CardinalityType DEF Init
<1>2. Cardinality({}) = 0
  BY FS_EmptySet
<1>3. TypeOK
  <2>1. durations \in [Requests -> {0} \cup Durations]
    BY DEF Init
  <2>2. target \in 1 .. Targets + 1 /\ index \in 0 .. total + Cardinality(crew)
    BY <1>1, LoadAssumption DEF Init
  <2>3. /\ claim \in [Workers -> 0 .. total] /\ errors \in 0 .. total
        /\ failures \subseteq Requests
    BY <1>1 DEF Init
  <2>4. DOMAIN report = DOMAIN NoReport
    BY DEF Init
  <2> QED
    BY <2>1, <2>2, <2>3, <2>4 DEF Init, TypeOK
<1>4. Claims
  <2>1. failures \ {claim[w] : w \in {v \in Workers : at[v] = "counting"}} = {}
    BY DEF Init
  <2> QED
    BY <1>2, <2>1 DEF Init, Claims, Requests
<1>5. Ledger
  BY <1>1 DEF Init, Ledger, Requests
<1>6. Order
  <2>1. Done = {}
    BY DEF Init, Done
  <2> QED
    BY <1>1, <1>2, <2>1 DEF Init, Order
<1> QED
  BY <1>3, <1>4, <1>5, <1>6 DEF IndInv

\* main's steps between two runs leave the workers and their results alone.
LEMMA MainInv ==
  ASSUME IndInv, Refuse \/ NextTarget \/ Exit
  PROVE  IndInv'
<1>1. UNCHANGED <<flags, run>>
  BY DEF Refuse, NextTarget, Exit, flags, run
<1>2. TypeOK'
  <2>1. /\ target' \in 1 .. Targets + 1 /\ report' = report
        /\ pc' \in {"main", "running", "reported", "exited"}
    BY LoadAssumption DEF IndInv, TypeOK, Order, Refuse, NextTarget, Exit
  <2>2. failed' \in BOOLEAN
    BY Zenon DEF IndInv, TypeOK, Refuse, NextTarget, Exit
  <2>3. /\ crew' \subseteq Workers /\ total' \in 0 .. MaxTotal
        /\ index' \in 0 .. total' + Cardinality(crew')
        /\ errors' \in 0 .. total' /\ failures' \subseteq Requests'
    BY <1>1 DEF IndInv, TypeOK, flags, run, Requests
  <2>4. /\ at' \in [Workers -> {"idle", "claiming", "calling", "counting", "done"}]
        /\ claim' \in [Workers -> 0 .. total']
        /\ durations' \in [Requests' -> {0} \cup Durations]
    BY <1>1 DEF IndInv, TypeOK, flags, run, Requests
  <2>5. DOMAIN report' = DOMAIN NoReport
    BY <2>1 DEF IndInv, TypeOK
  <2> QED
    BY <2>1, <2>2, <2>3, <2>4, <2>5 DEF TypeOK
<1>3. Claims' /\ Ledger'
  BY <1>1 DEF IndInv, Claims, Ledger, flags, run, Requests
<1>4. Order'
  <2>1. Done' = Done
    BY <1>1 DEF Done, run
  <2>2. pc' # "running" /\ pc' # "reported" /\ pc # "running"
    BY DEF Refuse, NextTarget, Exit
  <2> QED
    BY <1>1, <2>1, <2>2 DEF IndInv, Order, flags, run
<1> QED
  BY <1>2, <1>3, <1>4 DEF IndInv

\* A run starts with a counter, a slice and an error count of its own.
LEMMA StartInv ==
  ASSUME IndInv, Start
  PROVE  IndInv'
<1>1. Cardinality(crew) \in Nat /\ total \in Nat /\ crew \subseteq Workers
  BY Finite DEF IndInv, TypeOK
<1>2. UNCHANGED <<crew, total, target, report, failed>>
  BY DEF Start, flags
<1>3. TypeOK'
  BY <1>1, <1>2 DEF IndInv, TypeOK, Start, Requests
<1>4. Claims'
  <2>1. (failures \ {claim[w] : w \in {v \in Workers : at[v] = "counting"}})' = {}
    BY DEF Start
  <2>2. Cardinality({}) = 0
    BY FS_EmptySet
  <2> QED
    BY <1>1, <1>2, <2>1, <2>2 DEF Start, Claims, Requests
<1>5. Ledger'
  BY <1>1, <1>2 DEF Start, Ledger, Requests
<1>6. Order'
  <2>1. Done' = {} /\ Cardinality({}) = 0
    BY FS_EmptySet DEF Start, Done
  <2> QED
    BY <1>1, <1>2, <2>1 DEF Start, Order
<1> QED
  BY <1>3, <1>4, <1>5, <1>6 DEF IndInv

\* run reads what the workers left when all of them have returned.
LEMMA CollectInv ==
  ASSUME IndInv, Collect
  PROVE  IndInv'
<1>1. /\ pc = "running" /\ pc' = "reported" /\ \A w \in crew : at[w] = "done"
      /\ report' = Report(errors, Sorted(durations)) /\ DOMAIN report' = DOMAIN NoReport
      /\ UNCHANGED <<crew, total, target, index, at, claim, durations, errors, failures, failed>>
  BY DEF Collect, flags, run, NoReport, Report
<1>2. TypeOK'
  BY <1>1 DEF IndInv, TypeOK, Requests
<1>3. Claims' /\ Ledger'
  BY <1>1 DEF IndInv, Claims, Ledger, Requests
<1>4. Order'
  BY <1>1 DEF IndInv, Order, Done
<1> QED
  BY <1>2, <1>3, <1>4 DEF IndInv
-----------------------------------------------------------------------------
\* A claim takes the next request, or ends a worker when none is left.
LEMMA ClaimInv ==
  ASSUME IndInv, NEW w \in Workers, Claim(w)
  PROVE  IndInv'
<1>0. TypeOK /\ Claims /\ Ledger /\ Order
  BY DEF IndInv
<1>1. /\ at[w] = "claiming" /\ index' = index + 1
      /\ UNCHANGED <<crew, total, target, pc, durations, errors, failures, report, failed>>
  BY DEF Claim, flags
<1>2. index \in Nat /\ total \in Nat /\ Requests = 1 .. total /\ Requests' = Requests
  BY <1>0, <1>1, Finite DEF Requests
<1>3. w \in crew /\ pc = "running"
  BY <1>0, <1>1 DEF Order
<1>4. CASE index >= total
  <2>1. at' = [at EXCEPT ![w] = "done"] /\ claim' = claim
    BY <1>1, <1>4 DEF Claim, Goto
  <2>2. Done' = Done \cup {w} /\ w \notin Done
    BY <1>0, <1>1, <2>1 DEF Done, TypeOK
  <2>3. Cardinality(Done') = Cardinality(Done) + 1
    BY <1>0, <2>2, Finite, FS_AddElement
  <2>4. Order'
    <3>1. index' <= total' + Cardinality(Done')
      BY <1>0, <1>1, <1>2, <2>3, Finite DEF Order
    <3> QED
      BY <1>0, <1>1, <1>2, <1>3, <1>4, <2>1, <3>1 DEF Order, TypeOK
  <2>5. index' <= total + Cardinality(crew)
    <3>1. Done' \subseteq crew
      BY <1>0, <1>3, <2>2 DEF Done, Order
    <3>2. Cardinality(Done') <= Cardinality(crew)
      BY <1>0, <3>1, Finite, FS_Subset
    <3> QED
      BY <1>0, <1>1, <1>2, <2>3, <3>2, Finite DEF Order
  <2>6. TypeOK'
    BY <1>0, <1>1, <1>2, <2>1, <2>5, Finite DEF TypeOK
  <2>7. Claims'
    <3>1. Uncounted' = Uncounted
      BY <1>0, <1>1, <2>1 DEF TypeOK, Uncounted
    <3>2. \A i \in Requests : i <= index => i <= index'
      BY <1>1, <1>2
    <3> QED
      BY <1>0, <1>1, <1>2, <2>1, <3>1, <3>2 DEF Claims, Uncounted
  <2>8. Ledger'
    <3>1. \A i \in Requests : i <= index
      BY <1>2, <1>4
    <3>2. \A v \in Workers : at'[v] \in {"calling", "counting"} <=> at[v] \in {"calling", "counting"}
      BY <1>0, <1>1, <2>1 DEF TypeOK
    <3>3. \A v \in Workers : at'[v] \in {"calling", "counting"} => at'[v] = at[v]
      BY <1>0, <1>1, <2>1 DEF TypeOK
    <3>4. \A v \in Workers : at[v] = "calling" => at'[v] = "calling"
      BY <1>0, <1>1, <2>1 DEF TypeOK
    <3>5. \A v \in Workers : claim[v] \in Nat /\ claim[v] <= index'
      BY <1>0, <1>1, <1>2 DEF Ledger, TypeOK
    <3> QED
      BY <1>0, <1>1, <1>2, <2>1, <3>1, <3>2, <3>3, <3>4, <3>5 DEF Ledger
  <2> QED
    BY <2>4, <2>6, <2>7, <2>8 DEF IndInv
<1>5. CASE ~(index >= total)
  <2>1. at' = [at EXCEPT ![w] = "calling"] /\ claim' = [claim EXCEPT ![w] = index + 1]
    BY <1>1, <1>5 DEF Claim, Goto
  <2>2. index + 1 \in Requests /\ durations[index + 1] = 0
    BY <1>0, <1>2, <1>5 DEF Claims, TypeOK
  <2>3. Done' = Done
    BY <1>0, <1>1, <2>1 DEF Done, TypeOK
  <2>4. Order'
    <3>1. index' <= total' + Cardinality(Done')
      BY <1>0, <1>1, <1>2, <1>5, <2>3, Finite
    <3> QED
      BY <1>0, <1>1, <1>2, <1>3, <1>5, <2>1, <3>1 DEF Order, TypeOK
  <2>5. TypeOK'
    BY <1>0, <1>1, <1>2, <1>5, <2>1, <2>2, Finite DEF TypeOK
  <2>6. Claims'
    <3>1. Uncounted' = Uncounted
      <4>1. \A v \in Workers : at'[v] = "counting" <=> at[v] = "counting"
        BY <1>0, <1>1, <2>1 DEF TypeOK
      <4>2. \A v \in Workers : at[v] = "counting" => claim'[v] = claim[v]
        BY <1>0, <1>1, <2>1 DEF TypeOK
      <4> QED
        BY <4>1, <4>2 DEF Uncounted
    <3>2. \A u, v \in Workers : u # v /\ claim'[u] = claim'[v] => claim'[u] = 0
      BY <1>0, <1>2, <2>1 DEF Claims, Ledger, TypeOK
    <3>3. \A i \in Requests : i <= index => i <= index'
      BY <1>1, <1>2
    <3> QED
      BY <1>0, <1>1, <1>2, <3>1, <3>2, <3>3 DEF Claims, Uncounted
  <2>7. Ledger'
    <3>1. \A i \in Requests : i <= index + 1 => i <= index \/ i = index + 1
      BY <1>2
    <3>2. \A i \in Requests : i <= index' =>
             durations'[i] # 0 \/ \E v \in Workers : at'[v] = "calling" /\ claim'[v] = i
      BY <1>0, <1>1, <1>2, <2>1, <3>1 DEF Ledger, TypeOK
    <3> QED
      BY <1>0, <1>1, <1>2, <2>1, <2>2, <3>2 DEF Ledger, TypeOK
  <2> QED
    BY <2>4, <2>5, <2>6, <2>7 DEF IndInv
<1> QED
  BY <1>4, <1>5

\* A request, once made, is measured, and if it failed is yet to be counted.
LEMMA CallInv ==
  ASSUME IndInv, NEW w \in Workers, Call(w)
  PROVE  IndInv'
<1>0. TypeOK /\ Claims /\ Ledger /\ Order
  BY DEF IndInv
<1>1. /\ at[w] = "calling"
      /\ UNCHANGED <<crew, total, target, pc, index, claim, errors, report, failed>>
  BY DEF Call, flags
<1> PICK d \in Durations : durations' = [durations EXCEPT ![claim[w]] = d]
  BY DEF Call
<1>2. /\ index \in Nat /\ total \in Nat /\ d \in Nat \ {0}
      /\ Requests = 1 .. total /\ Requests' = Requests
  BY <1>0, <1>1, Finite, LoadAssumption DEF Requests
<1>3. /\ claim[w] \in Requests /\ claim[w] <= index
      /\ durations[claim[w]] = 0 /\ claim[w] \notin failures
  BY <1>0, <1>1, <1>2 DEF Ledger, TypeOK
<1>4. /\ durations' \in [Requests -> {0} \cup Durations]
      /\ \A i \in Requests : durations'[i] = IF i = claim[w] THEN d ELSE durations[i]
  BY <1>0, <1>2, <1>3 DEF TypeOK
<1>5. \A i \in Requests : durations'[i] # 0 => i <= index
  BY <1>0, <1>2, <1>3, <1>4 DEF Claims
<1>6. \A v \in Workers \ {w} : claim[v] # claim[w]
  BY <1>0, <1>2, <1>3 DEF Claims
<1>7. pc = "running"
  BY <1>0, <1>1 DEF Order
<1>8. ASSUME NEW to \in {"claiming", "counting"}, at' = [at EXCEPT ![w] = to]
      PROVE  Order' /\ \A v \in Workers : at'[v] = IF v = w THEN to ELSE at[v]
  <2>1. \A v \in Workers : at'[v] = IF v = w THEN to ELSE at[v]
    BY <1>0, <1>8 DEF TypeOK
  <2>2. Done' = Done
    BY <1>1, <1>8, <2>1 DEF Done
  <2> QED
    BY <1>0, <1>1, <1>7, <1>8, <2>1, <2>2 DEF Order
<1>9. CASE Goto(w, "claiming") /\ failures' = failures
  <2>1. at' = [at EXCEPT ![w] = "claiming"]
    BY <1>9 DEF Goto
  <2>2. Order' /\ \A v \in Workers : at'[v] = IF v = w THEN "claiming" ELSE at[v]
    BY <1>8, <2>1
  <2>3. TypeOK'
    BY <1>0, <1>1, <1>2, <1>4, <1>9, <2>1 DEF TypeOK
  <2>4. Claims'
    <3>1. Uncounted' = Uncounted
      BY <1>1, <2>2 DEF Uncounted
    <3> QED
      BY <1>0, <1>1, <1>2, <1>5, <1>9, <3>1 DEF Claims, Uncounted
  <2>5. Ledger'
    BY <1>0, <1>1, <1>2, <1>3, <1>4, <1>6, <1>9, <2>2 DEF Ledger
  <2> QED
    BY <2>2, <2>3, <2>4, <2>5 DEF IndInv
<1>10. CASE Goto(w, "counting") /\ failures' = failures \cup {claim[w]}
  <2>1. at' = [at EXCEPT ![w] = "counting"]
    BY <1>10 DEF Goto
  <2>2. Order' /\ \A v \in Workers : at'[v] = IF v = w THEN "counting" ELSE at[v]
    BY <1>8, <2>1
  <2>3. TypeOK'
    BY <1>0, <1>1, <1>2, <1>3, <1>4, <1>10, <2>1 DEF TypeOK
  <2>4. Claims'
    <3>1. Uncounted' = Uncounted \cup {claim[w]}
      BY <1>1, <2>2 DEF Uncounted
    <3>2. failures' \ Uncounted' = failures \ Uncounted
      BY <1>3, <1>10, <3>1
    <3> QED
      BY <1>0, <1>1, <1>2, <1>5, <3>2 DEF Claims, Uncounted
  <2>5. Ledger'
    BY <1>0, <1>1, <1>2, <1>3, <1>4, <1>6, <1>10, <2>2 DEF Ledger
  <2> QED
    BY <2>2, <2>3, <2>4, <2>5 DEF IndInv
<1> QED
  BY <1>9, <1>10 DEF Call

\* Counting an error takes it from those that are yet to be counted.
LEMMA CountInv ==
  ASSUME IndInv, NEW w \in Workers, Count(w)
  PROVE  IndInv'
<1>0. TypeOK /\ Claims /\ Ledger /\ Order
  BY DEF IndInv
<1>1. /\ at[w] = "counting" /\ errors' = errors + 1
      /\ at' = [at EXCEPT ![w] = "claiming"]
      /\ UNCHANGED <<crew, total, target, pc, index, claim, durations, failures, report, failed>>
  BY DEF Count, Goto, flags
<1>2. \A v \in Workers : at'[v] = IF v = w THEN "claiming" ELSE at[v]
  BY <1>0, <1>1 DEF TypeOK
<1>3. index \in Nat /\ total \in Nat /\ Requests' = Requests /\ failures \subseteq Requests
  BY <1>0, <1>1, Finite DEF Requests, TypeOK
<1>4. claim[w] \in failures /\ \A v \in Workers \ {w} : claim[v] # claim[w]
  BY <1>0, <1>1 DEF Ledger, Claims
<1>5. Uncounted' = Uncounted \ {claim[w]} /\ claim[w] \in Uncounted
  BY <1>1, <1>2, <1>4 DEF Uncounted
<1>6. /\ errors' = Cardinality(failures' \ Uncounted')
      /\ errors' \in 0 .. total
  <2>1. failures' \ Uncounted' = (failures \ Uncounted) \cup {claim[w]}
        /\ claim[w] \notin failures \ Uncounted
    BY <1>1, <1>4, <1>5
  <2>2. IsFiniteSet(failures \ Uncounted) /\ errors = Cardinality(failures \ Uncounted)
    BY <1>0, <1>3, Finite DEF Claims, Uncounted
  <2>3. Cardinality(failures' \ Uncounted') = errors + 1
    BY <2>1, <2>2, FS_AddElement
  <2>4. failures' \ Uncounted' \in SUBSET Requests
    BY <1>1, <1>3
  <2>5. Cardinality(failures' \ Uncounted') \in 0 .. total
    BY <1>0, <2>4, Finite
  <2> QED
    BY <1>1, <2>3, <2>5
<1>7. TypeOK'
  BY <1>0, <1>1, <1>3, <1>6 DEF TypeOK
<1>8. Claims'
  BY <1>0, <1>1, <1>3, <1>6 DEF Claims, Uncounted
<1>9. Ledger'
  BY <1>0, <1>1, <1>2, <1>3 DEF Ledger
<1>10. Order'
  <2>1. Done' = Done
    BY <1>1, <1>2 DEF Done
  <2>2. pc = "running"
    BY <1>0, <1>1 DEF Order
  <2> QED
    BY <1>0, <1>1, <1>2, <2>1, <2>2 DEF Order
<1> QED
  BY <1>7, <1>8, <1>9, <1>10 DEF IndInv

\* Every step keeps the ledger.
LEMMA InvStep == IndInv /\ [Next]_vars => IndInv'
<1> SUFFICES ASSUME IndInv, [Next]_vars PROVE IndInv'
  OBVIOUS
<1>1. CASE Main
  BY <1>1, MainInv, StartInv, CollectInv DEF Main
<1>2. CASE \E w \in Workers : Worker(w)
  BY <1>2, ClaimInv, CallInv, CountInv DEF Worker
<1>3. CASE UNCHANGED vars
  BY <1>3 DEF vars, IndInv, TypeOK, Claims, Ledger, Order, Done, Requests
<1> QED
  BY <1>1, <1>2, <1>3 DEF Next
-----------------------------------------------------------------------------
\* The ledger holds whatever the workers interleave.
THEOREM Inductive == Spec => []IndInv
  BY InvInit, InvStep, PTL DEF Spec

\* The counter never runs past the requests by more than one claim of each
\* worker, and the error count never past the requests.
THEOREM TypeCorrect == Spec => []TypeOK
<1>1. IndInv => TypeOK
  BY DEF IndInv
<1> QED
  BY Inductive, <1>1, PTL

\* No two workers ever measure the same request, and no error is counted twice
\* or forgotten.
THEOREM ClaimsExclusive == Spec => []Claims
<1>1. IndInv => Claims
  BY DEF IndInv
<1> QED
  BY Inductive, <1>1, PTL

-----------------------------------------------------------------------------
(* The figures *)

\* What it takes to be an injection.
LEMMA Injections ==
  ASSUME NEW S, NEW T, NEW f
  PROVE  f \in Injection(S, T)
           <=> f \in [S -> T] /\ \A a, b \in S : f[a] = f[b] => a = b
BY DEF Injection, IsInjective

\* And what a bijection gives.
LEMMA Bijections ==
  ASSUME NEW S, NEW T, NEW f \in Bijection(S, T)
  PROVE  /\ f \in [S -> T]
         /\ \A a, b \in S : f[a] = f[b] => a = b
         /\ \A c \in T : \E a \in S : f[a] = c
BY Injections DEF Bijection, Surjection

\* Where i stands in the order: the positions that are not after it.
UpTo(s, i) == {j \in DOMAIN s : s[j] < s[i] \/ (s[j] = s[i] /\ j <= i)}

\* The order of the positions is total, so their ranks are the positions again.
LEMMA Ranks ==
  ASSUME NEW n \in Nat, NEW s \in [1 .. n -> Nat]
  PROVE  /\ [i \in 1 .. n |-> Cardinality(UpTo(s, i))] \in Bijection(1 .. n, 1 .. n)
         /\ \A i, j \in 1 .. n :
              s[i] < s[j] => Cardinality(UpTo(s, i)) < Cardinality(UpTo(s, j))
<1> DEFINE D == 1 .. n
           rank == [i \in D |-> Cardinality(UpTo(s, i))]
<1>1. IsFiniteSet(D) /\ Cardinality(D) = n
  BY FS_Interval
<1>2. ASSUME NEW i \in D
      PROVE  IsFiniteSet(UpTo(s, i)) /\ Cardinality(UpTo(s, i)) \in D
  <2>1. UpTo(s, i) \subseteq D /\ i \in UpTo(s, i)
    BY DEF UpTo
  <2>2. /\ IsFiniteSet(UpTo(s, i))
        /\ Cardinality(UpTo(s, i)) \in Nat /\ Cardinality(UpTo(s, i)) <= n
    BY <1>1, <2>1, FS_Subset, FS_CardinalityType
  <2>3. Cardinality(UpTo(s, i)) # 0
    BY <2>1, <2>2, FS_EmptySet
  <2> QED
    BY <2>2, <2>3
<1>3. ASSUME NEW i \in D, NEW j \in D, s[i] < s[j] \/ (s[i] = s[j] /\ i < j)
      PROVE  Cardinality(UpTo(s, i)) < Cardinality(UpTo(s, j))
  <2>1. /\ \A k \in D : s[k] \in Nat
        /\ UpTo(s, i) = {k \in D : s[k] < s[i] \/ (s[k] = s[i] /\ k <= i)}
        /\ UpTo(s, j) = {k \in D : s[k] < s[j] \/ (s[k] = s[j] /\ k <= j)}
    BY DEF UpTo
  <2>2. UpTo(s, i) \subseteq UpTo(s, j)
    BY <1>3, <2>1
  <2>3. j \in UpTo(s, j) \ UpTo(s, i)
    BY <1>3, <2>1
  <2>4. /\ Cardinality(UpTo(s, i)) <= Cardinality(UpTo(s, j))
        /\ Cardinality(UpTo(s, i)) # Cardinality(UpTo(s, j))
    BY <1>2, <2>2, <2>3, FS_Subset
  <2> QED
    BY <1>2, <2>4
<1>4. rank \in Injection(D, D)
  <2>1. rank \in [D -> D]
    BY <1>2
  <2>2. ASSUME NEW i \in D, NEW j \in D, rank[i] = rank[j] PROVE i = j
    <3>1. Cardinality(UpTo(s, i)) = Cardinality(UpTo(s, j)) /\ Cardinality(UpTo(s, i)) \in Nat
      BY <1>2, <2>2
    <3>2. ~(s[i] < s[j] \/ (s[i] = s[j] /\ i < j))
      BY <1>3, <3>1
    <3>3. ~(s[j] < s[i] \/ (s[j] = s[i] /\ j < i))
      BY <1>3, <3>1
    <3>4. s[i] \in Nat /\ s[j] \in Nat /\ i \in Nat /\ j \in Nat
      OBVIOUS
    <3>5. s[i] = s[j]
      BY <3>2, <3>3, <3>4
    <3>6. ~(i < j) /\ ~(j < i)
      BY <3>2, <3>3, <3>5
    <3> QED
      BY <3>4, <3>6
  <2> HIDE DEF rank
  <2> QED
    BY <2>1, <2>2, Injections
<1>5. rank \in Surjection(D, D)
  BY <1>1, <1>4, FS_Injection
<1>6. rank \in Bijection(D, D)
  BY <1>4, <1>5 DEF Bijection
<1>7. ASSUME NEW i \in D, NEW j \in D, s[i] < s[j]
      PROVE  Cardinality(UpTo(s, i)) < Cardinality(UpTo(s, j))
  BY <1>3, <1>7
<1> QED
  BY <1>6, <1>7, Zenon

\* Sorting works: any slice has a rearrangement without descents, and Sorted is
\* one.
LEMMA SortedProperties ==
  ASSUME NEW n \in Nat, NEW s \in [1 .. n -> Nat]
  PROVE  /\ \E p \in Bijection(1 .. n, 1 .. n) : Sorted(s) = [i \in 1 .. n |-> s[p[i]]]
         /\ \A i, j \in 1 .. n : i < j => Sorted(s)[i] <= Sorted(s)[j]
<1> DEFINE D == 1 .. n
           rank == [i \in D |-> Cardinality(UpTo(s, i))]
           p == Inverse(rank, D, D)
           t == [i \in D |-> s[p[i]]]
           Sorting == {[i \in D |-> s[q[i]]] : q \in Bijection(D, D)}
<1>1. rank \in Bijection(D, D)
  BY Ranks
<1>2. p \in Bijection(D, D) /\ \A i \in D : p[rank[i]] = i
  BY <1>1, Fun_BijInverse, Zenon
<1>3. \A k \in D : p[k] \in D /\ rank[p[k]] = k
  <2>1. \A k \in D : \E i \in D : rank[i] = k
    BY <1>1 DEF Bijection, Surjection
  <2>2. \A k \in D : p[k] \in D
    BY <1>2, Injections DEF Bijection
  <2> HIDE DEF rank, p
  <2> QED
    BY <1>2, <2>1, <2>2
<1>4. ASSUME NEW i \in D, NEW j \in D, i < j PROVE t[i] <= t[j]
  <2>1. p[i] \in D /\ p[j] \in D /\ rank[p[i]] = i /\ rank[p[j]] = j
    BY <1>3
  <2>2. ASSUME s[p[j]] < s[p[i]] PROVE rank[p[j]] < rank[p[i]]
    <3>1. \A a, b \in D : s[a] < s[b] => rank[a] < rank[b]
      BY Ranks
    <3> HIDE DEF rank, p
    <3> QED
      BY <2>1, <2>2, <3>1
  <2>3. s[p[i]] \in Nat /\ s[p[j]] \in Nat /\ t[i] = s[p[i]] /\ t[j] = s[p[j]]
    BY <2>1
  <2> HIDE DEF rank, p, t
  <2> QED
    BY <1>4, <2>1, <2>2, <2>3
<1>5. t \in Sorting
  BY <1>2
<1>6. DOMAIN s = D
  OBVIOUS
<1>7. Sorted(s) = CHOOSE u \in Sorting : \A i, j \in D : i < j => u[i] <= u[j]
  BY <1>6 DEF Sorted
<1>8. Sorted(s) \in Sorting /\ \A i, j \in D : i < j => Sorted(s)[i] <= Sorted(s)[j]
  <2> HIDE DEF t, Sorting
  <2> QED
    BY <1>4, <1>5, <1>7
<1> QED
  BY <1>8

\* The k-th element of the sorted slice: at least k elements are no larger and
\* fewer than k are smaller.
LEMMA OrderStatistic ==
  ASSUME NEW n \in Nat, NEW s \in [1 .. n -> Nat], NEW k \in 1 .. n
  PROVE  /\ Cardinality({i \in 1 .. n : s[i] <= Sorted(s)[k]}) >= k
         /\ Cardinality({i \in 1 .. n : s[i] < Sorted(s)[k]}) < k
         /\ \E i \in 1 .. n : s[i] = Sorted(s)[k]
<1> DEFINE D == 1 .. n
           t == Sorted(s)
           AtMost == {i \in D : s[i] <= t[k]}
           Less == {i \in D : s[i] < t[k]}
<1>1. PICK p \in Bijection(D, D) : t = [i \in D |-> s[p[i]]]
  BY SortedProperties
<1>2. \A i, j \in D : i < j => t[i] <= t[j]
  BY SortedProperties
<1>3. /\ p \in [D -> D]
      /\ \A i, j \in D : p[i] = p[j] => i = j
      /\ \A j \in D : \E i \in D : p[i] = j
  <2> HIDE DEF D
  <2> QED
    BY Bijections
<1>4. \A i \in D : t[i] = s[p[i]] /\ t[i] \in Nat
  BY <1>1, <1>3
<1>5. IsFiniteSet(D) /\ IsFiniteSet(AtMost) /\ IsFiniteSet(Less)
  BY FS_Interval, FS_Subset
<1> HIDE DEF t
<1>6. Cardinality(AtMost) >= k
  <2> DEFINE f == [m \in 1 .. k |-> p[m]]
  <2>1. \A m \in 1 .. k : m \in D /\ t[m] <= t[k]
    BY <1>2, <1>4
  <2>2. \A m \in 1 .. k : p[m] \in AtMost
    BY <1>3, <1>4, <2>1
  <2>3. f \in Injection(1 .. k, AtMost)
    <3>1. f \in [1 .. k -> AtMost] /\ \A a, b \in 1 .. k : f[a] = f[b] => a = b
      BY <1>3, <2>1, <2>2
    <3> HIDE DEF f, AtMost
    <3> QED
      BY <3>1, Injections
  <2>4. Cardinality(1 .. k) = k
    BY FS_Interval
  <2>5. Cardinality(AtMost) \in Nat
    BY <1>5, FS_CardinalityType
  <2> QED
    BY <1>5, <2>3, <2>4, <2>5, FS_Injection
<1>7. Cardinality(Less) < k
  <2> DEFINE f == [i \in Less |-> CHOOSE m \in D : p[m] = i]
  <2>1. ASSUME NEW i \in Less PROVE f[i] \in 1 .. (k - 1) /\ p[f[i]] = i
    <3>1. f[i] \in D /\ p[f[i]] = i
      BY <1>3
    <3>2. t[f[i]] < t[k]
      BY <1>4, <3>1
    <3>3. ~(k < f[i]) /\ f[i] # k
      BY <1>2, <1>4, <3>1, <3>2
    <3> QED
      BY <3>1, <3>3
  <2>2. f \in Injection(Less, 1 .. (k - 1))
    <3>1. f \in [Less -> 1 .. (k - 1)] /\ \A a, b \in Less : f[a] = f[b] => a = b
      BY <2>1
    <3> HIDE DEF f, Less
    <3> QED
      BY <3>1, Injections
  <2>3. IsFiniteSet(1 .. (k - 1)) /\ Cardinality(1 .. (k - 1)) = k - 1
    BY FS_Interval
  <2>4. Cardinality(Less) \in Nat
    BY <1>5, FS_CardinalityType
  <2> HIDE DEF f
  <2> QED
    BY <2>2, <2>3, <2>4, FS_Injection
<1>8. \E i \in D : s[i] = t[k]
  BY <1>3, <1>4
<1> QED
  BY <1>6, <1>7, <1>8 DEF t

\* The rank percentile takes in the sorted slice is the right one for every
\* percentage and every length, one request included.
LEMMA PercentileRank ==
  ASSUME NEW n \in Nat \ {0}, NEW p \in Nat,
         NEW k, k = IF (p * n) \div 100 >= n THEN n ELSE (p * n) \div 100 + 1
  PROVE  /\ k \in 1 .. n
         /\ 100 * k > p * n \/ k = n
         /\ 100 * (k - 1) <= p * n
<1> DEFINE m == p * n
           q == m \div 100
<1>1. m \in Nat
  OBVIOUS
<1> HIDE DEF m
<1>2. q \in Nat /\ 100 * q <= m /\ m < 100 * (q + 1)
  BY <1>1
<1>3. k = IF q >= n THEN n ELSE q + 1
  BY DEF m
<1> HIDE DEF q
<1> QED
  BY <1>1, <1>2, <1>3 DEF m

\* The slice holds a time for each request, and sorting keeps its length.
LEMMA Measured ==
  ASSUME IndInv
  PROVE  /\ durations \in [1 .. total -> Nat]
         /\ Len(Sorted(durations)) = total
<1> DEFINE t == Sorted(durations)
<1>1. total \in Nat /\ Requests = 1 .. total /\ {0} \cup Durations \subseteq Nat
  BY Finite, LoadAssumption DEF IndInv, Requests
<1>2. durations \in [1 .. total -> {0} \cup Durations]
  BY <1>1 DEF IndInv, TypeOK
<1>3. durations \in [1 .. total -> Nat]
  BY <1>1, <1>2
<1>4. PICK q \in Bijection(1 .. total, 1 .. total) : t = [i \in 1 .. total |-> durations[q[i]]]
  BY <1>1, <1>3, SortedProperties
<1>5. q \in [1 .. total -> 1 .. total]
  BY Bijections
<1>6. t \in [1 .. total -> Nat]
  BY <1>3, <1>4, <1>5
<1> HIDE DEF t
<1>7. t \in Seq(Nat) /\ DOMAIN t = 1 .. total
  BY <1>1, <1>6, SeqDef
<1>8. Len(t) = total
  BY <1>1, <1>7, LenProperties
<1> QED
  BY <1>3, <1>8 DEF t

\* What percentile returns is a percentile of the durations the requests took.
LEMMA PercentileCorrect ==
  ASSUME IndInv, total >= 1, NEW p \in Nat
  PROVE  IsPercentile(Percentile(Sorted(durations), p), p)
<1> DEFINE t == Sorted(durations)
<1>1. total \in Nat \ {0} /\ Requests = 1 .. total
  BY Finite DEF IndInv, Requests
<1>2. durations \in [1 .. total -> Nat]
  BY Measured
<1>3. Len(t) = total
  BY Measured
<1> HIDE DEF t
<1> DEFINE k == IF (p * total) \div 100 >= total THEN total ELSE (p * total) \div 100 + 1
<1>4. Percentile(t, p) = t[k]
  BY <1>3 DEF Percentile
<1>5. /\ k \in 1 .. total
      /\ 100 * k > p * total \/ k = total
      /\ 100 * (k - 1) <= p * total
  BY <1>1, PercentileRank
<1> HIDE DEF k
<1>6. /\ Cardinality(TookAtMost(t[k])) >= k
      /\ Cardinality(TookLess(t[k])) < k
  BY <1>1, <1>2, <1>5, OrderStatistic DEF t, TookAtMost, TookLess
<1>7. /\ Cardinality(TookAtMost(t[k])) \in 0 .. total
      /\ Cardinality(TookLess(t[k])) \in 0 .. total
  BY Finite DEF IndInv, TookAtMost, TookLess
<1>8. p * total \in Nat
  BY <1>1
<1> QED
  BY <1>1, <1>4, <1>5, <1>6, <1>7, <1>8 DEF IsPercentile, t

\* The last element of the sorted slice is the longest request.
LEMMA LongestCorrect ==
  ASSUME IndInv, total >= 1
  PROVE  LET max == Sorted(durations)[Len(Sorted(durations))] IN
         TookAtMost(max) = Requests /\ \E i \in Requests : durations[i] = max
<1> DEFINE max == Sorted(durations)[total]
<1>1. total \in Nat \ {0} /\ Requests = 1 .. total
  BY Finite DEF IndInv, Requests
<1>2. durations \in [1 .. total -> Nat] /\ Len(Sorted(durations)) = total
  BY Measured
<1>3. /\ Cardinality({i \in 1 .. total : durations[i] <= max}) >= total
      /\ \E i \in 1 .. total : durations[i] = max
  <2>1. total \in Nat /\ total \in 1 .. total
    BY <1>1
  <2> QED
    BY <1>2, <2>1, OrderStatistic
<1> HIDE DEF max
<1>4. /\ TookAtMost(max) = {i \in 1 .. total : durations[i] <= max}
      /\ TookAtMost(max) \in SUBSET Requests
  BY <1>1 DEF TookAtMost
<1>5. /\ IsFiniteSet(Requests) /\ Cardinality(Requests) = total
      /\ Cardinality(TookAtMost(max)) \in 0 .. total
  <2>1. IsFiniteSet(Requests) /\ Cardinality(Requests) = total
    BY <1>1, FS_Interval
  <2>2. \A S \in SUBSET Requests : Cardinality(S) \in 0 .. total
    BY Finite DEF IndInv
  <2> QED
    BY <1>4, <2>1, <2>2
<1>6. TookAtMost(max) = Requests
  BY <1>1, <1>3, <1>4, <1>5, FS_Subset
<1> QED
  BY <1>1, <1>2, <1>3, <1>6 DEF max

\* What run reports is about exactly the requests it made (main.go:134-145):
\* each was measured, the errors are the requests that failed, and the figures
\* are the percentiles and the longest of the measured durations, for any
\* number of workers and requests: wg.Wait is all the synchronisation the
\* slice needs.
THEOREM ReportIsExact == Spec => []ReportExact
<1>1. IndInv => ReportExact
  <2> SUFFICES ASSUME IndInv, pc = "reported" PROVE ReportExact
    BY DEF ReportExact
  <2>1. \A w \in Workers : at[w] \in {"idle", "done"}
    BY DEF IndInv, Order
  <2>2. index > total /\ total >= 1
    BY DEF IndInv, Order, TypeOK
  <2>3. total \in Nat /\ index \in Nat
    BY Finite DEF IndInv
  <2>4. \A i \in Requests : durations[i] # 0
    BY <2>1, <2>2, <2>3 DEF IndInv, Ledger, Requests
  <2>5. failures \ {claim[w] : w \in {v \in Workers : at[v] = "counting"}} = failures
    BY <2>1
  <2>6. /\ report.errors = errors
        /\ report.p50 = Percentile(Sorted(durations), 50)
        /\ report.p90 = Percentile(Sorted(durations), 90)
        /\ report.p99 = Percentile(Sorted(durations), 99)
        /\ report.max = Sorted(durations)[Len(Sorted(durations))]
    BY DEF IndInv, Order, Report
  <2>7. report.errors = Cardinality(failures)
    BY <2>5, <2>6 DEF IndInv, Claims
  <2>8. \A i \in Requests : durations[i] \in Durations
    BY <2>4 DEF IndInv, TypeOK
  <2>9. /\ IsPercentile(report.p50, 50) /\ IsPercentile(report.p90, 90)
        /\ IsPercentile(report.p99, 99)
    BY <2>2, <2>6, PercentileCorrect
  <2>10. TookAtMost(report.max) = Requests /\ \E i \in Requests : durations[i] = report.max
    BY <2>2, <2>6, LongestCorrect
  <2> QED
    BY <2>7, <2>8, <2>9, <2>10 DEF ReportExact
<1> QED
  BY Inductive, <1>1, PTL
=============================================================================
