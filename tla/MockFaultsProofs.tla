-------------------------- MODULE MockFaultsProofs --------------------------
(***************************************************************************)
(* Theorems about MockFaults, for any requests, paths, posted faults and   *)
(* bound.                                                                  *)
(***************************************************************************)
EXTENDS MockFaults, FiniteSetTheorems, TLAPS

LEMMA NormalType ==
  ASSUME NEW post \in Posts, Valid(post)
  PROVE  Normal(post) \in Fault
<1>1. /\ post.path \in Keys \cup {Omitted} /\ post.status \in Int
      /\ post.delay \in Int /\ post.remaining \in Int
  <2>1. post \in [path : Keys \cup {Omitted}, status : Int,
                  delay : Int, remaining : Int]
    BY PostAssumption
  <2> QED
    BY <2>1
<1>2. post.status \in Nat /\ post.delay \in Nat /\ (post.status # 0 \/ post.delay # 0)
  BY <1>1 DEF Valid
<1>3. Normal(post) \in [key : Keys, status : Nat, delay : Nat, times : Nat \ {0}]
  BY <1>1, <1>2 DEF Normal, Keys
<1> QED
  BY <1>2, <1>3 DEF Fault, Normal

-----------------------------------------------------------------------------
(* Queues as sequences of numbers *)

Members(s) == { s[i] : i \in 1 .. Len(s) }
Increasing(s) == \A i, j \in 1 .. Len(s) : i < j => s[i] < s[j]

LEMMA AppendQueue ==
  ASSUME NEW s \in Seq(Nat), NEW e \in Nat
  PROVE  /\ Members(Append(s, e)) = Members(s) \cup {e}
         /\ Increasing(s) /\ (\A f \in Members(s) : f < e) => Increasing(Append(s, e))
<1> DEFINE t == Append(s, e)
<1>1. /\ Len(s) \in Nat /\ Len(t) = Len(s) + 1
      /\ \A i \in 1 .. Len(s) : t[i] = s[i]
      /\ t[Len(s) + 1] = e
  OBVIOUS
<1>2. 1 .. Len(t) = (1 .. Len(s)) \cup {Len(s) + 1}
  BY <1>1
<1> HIDE DEF t
<1>3. Members(t) = Members(s) \cup {e}
  BY <1>1, <1>2 DEF Members
<1>4. ASSUME Increasing(s), \A f \in Members(s) : f < e
      PROVE  Increasing(t)
  <2>1. \A i \in 1 .. Len(s) : s[i] < e
    BY <1>4 DEF Members
  <2> QED
    BY <1>1, <1>2, <1>4, <2>1 DEF Increasing
<1> QED
  BY <1>3, <1>4 DEF t

LEMMA TailQueue ==
  ASSUME NEW s \in Seq(Nat), s # <<>>, Increasing(s)
  PROVE  /\ Members(Tail(s)) = Members(s) \ {s[1]}
         /\ Increasing(Tail(s))
<1> DEFINE t == Tail(s)
<1>1. /\ Len(s) \in Nat \ {0} /\ Len(t) = Len(s) - 1
      /\ \A i \in 1 .. Len(t) : t[i] = s[i + 1]
      /\ \A i \in 1 .. Len(s) : s[i] \in Nat
  OBVIOUS
<1> HIDE DEF t
<1>2. \A i \in 2 .. Len(s) : s[i] = t[i - 1] /\ i - 1 \in 1 .. Len(t) /\ s[1] < s[i]
  BY <1>1 DEF Increasing
<1>3. Members(t) \subseteq Members(s) \ {s[1]}
  BY <1>1, <1>2 DEF Members
<1>4. Members(s) \ {s[1]} \subseteq Members(t)
  <2> SUFFICES ASSUME NEW i \in 1 .. Len(s), s[i] # s[1]
               PROVE  s[i] \in Members(t)
    BY DEF Members
  <2>1. i \in 2 .. Len(s)
    BY <1>1
  <2> QED
    BY <1>2, <2>1 DEF Members
<1>5. Increasing(t)
  <2> SUFFICES ASSUME NEW i \in 1 .. Len(t), NEW j \in 1 .. Len(t), i < j
               PROVE  t[i] < t[j]
    BY DEF Increasing
  <2>1. /\ i + 1 \in 1 .. Len(s) /\ j + 1 \in 1 .. Len(s) /\ i + 1 < j + 1
        /\ t[i] = s[i + 1] /\ t[j] = s[j + 1]
    BY <1>1
  <2> QED
    BY <2>1 DEF Increasing
<1> QED
  BY <1>3, <1>4, <1>5 DEF t

-----------------------------------------------------------------------------
(* Type correctness *)

LEMMA TypeInit == Init => TypeOK
  BY PathAssumption DEF Init, TypeOK, Stages, Keys

LEMMA AddType ==
  ASSUME TypeOK, NEW post \in Posts, AddFault(post)
  PROVE  TypeOK' /\ Len(added') = Len(added) + 1
<1> USE DEF TypeOK, AddFault, Enqueue
<1>1. Normal(post) \in Fault /\ Normal(post).key \in Keys /\ Normal(post).times \in Nat
  BY NormalType DEF Fault
<1>2. added' \in Seq(Fault) /\ Len(added') = Len(added) + 1
  BY <1>1
<1>3. 0 .. Len(added) \subseteq 0 .. Len(added')
  BY <1>2
<1>4. remaining' \in Seq(Nat) /\ queues' \in [Keys -> Seq(Nat)]
  BY <1>1
<1> QED
  BY <1>2, <1>3, <1>4

LEMMA TakeType ==
  ASSUME TypeOK, NEW r \in Requests, NEW k \in Keys, queues[k] # <<>>,
         TakeFrom(r, k), Head(queues[k]) \in 1 .. Len(added),
         Len(remaining) = Len(added), remaining[Head(queues[k])] # 0,
         UNCHANGED <<added, cleared, path, gone>>
  PROVE  TypeOK'
<1> USE DEF TypeOK
<1> DEFINE f == Head(queues[k])
<1>1. remaining[f] - 1 \in Nat
  OBVIOUS
<1>2. remaining' \in Seq(Nat)
  BY <1>1 DEF TakeFrom
<1>3. queues' \in [Keys -> Seq(Nat)]
  BY DEF TakeFrom
<1>4. taken' \in [Requests -> 0 .. Len(added)]
  BY DEF TakeFrom
<1>5. stage' \in [Requests -> Stages]
  BY DEF TakeFrom, Goto, Stages
<1> QED
  BY <1>2, <1>3, <1>4, <1>5

-----------------------------------------------------------------------------
(* What the queues know about the history *)

LEMMA HitsFinite ==
  ASSUME NEW f
  PROVE  IsFiniteSet(Hits(f)) /\ Cardinality(Hits(f)) \in Nat
<1>1. Hits(f) \in SUBSET Requests
  BY DEF Hits
<1>2. IsFiniteSet(Hits(f))
  BY <1>1, RequestAssumption, FS_Subset
<1> QED
  BY <1>2, FS_CardinalityType

\* A queued fault is one still pending for the queue's key.
LEMMA QueuedPending ==
  ASSUME IndInv, NEW k \in Keys, NEW i \in 1 .. Len(queues[k])
  PROVE  /\ queues[k][i] \in Pending(k)
         /\ queues[k][i] \in 1 .. Len(added)
         /\ added[queues[k][i]].key = k
         /\ remaining[queues[k][i]] # 0
<1>1. queues[k][i] \in Pending(k)
  BY DEF IndInv, QueueInv, QueuesComplete
<1>2. queues[k][i] \in 1 .. Len(added) /\ added[queues[k][i]].key = k
  BY <1>1 DEF Pending, IndInv, TypeOK
<1>3. /\ added[queues[k][i]].times \in Nat
      /\ Cardinality(Hits(queues[k][i])) < added[queues[k][i]].times
  <2>1. added[queues[k][i]] \in Fault
    BY <1>2 DEF IndInv, TypeOK
  <2> QED
    BY <1>1, <2>1 DEF Pending, Fault
<1>4. Cardinality(Hits(queues[k][i])) \in Nat
  BY HitsFinite
<1> QED
  BY <1>1, <1>2, <1>3, <1>4 DEF IndInv, QueueInv, QueuesCount

\* The head of a queue is the oldest fault pending for its key.
LEMMA HeadIsOldest ==
  ASSUME IndInv, NEW k \in Keys, queues[k] # <<>>
  PROVE  /\ Pending(k) # {}
         /\ Head(queues[k]) = Oldest(Pending(k))
         /\ Head(queues[k]) = queues[k][1]
         /\ 1 \in 1 .. Len(queues[k])
<1>1. queues[k] \in Seq(Nat) /\ 1 \in 1 .. Len(queues[k]) /\ Head(queues[k]) = queues[k][1]
  BY DEF IndInv, TypeOK
<1>2. queues[k][1] \in Pending(k)
  BY <1>1, QueuedPending
<1>3. \A g \in Pending(k) : g \in Nat /\ queues[k][1] <= g
  <2> TAKE g \in Pending(k)
  <2>1. PICK i \in 1 .. Len(queues[k]) : g = queues[k][i]
    BY DEF IndInv, QueueInv, QueuesComplete
  <2>2. i = 1 \/ queues[k][1] < queues[k][i]
    BY <1>1 DEF IndInv, QueueInv, QueuesInOrder
  <2> QED
    BY <1>1, <2>1, <2>2
<1>4. Oldest(Pending(k)) \in Pending(k) /\ \A g \in Pending(k) : Oldest(Pending(k)) <= g
  BY <1>2, <1>3 DEF Oldest
<1>5. Oldest(Pending(k)) = queues[k][1]
  BY <1>2, <1>3, <1>4
<1> QED
  BY <1>1, <1>2, <1>5

LEMMA EmptyQueue ==
  ASSUME IndInv, NEW k \in Keys, queues[k] = <<>>
  PROVE  Pending(k) = {}
  BY DEF IndInv, QueueInv, QueuesComplete

-----------------------------------------------------------------------------
(* The invariant *)

LEMMA InvInit == Init => IndInv
<1> SUFFICES ASSUME Init PROVE IndInv
  OBVIOUS
<1>1. TypeOK
  BY TypeInit
<1>2. \A k \in Keys : Pending(k) = {}
  BY DEF Init, Pending
<1>3. QueueInv
  BY <1>2 DEF Init, QueueInv, QueuesInOrder, QueuesComplete, QueuesCount, HitsFit
<1> QED
  BY <1>1, <1>3 DEF IndInv

LEMMA AddInv ==
  ASSUME IndInv, NEW post \in Posts, AddFault(post)
  PROVE  IndInv'
<1> DEFINE fault == Normal(post)
<1>0. /\ added \in Seq(Fault) /\ cleared \in 0 .. Len(added)
      /\ taken \in [Requests -> 0 .. Len(added)]
      /\ queues \in [Keys -> Seq(Nat)] /\ remaining \in Seq(Nat)
  BY DEF IndInv, TypeOK
<1> PICK new \in Nat : new = Len(added) + 1
  BY <1>0
<1>1. TypeOK' /\ Len(added') = new
  BY AddType DEF IndInv
<1>2. /\ fault.key \in Keys /\ fault.times \in Nat \ {0}
      /\ added' = Append(added, fault)
      /\ remaining' = Append(remaining, fault.times)
      /\ cleared' = cleared /\ taken' = taken
      /\ path' = path /\ stage' = stage
  BY NormalType DEF Fault, AddFault, Enqueue
<1>3. /\ \A f \in 1 .. Len(added) : added'[f] = added[f]
      /\ added'[new] = fault
  BY <1>0, <1>2
<1>4. \A f : Hits(f)' = Hits(f)
  BY <1>2 DEF Hits
<1>5. Cardinality(Hits(new)) = 0
  <2>1. Hits(new) = {}
    BY <1>0 DEF Hits
  <2> QED
    BY <2>1, FS_EmptySet
<1>6. \A k \in Keys : Pending(k)' = Pending(k) \cup {f \in {new} : k = fault.key}
  <2> TAKE k \in Keys
  <2>1. cleared + 1 .. new = (cleared + 1 .. Len(added)) \cup {new}
    BY <1>0
  <2>3. \A f \in cleared + 1 .. Len(added) : f \in Pending(k)' <=> f \in Pending(k)
    BY <1>0, <1>1, <1>2, <1>3, <1>4 DEF Pending
  <2>4. new \in Pending(k)' <=> k = fault.key
    <3>1. new \in cleared' + 1 .. Len(added')
      BY <1>0, <1>1, <1>2
    <3>2. Cardinality(Hits(new)') < added'[new].times
      BY <1>2, <1>3, <1>4, <1>5
    <3> QED
      BY <1>3, <3>1, <3>2 DEF Pending
  <2> QED
    BY <1>1, <1>2, <2>1, <2>3, <2>4 DEF Pending
<1>7. \A k \in Keys : \A i \in 1 .. Len(queues[k]) : queues[k][i] \in 1 .. Len(added)
  BY QueuedPending
<1>8. \A k \in Keys : queues'[k] = IF k = fault.key THEN Append(queues[k], new) ELSE queues[k]
  BY <1>0, <1>2 DEF AddFault, Enqueue
<1>9. ASSUME NEW k \in Keys
      PROVE  Increasing(queues'[k]) /\ Members(queues'[k]) = Pending(k)'
  <2>1. Increasing(queues[k]) /\ Members(queues[k]) = Pending(k)
    BY DEF IndInv, QueueInv, QueuesInOrder, QueuesComplete, Increasing, Members
  <2>2. \A f \in Members(queues[k]) : f < new
    BY <1>0, <1>7 DEF Members
  <2>3. CASE k = fault.key
    <3>1. queues'[k] = Append(queues[k], new) /\ queues[k] \in Seq(Nat)
      BY <1>0, <1>8, <2>3
    <3>2. /\ Members(queues'[k]) = Members(queues[k]) \cup {new}
          /\ Increasing(queues'[k])
      BY <2>1, <2>2, <3>1, AppendQueue
    <3> QED
      BY <1>6, <2>1, <2>3, <3>2
  <2>4. CASE k # fault.key
    BY <1>6, <1>8, <2>1, <2>4
  <2> QED
    BY <2>3, <2>4
<1>10. QueuesInOrder'
  BY <1>9 DEF QueuesInOrder, Increasing
<1>11. QueuesComplete'
  BY <1>9 DEF QueuesComplete, Members
<1>12. QueuesCount'
  <2>1. /\ Len(remaining) = Len(added)
        /\ \A f \in 1 .. Len(added) :
             remaining[f] = added[f].times - Cardinality(Hits(f))
    BY DEF IndInv, QueueInv, QueuesCount
  <2>2. /\ Len(remaining') = Len(added') /\ remaining'[new] = fault.times
        /\ \A f \in 1 .. Len(added) : remaining'[f] = remaining[f]
    BY <1>0, <1>1, <1>2, <2>1
  <2>3. ASSUME NEW f \in 1 .. Len(added')
        PROVE  remaining'[f] = added'[f].times - Cardinality(Hits(f)')
    <3>1. CASE f = new
      BY <1>2, <1>3, <1>4, <1>5, <2>2, <3>1
    <3>2. CASE f # new
      <4>1. f \in 1 .. Len(added)
        BY <1>0, <1>1, <3>2
      <4> QED
        BY <4>1, <1>0, <1>1, <1>3, <1>4, <2>1, <2>2, <3>2
    <3> QED
      BY <3>1, <3>2
  <2> QED
    BY <2>2, <2>3 DEF QueuesCount
<1>13. HitsFit'
  <2>1. \A r \in Requests : taken[r] # 0 => added'[taken[r]] = added[taken[r]]
    BY <1>0, <1>3
  <2> QED
    BY <1>2, <2>1 DEF IndInv, QueueInv, HitsFit
<1> QED
  BY <1>1, <1>10, <1>11, <1>12, <1>13 DEF IndInv, QueueInv

LEMMA ResetInv ==
  ASSUME IndInv, ResetFaults
  PROVE  IndInv'
<1> USE DEF IndInv, ResetFaults
<1>1. TypeOK'
  BY DEF TypeOK
<1>2. \A k \in Keys : Pending(k)' = {}
  BY DEF Pending, TypeOK
<1>3. QueuesInOrder' /\ QueuesComplete'
  BY <1>2 DEF QueuesInOrder, QueuesComplete
<1>4. QueuesCount' /\ HitsFit'
  BY DEF QueueInv, QueuesCount, HitsFit, Hits
<1> QED
  BY <1>1, <1>3, <1>4 DEF QueueInv

\* Counting one request more takes one from what is left.
LEMMA OneFewer ==
  ASSUME NEW left \in Int, NEW times \in Int, NEW hits \in Int, left = times - hits
  PROVE  left - 1 = times - (hits + 1)
OBVIOUS

LEMMA TakeFromInv ==
  ASSUME IndInv, NEW r \in Requests, NEW k \in {path[r], MatchAll} \cap Keys,
         stage[r] = "arrived", path[r] \notin Unfaulted, queues[k] # <<>>,
         TakeFrom(r, k), UNCHANGED <<added, cleared, path, gone>>
  PROVE  IndInv'
<1>0. /\ added \in Seq(Fault) /\ Len(added) \in Nat /\ cleared \in 0 .. Len(added)
      /\ taken \in [Requests -> 0 .. Len(added)]
      /\ stage \in [Requests -> Stages]
      /\ queues \in [Keys -> Seq(Nat)] /\ remaining \in Seq(Nat)
      /\ Len(remaining) = Len(added)
  BY DEF IndInv, TypeOK, QueueInv, QueuesCount
<1> PICK f \in Nat : f = Head(queues[k])
  BY HeadIsOldest, <1>0
<1>1. /\ f = queues[k][1]
      /\ f \in Pending(k) /\ f \in 1 .. Len(added)
      /\ added[f].key = k /\ remaining[f] # 0
  BY HeadIsOldest, QueuedPending
<1>2. /\ taken' = [taken EXCEPT ![r] = f]
      /\ remaining' = [remaining EXCEPT ![f] = @ - 1]
      /\ queues' = IF remaining[f] - 1 <= 0
                   THEN [queues EXCEPT ![k] = Tail(@)] ELSE queues
      /\ stage' = [stage EXCEPT ![r] = "delaying"]
  BY DEF TakeFrom, Goto
<1>3. TypeOK'
  BY <1>0, <1>1, TakeType DEF IndInv
<1>4. taken[r] = 0
  BY DEF IndInv, QueueInv, HitsFit
<1>5. /\ Cardinality(Hits(f)') = Cardinality(Hits(f)) + 1
      /\ \A g \in 1 .. Len(added) : g # f => Hits(g)' = Hits(g)
      /\ \A g : Cardinality(Hits(g)) \in Nat
  <2>1. r \notin Hits(f) /\ Hits(f)' = Hits(f) \cup {r}
    BY <1>0, <1>1, <1>2, <1>4 DEF Hits
  <2>2. \A g \in 1 .. Len(added) : g # f => Hits(g)' = Hits(g)
    BY <1>0, <1>2, <1>4 DEF Hits
  <2>3. Cardinality(Hits(f) \cup {r}) = Cardinality(Hits(f)) + 1
    BY <2>1, HitsFinite, FS_AddElement
  <2> QED
    BY <2>1, <2>2, <2>3, HitsFinite
<1>6. added[f] \in Fault /\ added[f].times \in Nat
      /\ remaining[f] = added[f].times - Cardinality(Hits(f))
  <2>1. added[f] \in Fault
    BY <1>0, <1>1
  <2> QED
    BY <1>1, <2>1 DEF Fault, IndInv, QueueInv, QueuesCount
<1>7. ASSUME NEW j \in Keys
      PROVE  Pending(j)' = IF remaining[f] - 1 <= 0 THEN Pending(j) \ {f} ELSE Pending(j)
  <2>1. Pending(j)' \subseteq cleared + 1 .. Len(added) /\ Pending(j) \subseteq cleared + 1 .. Len(added)
    BY DEF Pending
  <2>2. ASSUME NEW g \in cleared + 1 .. Len(added), g # f
        PROVE  g \in Pending(j)' <=> g \in Pending(j)
    <3>1. g \in 1 .. Len(added)
      BY <1>0
    <3>2. Hits(g)' = Hits(g)
      BY <1>5, <2>2, <3>1
    <3> QED
      BY <3>2 DEF Pending
  <2>3. f \in Pending(j)' <=> (f \in Pending(j) /\ ~(remaining[f] - 1 <= 0))
    <3>1. f \in cleared + 1 .. Len(added)
      BY <1>1 DEF Pending
    <3>2. Cardinality(Hits(f)) + 1 < added[f].times <=> ~(remaining[f] - 1 <= 0)
      BY <1>5, <1>6
    <3>3. Cardinality(Hits(f)) < added[f].times
      BY <1>1 DEF Pending
    <3>4. f \in Pending(j)' <=> (added[f].key = j /\ Cardinality(Hits(f)) + 1 < added[f].times)
      BY <1>5, <3>1 DEF Pending
    <3>5. f \in Pending(j) <=> added[f].key = j
      BY <3>1, <3>3 DEF Pending
    <3> QED
      BY <3>2, <3>4, <3>5
  <2>4. \A g : g \in Pending(j)' <=> (g \in Pending(j) /\ ~(g = f /\ remaining[f] - 1 <= 0))
    BY <2>1, <2>2, <2>3
  <2>5. CASE remaining[f] - 1 <= 0
    BY <2>4, <2>5
  <2>6. CASE ~(remaining[f] - 1 <= 0)
    BY <2>4, <2>6
  <2> QED
    BY <2>5, <2>6
<1>8. ASSUME NEW j \in Keys
      PROVE  Increasing(queues'[j]) /\ Members(queues'[j]) = Pending(j)'
  <2>1. Increasing(queues[j]) /\ Members(queues[j]) = Pending(j)
    BY DEF IndInv, QueueInv, QueuesInOrder, QueuesComplete, Increasing, Members
  <2>2. CASE remaining[f] - 1 <= 0 /\ j = k
    <3>1. queues'[j] = Tail(queues[j]) /\ queues[j] \in Seq(Nat) /\ queues[j] # <<>>
          /\ queues[j][1] = f
      BY <1>0, <1>1, <1>2, <2>2
    <3>2. /\ Members(queues'[j]) = Members(queues[j]) \ {f}
          /\ Increasing(queues'[j])
      BY <2>1, <3>1, TailQueue
    <3> QED
      BY <1>7, <2>1, <2>2, <3>2
  <2>3. CASE remaining[f] - 1 <= 0 /\ j # k
    <3>1. queues'[j] = queues[j]
      BY <1>0, <1>2, <2>3
    <3>2. f \notin Pending(j)
      BY <1>1, <2>3 DEF Pending
    <3> QED
      BY <1>7, <2>1, <2>3, <3>1, <3>2
  <2>4. CASE ~(remaining[f] - 1 <= 0)
    BY <1>2, <1>7, <2>1, <2>4
  <2> QED
    BY <2>2, <2>3, <2>4
<1>9. QueuesInOrder' /\ QueuesComplete'
  BY <1>8 DEF QueuesInOrder, QueuesComplete, Increasing, Members
<1>10. QueuesCount'
  <2>1. Len(remaining') = Len(added)
    BY <1>0, <1>2
  <2>2. ASSUME NEW g \in 1 .. Len(added)
        PROVE  remaining'[g] = added[g].times - Cardinality(Hits(g)')
    <3>1. remaining[g] = added[g].times - Cardinality(Hits(g))
      BY DEF IndInv, QueueInv, QueuesCount
    <3>2. CASE g = f
      <4>1. remaining'[f] = remaining[f] - 1
        BY <1>0, <1>1, <1>2
      <4>2. remaining[f] - 1 = added[f].times - (Cardinality(Hits(f)) + 1)
        <5>1. Cardinality(Hits(f)) \in Int /\ added[f].times \in Int
          BY <1>5, <1>6
        <5>2. remaining[f] \in Int /\ remaining[f] = added[f].times - Cardinality(Hits(f))
          BY <1>6, <5>1
        <5> QED
          BY <5>1, <5>2, OneFewer
      <4>3. Cardinality(Hits(f)') = Cardinality(Hits(f)) + 1
        BY <1>5
      <4>4. remaining'[f] = added[f].times - Cardinality(Hits(f)')
        BY <4>1, <4>2, <4>3
      <4> QED
        BY <3>2, <4>4
    <3>3. CASE g # f
      <4>1. remaining'[g] = remaining[g] /\ Hits(g)' = Hits(g)
        BY <1>0, <1>2, <1>5, <3>3
      <4> QED
        BY <3>1, <4>1
    <3> QED
      BY <3>2, <3>3
  <2> QED
    BY <2>1, <2>2 DEF QueuesCount
<1>11. HitsFit'
  <2>1. f # 0 /\ f \in Nat
    BY <1>1
  <2> QED
    BY <1>0, <1>1, <1>2, <2>1 DEF IndInv, QueueInv, HitsFit
<1> QED
  BY <1>3, <1>9, <1>10, <1>11 DEF IndInv, QueueInv

\* A step of a request that takes no fault leaves the queues alone.
LEMMA QuietInv ==
  ASSUME IndInv, TypeOK', HitsFit', UNCHANGED <<added, cleared, taken, queues, remaining>>
  PROVE  IndInv'
<1>1. \A f : Hits(f)' = Hits(f)
  BY DEF Hits
<1>2. \A k \in Keys : Pending(k)' = Pending(k)
  BY <1>1 DEF Pending
<1> QED
  BY <1>1, <1>2 DEF IndInv, QueueInv, QueuesInOrder, QueuesComplete, QueuesCount

LEMMA HandleInv ==
  ASSUME IndInv, NEW r \in Requests, Handle(r)
  PROVE  IndInv'
<1> USE DEF Goto
<1>1. TypeOK /\ HitsFit
  BY DEF IndInv, QueueInv
<1>2. CASE Arrive(r)
  <2>1. TypeOK' /\ HitsFit'
    BY <1>1, <1>2 DEF Arrive, TypeOK, HitsFit, Keys, Stages
  <2> QED
    BY <1>2, <2>1, QuietInv DEF Arrive
<1>3. CASE Bypass(r)
  <2>1. TypeOK' /\ HitsFit'
    BY <1>1, <1>3 DEF Bypass, TypeOK, HitsFit, Stages
  <2> QED
    BY <1>3, <2>1, QuietInv DEF Bypass
<1>4. CASE Take(r)
  <2>1. path[r] \in Paths
    BY <1>1, <1>4 DEF Take, HitsFit
  <2>2. CASE queues[path[r]] # <<>> /\ TakeFrom(r, path[r])
    BY <1>4, <2>1, <2>2, TakeFromInv DEF Take, Keys
  <2>3. CASE queues[MatchAll] # <<>> /\ TakeFrom(r, MatchAll)
    BY <1>4, <2>3, TakeFromInv DEF Take, Keys
  <2>4. CASE stage' = [stage EXCEPT ![r] = "serving"] /\ UNCHANGED <<taken, queues, remaining>>
    <3>1. TypeOK' /\ HitsFit'
      BY <1>1, <1>4, <2>4 DEF Take, TypeOK, HitsFit, Stages
    <3> QED
      BY <1>4, <2>4, <3>1, QuietInv DEF Take
  <2> QED
    BY <1>4, <2>2, <2>3, <2>4 DEF Take
<1>5. CASE Wait(r)
  <2>1. TypeOK' /\ HitsFit'
    BY <1>1, <1>5 DEF Wait, TypeOK, HitsFit, Stages, Outcomes
  <2> QED
    BY <1>5, <2>1, QuietInv DEF Wait
<1>6. CASE Reply(r)
  <2>1. TypeOK' /\ HitsFit'
    BY <1>1, <1>6 DEF Reply, TypeOK, HitsFit, Stages, Outcomes
  <2> QED
    BY <1>6, <2>1, QuietInv DEF Reply
<1>7. CASE Serve(r)
  <2>1. TypeOK' /\ HitsFit'
    BY <1>1, <1>7 DEF Serve, TypeOK, HitsFit, Stages, Outcomes
  <2> QED
    BY <1>7, <2>1, QuietInv DEF Serve
<1>8. CASE GiveUp(r)
  <2>1. TypeOK' /\ HitsFit'
    BY <1>1, <1>8 DEF GiveUp, TypeOK, HitsFit
  <2> QED
    BY <1>8, <2>1, QuietInv DEF GiveUp
<1> QED
  BY <1>2, <1>3, <1>4, <1>5, <1>6, <1>7, <1>8 DEF Handle

LEMMA InvStep == IndInv /\ [Next]_vars => IndInv'
<1> SUFFICES ASSUME IndInv, [Next]_vars
             PROVE  IndInv'
  OBVIOUS
<1>1. ASSUME NEW post \in Posts, AddFault(post)
      PROVE  IndInv'
  BY <1>1, AddInv
<1>2. CASE ResetFaults
  BY <1>2, ResetInv
<1>3. ASSUME NEW r \in Requests, Handle(r)
      PROVE  IndInv'
  BY <1>3, HandleInv
<1>4. CASE UNCHANGED vars
  <2>1. TypeOK' /\ HitsFit'
    BY <1>4 DEF vars, faultVars, IndInv, QueueInv, TypeOK, HitsFit
  <2> QED
    BY <1>4, <2>1, QuietInv DEF vars, faultVars
<1> QED
  BY <1>1, <1>2, <1>3, <1>4 DEF Next

THEOREM Inductive == Spec => []IndInv
  BY InvInit, InvStep, PTL DEF Spec

\* Every variable of the mock keeps its type, for any bodies posted.
THEOREM TypeCorrect == Spec => []TypeOK
<1>1. IndInv => TypeOK
  BY DEF IndInv
<1> QED
  BY <1>1, Inductive, PTL

\* The queues of injected faults always hold exactly the pending faults, in
\* order, and count down exactly the requests each has left
\* (mockhttp.go:96-117).
THEOREM QueuesRight == Spec => []QueueInv
<1>1. IndInv => QueueInv
  BY DEF IndInv
<1> QED
  BY <1>1, Inductive, PTL

-----------------------------------------------------------------------------
(* MockFaults implements FaultPlan *)

\* The stage of each request as FaultPlan sees it.
Judged == [r \in Requests |->
             IF stage[r] \in {"delaying", "waited", "serving"}
             THEN "judged" ELSE stage[r]]

LEMMA SameCardinality == \A S : Plan!Cardinality(S) = Cardinality(S)
  BY DEF Plan!Cardinality, Cardinality

LEMMA SamePending == \A k : Plan!Pending(k) = Pending(k)
<1> TAKE k
<1>2. ASSUME NEW f \in cleared + 1 .. Len(added)
      PROVE  f \in Plan!Pending(k) <=> f \in Pending(k)
  <2>1. Plan!Hits(f) = Hits(f)
    BY DEF Plan!Hits, Hits
  <2> QED
    BY <2>1, SameCardinality DEF Plan!Pending, Pending
<1>3. /\ Plan!Pending(k) \subseteq cleared + 1 .. Len(added)
      /\ Pending(k) \subseteq cleared + 1 .. Len(added)
  BY DEF Plan!Pending, Pending
<1> QED
  BY <1>2, <1>3

LEMMA SameOldest == \A F : Plan!Oldest(F) = Oldest(F)
  BY DEF Plan!Oldest, Oldest

LEMMA SameFault == Plan!Fault = Fault
  BY DEF Plan!Fault, Fault, Plan!Keys, Keys

\* A request that moves to another stage moves alone.
LEMMA JudgedMoves ==
  ASSUME TypeOK, NEW r \in Requests, NEW to \in Stages, Goto(r, to)
  PROVE  Judged' = [Judged EXCEPT ![r] =
           IF to \in {"delaying", "waited", "serving"} THEN "judged" ELSE to]
  BY DEF TypeOK, Goto, Judged

\* Between the judgement and the answer FaultPlan sees nothing.
LEMMA JudgedStays ==
  ASSUME TypeOK, NEW r \in Requests, NEW to \in {"waited", "serving"}, Goto(r, to),
         stage[r] \in {"delaying", "waited"}
  PROVE  Judged' = Judged
<1>1. \A q \in Requests : Judged'[q] = Judged[q]
  BY DEF TypeOK, Goto, Judged
<1> QED
  BY <1>1 DEF Judged

LEMMA PlanInit == Init => Plan!Init
  BY DEF Init, Plan!Init

LEMMA PlanTake ==
  ASSUME IndInv, NEW r \in Requests, Take(r)
  PROVE  Plan!Judge(r)
<1>1. TypeOK /\ path[r] \in Paths /\ path[r] \in Keys /\ MatchAll \in Keys
  BY DEF IndInv, QueueInv, HitsFit, Take, Keys
<1>2. Judged[r] = "arrived" /\ Judged' = [Judged EXCEPT ![r] = "judged"]
  <2>1. Goto(r, "delaying") \/ Goto(r, "serving")
    BY DEF Take, TakeFrom
  <2>2. Judged[r] = "arrived"
    BY DEF Take, Judged
  <2> QED
    BY <1>1, <2>1, <2>2, JudgedMoves DEF Stages
<1>3. UNCHANGED <<added, cleared, path, gone>> /\ path[r] \notin Unfaulted
  BY DEF Take
<1>4. CASE queues[path[r]] # <<>> /\ TakeFrom(r, path[r])
  <2>1. /\ Pending(path[r]) # {}
        /\ taken' = [taken EXCEPT ![r] = Oldest(Pending(path[r]))]
    BY <1>1, <1>4, HeadIsOldest DEF TakeFrom
  <2> QED
    BY <1>2, <1>3, <2>1, SamePending, SameOldest DEF Plan!Judge, Plan!Culprits, Judged
<1>5. CASE queues[path[r]] = <<>> /\ queues[MatchAll] # <<>> /\ TakeFrom(r, MatchAll)
  <2>1. /\ Pending(path[r]) = {} /\ Pending(MatchAll) # {}
        /\ taken' = [taken EXCEPT ![r] = Oldest(Pending(MatchAll))]
    BY <1>1, <1>5, HeadIsOldest, EmptyQueue DEF TakeFrom
  <2> QED
    BY <1>2, <1>3, <2>1, SamePending, SameOldest DEF Plan!Judge, Plan!Culprits, Judged
<1>6. CASE queues[path[r]] = <<>> /\ queues[MatchAll] = <<>> /\ UNCHANGED taken
  <2>1. Pending(path[r]) = {} /\ Pending(MatchAll) = {}
    BY <1>1, <1>6, EmptyQueue
  <2> QED
    BY <1>2, <1>3, <1>6, <2>1, SamePending DEF Plan!Judge, Plan!Culprits, Judged
<1> QED
  BY <1>4, <1>5, <1>6 DEF Take

LEMMA PlanHandle ==
  ASSUME IndInv, NEW r \in Requests, Handle(r)
  PROVE  [Plan!Next]_(Plan!faultVars)
<1>1. TypeOK /\ HitsFit
  BY DEF IndInv, QueueInv
<1>2. CASE Arrive(r)
  <2>1. PICK p \in Paths : path' = [path EXCEPT ![r] = p]
    BY <1>2 DEF Arrive
  <2>2. Judged[r] = "new" /\ Judged' = [Judged EXCEPT ![r] = "arrived"]
    BY <1>1, <1>2, JudgedMoves DEF Arrive, Stages, Judged
  <2>3. Plan!Send(r, p)
    BY <1>2, <2>1, <2>2 DEF Arrive, Plan!Send, Judged
  <2> QED
    BY <2>3 DEF Plan!Next
<1>3. CASE Bypass(r)
  <2>1. Judged[r] = "arrived" /\ Judged' = [Judged EXCEPT ![r] = "judged"]
    BY <1>1, <1>3, JudgedMoves DEF Bypass, Stages, Judged
  <2>2. Plan!Judge(r)
    BY <1>3, <2>1 DEF Bypass, Plan!Judge, Judged
  <2> QED
    BY <2>2 DEF Plan!Next
<1>4. CASE Take(r)
  BY <1>4, PlanTake DEF Plan!Next
<1>5. CASE Wait(r)
  <2>1. taken[r] # 0 /\ Judged[r] = "judged"
    BY <1>1, <1>5 DEF Wait, HitsFit, Judged
  <2>2. CASE Goto(r, "waited")
    <3>1. Judged' = Judged
      BY <1>1, <1>5, <2>2, JudgedStays DEF Wait
    <3> QED
      BY <1>5, <3>1 DEF Wait, Plan!faultVars, Judged
  <2>3. CASE added[taken[r]].delay > 0 /\ r \in gone /\ Goto(r, "dropped")
    <3>1. Judged' = [Judged EXCEPT ![r] = "dropped"]
      BY <1>1, <2>3, JudgedMoves DEF Stages, Outcomes
    <3>2. added[taken[r]].delay # 0
      BY <2>3
    <3>3. "dropped" \in Plan!Answers(r)
      BY <2>1, <2>3, <3>2 DEF Plan!Answers
    <3>4. Plan!Answer(r)
      BY <1>5, <2>1, <3>1, <3>3 DEF Wait, Plan!Answer, Judged
    <3> QED
      BY <3>4 DEF Plan!Next
  <2> QED
    BY <1>5, <2>2, <2>3 DEF Wait
<1>6. CASE Reply(r)
  <2>1. taken[r] # 0 /\ Judged[r] = "judged"
    BY <1>1, <1>6 DEF Reply, HitsFit, Judged
  <2>2. CASE added[taken[r]].status = 0
    <3>1. Judged' = Judged
      BY <1>1, <1>6, <2>2, JudgedStays DEF Reply
    <3> QED
      BY <1>6, <3>1 DEF Reply, Plan!faultVars, Judged
  <2>3. CASE added[taken[r]].status # 0
    <3>1. Judged' = [Judged EXCEPT ![r] = "fault"]
      BY <1>1, <1>6, <2>3, JudgedMoves DEF Reply, Stages, Outcomes
    <3>2. "fault" \in Plan!Answers(r)
      BY <2>1, <2>3 DEF Plan!Answers
    <3>3. Plan!Answer(r)
      BY <1>6, <2>1, <3>1, <3>2 DEF Reply, Plan!Answer, Judged
    <3> QED
      BY <3>3 DEF Plan!Next
  <2> QED
    BY <2>2, <2>3
<1>7. CASE Serve(r)
  <2>1. Judged[r] = "judged" /\ Judged' = [Judged EXCEPT ![r] = "real"]
    BY <1>1, <1>7, JudgedMoves DEF Serve, Stages, Outcomes, Judged
  <2>2. "real" \in Plan!Answers(r)
    BY <1>1, <1>7 DEF Serve, HitsFit, Plan!Answers
  <2>3. Plan!Answer(r)
    BY <1>7, <2>1, <2>2 DEF Serve, Plan!Answer, Judged
  <2> QED
    BY <2>3 DEF Plan!Next
<1>8. CASE GiveUp(r)
  <2>1. Judged' = Judged /\ Judged[r] \in {"arrived", "judged"}
    BY <1>1, <1>8 DEF GiveUp, Judged
  <2>2. Plan!GiveUp(r)
    BY <1>8, <2>1 DEF GiveUp, Plan!GiveUp, Judged
  <2> QED
    BY <2>2 DEF Plan!Next
<1> QED
  BY <1>2, <1>3, <1>4, <1>5, <1>6, <1>7, <1>8 DEF Handle

LEMMA PlanStep == IndInv /\ [Next]_vars => [Plan!Next]_(Plan!faultVars)
<1> SUFFICES ASSUME IndInv, [Next]_vars
             PROVE  [Plan!Next]_(Plan!faultVars)
  OBVIOUS
<1>1. ASSUME NEW post \in Posts, AddFault(post)
      PROVE  Plan!Post
  <2>1. Normal(post) \in Fault /\ added \in Seq(Fault) /\ added' = Append(added, Normal(post))
    BY <1>1, NormalType DEF AddFault, Enqueue, IndInv, TypeOK
  <2>2. Len(added') = Len(added) + 1 /\ added'[Len(added')] = Normal(post)
    BY <2>1
  <2> QED
    BY <1>1, <2>1, <2>2, SameFault DEF AddFault, Plan!Post
<1>2. CASE ResetFaults
  BY <1>2 DEF ResetFaults, Plan!Clear, Plan!Next
<1>3. ASSUME NEW r \in Requests, Handle(r)
      PROVE  [Plan!Next]_(Plan!faultVars)
  BY <1>3, PlanHandle
<1>4. CASE UNCHANGED vars
  BY <1>4 DEF vars, faultVars, Plan!faultVars
<1> QED
  BY <1>1, <1>2, <1>3, <1>4 DEF Next, Plan!Next

\* Whatever requests, posts and resets interleave in the server, each request
\* is judged at one instant and answered as FaultPlan promises
\* (mocks/README.md:53-64).
THEOREM Refinement == Spec => Implements
<1>1. Init => Plan!Init
  BY PlanInit
<1>2. IndInv /\ [Next]_vars => [Plan!Next]_(Plan!faultVars)
  BY PlanStep
<1> QED
  BY <1>1, <1>2, Inductive, PTL DEF Spec, Implements, Plan!Spec
=============================================================================
