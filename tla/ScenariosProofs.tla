--------------------------- MODULE ScenariosProofs ---------------------------
(***************************************************************************)
(* Whatever the stack, the allowlist and the number of scenarios, what the *)
(* suite leaves altered was reported.  Accounted says why; it is preserved *)
(* by every step, and the steps differ only in what they do to the stack   *)
(* and to the cleanups, so that is what the lemmas are about.              *)
(***************************************************************************)
EXTENDS Scenarios, TLAPS

IndInv == TypeOK /\ Accounted

\* A command takes effect for a scenario already reported: the rest stays.
LEMMA CarriedOut ==
  ASSUME IndInv, NEW c \in Commands, CarryOut(c)
  PROVE  /\ altered' \subseteq InReach
         /\ blame' \in [Parts -> {0} \cup Numbers]
         /\ \A r \in altered' \ {c.on} : r \in altered /\ blame'[r] = blame[r]
         /\ c.on \in altered' => c.alters /\ blame'[c.on] = c.by
<1>1. c.on \in InReach /\ c.on \in Parts /\ c.by \in Numbers
  BY StackAssumption DEF Commands, InReach, Parts
<1>2. QED
  BY <1>1 DEF IndInv, TypeOK, CarryOut

\* However a call ends, what it touches is at most what it was issued for, and
\* only a call that alters can leave it altered anew.
LEMMA Issued ==
  ASSUME IndInv, NEW c \in Commands, NEW o \in Outcomes, Issue(c, o)
  PROVE  /\ altered' \subseteq InReach
         /\ blame' \in [Parts -> {0} \cup Numbers]
         /\ late' \subseteq late \cup {c}
         /\ o = "done" => late' = late
         /\ \A r \in altered' : \/ r \in altered /\ blame'[r] = blame[r]
                                \/ r = c.on /\ c.alters /\ blame'[r] = c.by
         /\ o = "done" /\ ~c.alters => c.on \notin altered'
<1>1. CASE o \in {"done", "lost"}
  <2>1. CarryOut(c) /\ late' = late
    BY <1>1 DEF Issue
  <2>2. QED
    BY <2>1, CarriedOut DEF CarryOut
<1>2. CASE o \notin {"done", "lost"}
  BY <1>2 DEF Issue, IndInv, TypeOK
<1>3. QED
  BY <1>1, <1>2

\* A scenario that fails has accounted for whatever it did, and needs no
\* cleanup for it.
LEMMA FatalAccounts ==
  ASSUME IndInv, now \in Numbers, Fatal,
         altered' \subseteq InReach,
         blame' \in [Parts -> {0} \cup Numbers],
         late' \subseteq Commands,
         \A c \in late' : c \in late \/ c.by = now,
         \A r \in altered' : \/ r \in altered /\ blame'[r] = blame[r]
                             \/ blame'[r] = now
  PROVE  IndInv'
<1>1. now' = now /\ cleanups' = cleanups /\ phase' = "cleanup"
      /\ failed' = failed \cup {now}
  BY DEF Fatal, Report
<1>2. TypeOK'
  BY <1>1 DEF Fatal, suite, IndInv, TypeOK, Phases
<1>3. \A r \in altered' : blame'[r] \in failed'
  BY <1>1 DEF IndInv, Accounted
<1>4. \A c \in late' : c.by \in failed'
  BY <1>1 DEF IndInv, Accounted
<1>5. QED
  BY <1>1, <1>2, <1>3, <1>4 DEF IndInv, Accounted

LEMMA FatalAlone ==
  ASSUME IndInv, now \in Numbers, Fatal, UNCHANGED stack
  PROVE  IndInv'
<1>1. altered' = altered /\ blame' = blame /\ late' = late
  BY DEF stack
<1>2. QED
  BY <1>1, FatalAccounts DEF IndInv, TypeOK

LEMMA FatalCall ==
  ASSUME IndInv, now \in Numbers, NEW alters \in BOOLEAN, NEW r \in InReach,
         NEW o \in Outcomes, Issue(Command(alters, r), o), Fatal
  PROVE  IndInv'
<1> DEFINE c == Command(alters, r)
<1>1. c \in Commands /\ c.by = now
  BY DEF Command, Commands
<1> HIDE DEF c
<1>2. Issue(c, o)
  BY DEF c
<1>3. /\ altered' \subseteq InReach
      /\ blame' \in [Parts -> {0} \cup Numbers]
      /\ late' \subseteq late \cup {c}
      /\ \A q \in altered' : \/ q \in altered /\ blame'[q] = blame[q]
                             \/ q = c.on /\ c.alters /\ blame'[q] = c.by
  BY <1>1, <1>2, Issued
<1>4. QED
  BY <1>1, <1>3, FatalAccounts DEF IndInv, TypeOK

\* A call that alters and succeeds has its cleanup.
LEMMA AlterAccounts ==
  ASSUME IndInv, phase = "body", NEW r \in InReach, Alter(r)
  PROVE  IndInv'
<1>0. now \in Numbers
  BY DEF IndInv, Accounted
<1>1. PICK o \in AlterOutcomes :
        /\ Issue(Command(TRUE, r), o)
        /\ IF o = "done"
           THEN /\ cleanups' = Append(cleanups, r)
                /\ UNCHANGED <<suite, now, phase, failed>>
           ELSE Fatal
  BY DEF Alter
<1>2. o \in Outcomes
  BY StackAssumption
<1>3. CASE o # "done"
  BY <1>0, <1>1, <1>2, <1>3, FatalCall
<1>4. CASE o = "done"
  <2> DEFINE c == Command(TRUE, r)
  <2>1. c \in Commands /\ c.by = now /\ c.on = r
    BY <1>0 DEF Command, Commands
  <2>2. Issue(c, o)
    BY <1>1
  <2> HIDE DEF c
  <2>3. /\ altered' \subseteq InReach
        /\ blame' \in [Parts -> {0} \cup Numbers]
        /\ late' = late
        /\ \A q \in altered' : \/ q \in altered /\ blame'[q] = blame[q]
                               \/ q = r /\ blame'[q] = now
    BY <1>2, <1>4, <2>1, <2>2, Issued
  <2>4. cleanups' = Append(cleanups, r) /\ now' = now /\ phase' = "body"
        /\ failed' = failed /\ UNCHANGED <<env, kind, skipped>>
    BY <1>1, <1>4 DEF suite
  <2>5. cleanups \in Seq(InReach)
    BY DEF IndInv, TypeOK
  <2>6. /\ cleanups' \in Seq(InReach)
        /\ \A i \in DOMAIN cleanups : i \in DOMAIN cleanups' /\ cleanups'[i] = cleanups[i]
        /\ \E i \in DOMAIN cleanups' : cleanups'[i] = r
    <3>1. Len(cleanups) + 1 \in DOMAIN cleanups' /\ cleanups'[Len(cleanups) + 1] = r
      BY <2>4, <2>5
    <3>2. QED
      BY <2>4, <2>5, <3>1
  <2>7. TypeOK'
    BY <2>3, <2>4, <2>6 DEF IndInv, TypeOK
  <2>8. Accounted'
    BY <1>0, <2>3, <2>4, <2>6 DEF IndInv, Accounted
  <2>9. QED
    BY <2>7, <2>8 DEF IndInv
<1>5. QED
  BY <1>3, <1>4

\* A call that restores and succeeds only takes from what is altered.
LEMMA RestoreAccounts ==
  ASSUME IndInv, phase = "body", NEW r \in InReach,
         Issue(Command(FALSE, r), "done"), UNCHANGED test
  PROVE  IndInv'
<1>0. now \in Numbers
  BY DEF IndInv, Accounted
<1> DEFINE c == Command(FALSE, r)
<1>1. c \in Commands /\ ~c.alters
  BY <1>0 DEF Command, Commands
<1>2. Issue(c, "done") /\ "done" \in Outcomes
  BY DEF Outcomes
<1> HIDE DEF c
<1>3. /\ altered' \subseteq InReach
      /\ blame' \in [Parts -> {0} \cup Numbers]
      /\ late' = late
      /\ \A q \in altered' : q \in altered /\ blame'[q] = blame[q]
  BY <1>1, <1>2, Issued
<1>4. /\ now' = now /\ phase' = phase /\ cleanups' = cleanups /\ failed' = failed
      /\ UNCHANGED <<env, kind, skipped>>
  BY DEF test, suite
<1>5. QED
  BY <1>3, <1>4 DEF IndInv, TypeOK, Accounted

\* The last cleanup restores its part or reports that it could not; the others
\* keep theirs.
LEMMA CleanupAccounts ==
  ASSUME IndInv, Cleanup
  PROVE  IndInv'
<1> DEFINE n == Len(cleanups)
           r == cleanups[n]
           c == Command(FALSE, r)
<1>0. /\ cleanups \in Seq(InReach) /\ n \in Nat /\ n > 0
      /\ now \in Numbers /\ phase = "cleanup"
  BY DEF Cleanup, IndInv, TypeOK, Accounted
<1>1. PICK o \in Outcomes :
        /\ Issue(c, o)
        /\ IF o = "done" THEN UNCHANGED failed ELSE Report
  BY StackAssumption DEF Cleanup
<1>2. /\ cleanups' = SubSeq(cleanups, 1, n - 1) /\ now' = now /\ phase' = phase
      /\ UNCHANGED <<env, kind, skipped>>
  BY DEF Cleanup, suite
<1>3. r \in InReach
  BY <1>0
<1>4. c \in Commands /\ ~c.alters /\ c.by = now /\ c.on = r
  BY <1>0, <1>3 DEF Command, Commands
<1>5. /\ cleanups' \in Seq(InReach)
      /\ \A i \in DOMAIN cleanups :
           i # n => i \in DOMAIN cleanups' /\ cleanups'[i] = cleanups[i]
  BY <1>0, <1>2
<1> HIDE DEF c, r
<1>6. /\ altered' \subseteq InReach
      /\ blame' \in [Parts -> {0} \cup Numbers]
      /\ late' \subseteq late \cup {c}
      /\ o = "done" => late' = late /\ r \notin altered'
      /\ \A q \in altered' : q \in altered /\ blame'[q] = blame[q]
  BY <1>1, <1>4, Issued
<1>7. \A i \in DOMAIN cleanups : cleanups[i] # r => i # n
  BY DEF r
<1>8. CASE o = "done"
  <2>1. failed' = failed /\ late' = late /\ r \notin altered'
    BY <1>1, <1>6, <1>8
  <2>2. TypeOK'
    BY <1>2, <1>5, <1>6, <2>1 DEF IndInv, TypeOK
  <2>3. ASSUME NEW q \in altered', blame'[q] \notin failed'
        PROVE  blame'[q] = now' /\ \E i \in DOMAIN cleanups' : cleanups'[i] = q
    <3>1. q \in altered /\ blame'[q] = blame[q] /\ q # r /\ blame[q] \notin failed
      BY <1>6, <2>1, <2>3
    <3>2. blame[q] = now /\ \E i \in DOMAIN cleanups : cleanups[i] = q
      BY <3>1 DEF IndInv, Accounted
    <3>3. QED
      BY <1>2, <1>5, <1>7, <3>1, <3>2
  <2>4. QED
    BY <1>0, <1>2, <2>1, <2>2, <2>3 DEF IndInv, Accounted
<1>9. CASE o # "done"
  <2>1. failed' = failed \cup {now}
    BY <1>1, <1>9 DEF Report
  <2>2. TypeOK'
    BY <1>0, <1>2, <1>4, <1>5, <1>6, <2>1 DEF IndInv, TypeOK
  <2>3. \A q \in altered' : blame'[q] \in failed'
    BY <1>6, <2>1 DEF IndInv, Accounted
  <2>4. \A d \in late' : d.by \in failed'
    BY <1>4, <1>6, <2>1 DEF IndInv, Accounted
  <2>5. QED
    BY <1>0, <1>2, <2>2, <2>3, <2>4 DEF IndInv, Accounted
<1>10. QED
  BY <1>8, <1>9
-----------------------------------------------------------------------------
LEMMA Initial == Init => IndInv
<1> SUFFICES ASSUME Init PROVE IndInv
  OBVIOUS
<1>1. now = 0 /\ 0 \in {0} \cup Numbers
  BY DEF Init
<1>2. blame \in [Parts -> {0} \cup Numbers] /\ cleanups \in Seq(InReach)
  BY DEF Init
<1>3. env \in Environments /\ kind \in Kinds /\ skipped \subseteq Kinds
  BY DEF Init, Kinds
<1>4. QED
  BY <1>1, <1>2, <1>3 DEF Init, IndInv, TypeOK, Accounted, Phases

LEMMA Step == IndInv /\ [Next]_vars => IndInv'
<1> SUFFICES ASSUME IndInv, [Next]_vars PROVE IndInv'
  OBVIOUS
<1>1. phase \in {"starting", "body", "cleanup"} => now \in Numbers
  BY DEF IndInv, Accounted
<1>2. \A s \in Controllable : s \in InReach
  BY DEF InReach
<1>3. \A m \in Mocks : m \in InReach
  BY DEF InReach
<1>4. CASE Begin
  <2>1. now' = now + 1 /\ now' \in Numbers /\ phase' \in {"starting", "idle"}
    BY <1>4, StackAssumption DEF Begin, Skip, IndInv, TypeOK, Numbers
  <2>2. UNCHANGED <<altered, blame, late, env, cleanups, failed>> /\ phase = "idle"
    BY <1>4 DEF Begin, stack
  <2>3. kind' \in Kinds /\ skipped' \subseteq Kinds
    BY <1>4 DEF Begin, Skip, IndInv, TypeOK
  <2>4. QED
    BY <2>1, <2>2, <2>3 DEF IndInv, TypeOK, Accounted, Phases
<1>5. CASE WaitReady
  <2>1. CASE Fatal
    BY <1>1, <1>5, <2>1, FatalAlone DEF WaitReady
  <2>2. CASE ~Fatal
    <3>1. /\ UNCHANGED <<altered, blame, late, env, kind, now, cleanups, failed>>
          /\ phase = "starting" /\ phase' \in {"body", "idle"}
          /\ skipped' \subseteq Kinds
      BY <1>5, <2>2 DEF WaitReady, Skip, stack, IndInv, TypeOK
    <3>2. QED
      BY <3>1 DEF IndInv, TypeOK, Accounted, Phases
  <2>3. QED
    BY <2>1, <2>2
<1>6. CASE FailAssertion
  <2>1. now \in Numbers /\ failed' = failed \cup {now}
    BY <1>1, <1>6 DEF FailAssertion, Report
  <2>2. UNCHANGED <<altered, blame, late, env, kind, skipped, now, phase, cleanups>>
    BY <1>6 DEF FailAssertion, stack, suite
  <2>3. QED
    BY <2>1, <2>2 DEF IndInv, TypeOK, Accounted
<1>7. CASE GiveUp
  BY <1>1, <1>7, FatalAlone DEF GiveUp
<1>8. CASE Finish
  BY <1>8 DEF Finish, stack, suite, IndInv, TypeOK, Accounted, Phases
<1>9. CASE TimeOut
  <2>1. now \in Numbers /\ failed' = failed \cup {now} /\ phase' = "aborted"
    BY <1>1, <1>9 DEF TimeOut, Report
  <2>2. UNCHANGED <<altered, blame, late, env, kind, skipped, now, cleanups>>
    BY <1>9 DEF TimeOut, stack, suite
  <2>3. QED
    BY <2>1, <2>2 DEF IndInv, TypeOK, Accounted, Phases
<1>10. CASE Cleanup
  BY <1>10, CleanupAccounts
<1>11. CASE End
  BY <1>11 DEF End, stack, suite, IndInv, TypeOK, Accounted, Phases
<1>12. ASSUME NEW s \in Services, Stop(s) PROVE IndInv'
  BY <1>1, <1>2, <1>12, FatalAlone, AlterAccounts DEF Stop, Controls, Refuse
<1>13. ASSUME NEW r \in InReach, phase = "body", Restore(r) PROVE IndInv'
  <2>1. PICK o \in Outcomes :
          /\ Issue(Command(FALSE, r), o)
          /\ IF o = "done" THEN UNCHANGED test ELSE Fatal
    BY <1>13, StackAssumption DEF Restore
  <2>2. CASE o = "done"
    BY <1>13, <2>1, <2>2, RestoreAccounts
  <2>3. CASE o # "done"
    BY <1>1, <1>13, <2>1, <2>3, FatalCall
  <2>4. QED
    BY <2>2, <2>3
<1>14. ASSUME NEW s \in Services, Start(s) PROVE IndInv'
  BY <1>1, <1>2, <1>13, <1>14, FatalAlone DEF Start, Controls, Refuse
<1>15. ASSUME NEW s \in Services, Restart(s) PROVE IndInv'
  <2>1. CASE Refuse(s)
    BY <1>1, <1>15, <2>1, FatalAlone DEF Restart, Controls, Refuse
  <2>2. ASSUME NEW o \in RestoreOutcomes, NEW half \in BOOLEAN, s \in Controllable,
               Issue(Command(half, s), o),
               IF o = "done" THEN ~half /\ UNCHANGED test ELSE Fatal
        PROVE  IndInv'
    <3>1. phase = "body" /\ now \in Numbers /\ s \in InReach /\ o \in Outcomes
      BY <1>1, <1>2, <1>15, <2>2, StackAssumption DEF Restart, Controls
    <3>2. CASE o = "done"
      <4>1. half = FALSE
        BY <2>2, <3>2
      <4>2. QED
        BY <2>2, <3>1, <3>2, <4>1, RestoreAccounts
    <3>3. CASE o # "done"
      BY <2>2, <3>1, <3>3, FatalCall
    <3>4. QED
      BY <3>2, <3>3
  <2>3. QED
    BY <1>15, <2>1, <2>2 DEF Restart
<1>16. ASSUME NEW m \in Mocks, InjectFault(m) \/ ResetFaults(m) PROVE IndInv'
  BY <1>3, <1>13, <1>16, AlterAccounts DEF InjectFault, ResetFaults
<1>17. ASSUME NEW c \in late, Land(c) PROVE IndInv'
  <2>1. c \in Commands /\ c.by \in failed
    BY DEF IndInv, TypeOK, Accounted
  <2>2. CarryOut(c) /\ late' = late \ {c}
        /\ UNCHANGED <<env, kind, skipped, now, phase, cleanups, failed>>
    BY <1>17 DEF Land, test, suite
  <2>3. /\ altered' \subseteq InReach
        /\ blame' \in [Parts -> {0} \cup Numbers]
        /\ \A r \in altered' \ {c.on} : r \in altered /\ blame'[r] = blame[r]
        /\ c.on \in altered' => blame'[c.on] = c.by
    BY <2>1, <2>2, CarriedOut
  <2>4. TypeOK'
    BY <2>2, <2>3 DEF IndInv, TypeOK
  <2>5. Accounted'
    BY <2>1, <2>2, <2>3 DEF IndInv, Accounted
  <2>6. QED
    BY <2>4, <2>5 DEF IndInv
<1>18. ASSUME NEW m \in Mocks, Consume(m) PROVE IndInv'
  BY <1>18 DEF Consume, test, suite, IndInv, TypeOK, Accounted
<1>19. CASE UNCHANGED vars
  BY <1>19 DEF vars, suite, IndInv, TypeOK, Accounted
<1>20. CASE TestMain
  BY <1>20 DEF TestMain, stack, suite, IndInv, TypeOK, Accounted, Phases
<1>21. QED
  BY <1>4, <1>5, <1>6, <1>7, <1>8, <1>9, <1>10, <1>11, <1>12, <1>14, <1>15,
     <1>16, <1>17, <1>18, <1>19, <1>20 DEF Next, Framework, Body, Environment

\* The inductive invariant: the types, and who accounts for what.
THEOREM Inductive == Spec => []IndInv
  BY Initial, Step, PTL DEF Spec

\* No container outside the allowlist is ever touched, and every variable has
\* its type.
THEOREM TypeCorrect == Spec => []TypeOK
<1>1. IndInv => TypeOK
  BY DEF IndInv
<1>2. QED
  BY <1>1, Inductive, PTL

\* What the suite leaves stopped or faulted, it has reported, for any stack,
\* any scenarios and any failures of the daemon and the mocks.
THEOREM LeftoversAreReported == Spec => []Blamed
<1>1. IndInv => Blamed
  BY DEF IndInv, Accounted, Blamed
<1>2. QED
  BY <1>1, Inductive, PTL
-----------------------------------------------------------------------------
(* What the guards of the suite and of its scenarios establish.  The        *)
(* environment never changes, so a guard once passed holds for good; what   *)
(* must be carried along is which guards have been passed in which phase,   *)
(* and that a call given up on, too, was issued behind its guard.           *)

\* The switch for stopping containers was set.
Allowed == Usable(env.lifecycle)

Guarded ==
  /\ phase \notin {"main", "refused"} => Admitted(env)
  /\ phase = "body" /\ kind # "plain" => MayControl(env)
  /\ \A r \in altered : r \in Services => Allowed
  /\ \A c \in late : c.alters /\ c.on \in Services => Allowed

\* Behind the guards of TestMain no scenario that is mandatory finds a reason
\* to skip.
LEMMA NoReasonToSkip ==
  ASSUME env \in Environments, Admitted(env), NEW k \in Kinds,
         \A name \in DOMAIN env : env[name] # "slashes",
         ~HasStack(k, env) \/ (k # "plain" /\ ~MayControl(env))
  PROVE  k \notin Mandatory
<1>1. env \in [{"required", "base_url", "lifecycle", "backup", "backup_required"}
                -> Classes]
  BY StackAssumption
<1>2. \A v \in {"base_url", "lifecycle", "backup"} : Given(env[v]) => Usable(env[v])
  BY <1>1 DEF Given, Usable, Classes
<1>3. SUFFICES ASSUME k \in Mandatory PROVE FALSE
  OBVIOUS
<1>4. Given(env.required) /\ (k = "backup" => Given(env.backup_required))
  BY <1>3 DEF Mandatory
<1>5. Given(env.base_url) /\ Given(env.lifecycle) /\ (k = "backup" => Given(env.backup))
  BY <1>4 DEF Admitted, CheckRequired, CheckLifecycleRequired, CheckBackupRequired
<1>6. QED
  BY <1>2, <1>5 DEF HasStack, MayControl

\* A call keeps the promise if it was issued behind the guard.
LEMMA CallGuarded ==
  ASSUME Guarded, NEW c, NEW o, Issue(c, o) \/ (CarryOut(c) /\ late' \subseteq late),
         env' = env, c.alters /\ c.on \in Services => Allowed
  PROVE  /\ \A r \in altered' : r \in Services => Allowed'
         /\ \A d \in late' : d.alters /\ d.on \in Services => Allowed'
<1>1. \A r \in altered' : r \in altered \/ (c.alters /\ r = c.on)
  BY DEF Issue, CarryOut
<1>2. \A d \in late' : d \in late \/ d = c
  BY DEF Issue
<1>3. Allowed' = Allowed
  BY DEF Allowed
<1>4. QED
  BY <1>1, <1>2, <1>3 DEF Guarded

\* What a step does to a scenario that is past its guards.
LEMMA BodyGuarded ==
  ASSUME IndInv, Guarded, Body
  PROVE  /\ UNCHANGED suite /\ phase = "body" /\ phase' \in {"body", "cleanup"}
         /\ \A r \in altered' : r \in Services => Allowed'
         /\ \A d \in late' : d.alters /\ d.on \in Services => Allowed'
<1>1. ASSUME NEW s \in Services, Stop(s) \/ Start(s) \/ Restart(s)
      PROVE  /\ UNCHANGED suite /\ phase = "body" /\ phase' \in {"body", "cleanup"}
             /\ \A r \in altered' : r \in Services => Allowed'
             /\ \A d \in late' : d.alters /\ d.on \in Services => Allowed'
  <2>1. phase = "body" /\ kind # "plain" /\ Allowed
    BY <1>1 DEF Stop, Start, Restart, Controls, Guarded, MayControl, Allowed
  <2>2. UNCHANGED suite /\ phase' \in {"body", "cleanup"}
    BY <1>1, <2>1 DEF Stop, Start, Restart, Alter, Restore, Refuse, Fatal, test, suite
  <2>3. env' = env
    BY <2>2 DEF suite
  <2>4. CASE UNCHANGED stack
    BY <2>1, <2>2, <2>3, <2>4 DEF stack, Guarded, Allowed
  <2>5. CASE \E alters \in BOOLEAN, o \in Outcomes : Issue(Command(alters, s), o)
    BY <2>1, <2>2, <2>3, <2>5, CallGuarded
  <2>6. UNCHANGED stack \/ \E alters \in BOOLEAN, o \in Outcomes : Issue(Command(alters, s), o)
    BY <1>1, StackAssumption DEF Stop, Start, Restart, Alter, Restore, Refuse
  <2>7. QED
    BY <2>1, <2>2, <2>4, <2>5, <2>6
<1>2. ASSUME NEW m \in Mocks, InjectFault(m) \/ ResetFaults(m)
      PROVE  /\ UNCHANGED suite /\ phase = "body" /\ phase' \in {"body", "cleanup"}
             /\ \A r \in altered' : r \in Services => Allowed'
             /\ \A d \in late' : d.alters /\ d.on \in Services => Allowed'
  <2>1. /\ UNCHANGED suite /\ phase = "body" /\ phase' \in {"body", "cleanup"}
    BY <1>2 DEF InjectFault, ResetFaults, Alter, Restore, Fatal, test, suite
  <2>2. PICK alters \in BOOLEAN, o \in Outcomes : Issue(Command(alters, m), o)
    BY <1>2, StackAssumption DEF InjectFault, ResetFaults, Alter, Restore
  <2>3. Command(alters, m).on \notin Services
    BY StackAssumption DEF Command
  <2>4. env' = env
    BY <2>1 DEF suite
  <2>5. QED
    BY <2>1, <2>2, <2>3, <2>4, CallGuarded
<1>3. QED
  BY <1>1, <1>2 DEF Body

LEMMA GuardsKept == IndInv /\ Guarded /\ [Next]_vars => Guarded'
<1> SUFFICES ASSUME IndInv, Guarded, [Next]_vars PROVE Guarded'
  OBVIOUS
<1>1. CASE Body
  <2>1. env' = env /\ kind' = kind
    BY <1>1, BodyGuarded DEF suite
  <2>2. QED
    BY <1>1, <2>1, BodyGuarded DEF Guarded
<1>2. ASSUME NEW c \in late, Land(c) PROVE Guarded'
  <2>1. UNCHANGED <<env, kind, phase>> /\ CarryOut(c) /\ late' \subseteq late
    BY <1>2 DEF Land, test, suite
  <2>2. c.alters /\ c.on \in Services => Allowed
    BY DEF Guarded
  <2>3. QED
    BY <2>1, <2>2, CallGuarded DEF Guarded
<1>3. ASSUME NEW m \in Mocks, Consume(m) PROVE Guarded'
  BY <1>3 DEF Consume, test, suite, Guarded, Allowed
<1>4. ASSUME UNCHANGED stack, UNCHANGED <<env, kind>>,
             phase' \in {"idle", "starting", "cleanup", "aborted"},
             phase \notin {"main", "refused"}
      PROVE  Guarded'
  BY <1>4 DEF stack, Guarded, Allowed
<1>5. CASE Begin
  BY <1>5 DEF Begin, Skip, stack, Guarded, Allowed
<1>6. CASE WaitReady
  BY <1>6 DEF WaitReady, Skip, Fatal, stack, suite, Guarded, Allowed
<1>7. CASE TestMain
  BY <1>7 DEF TestMain, stack, suite, Guarded, Allowed
<1>8. CASE Cleanup
  <2>1. UNCHANGED <<env, kind>> /\ phase = "cleanup" /\ phase' = "cleanup"
    BY <1>8 DEF Cleanup, suite
  <2>2. PICK o \in RestoreOutcomes : Issue(Command(FALSE, cleanups[Len(cleanups)]), o)
    BY <1>8 DEF Cleanup
  <2>3. ~Command(FALSE, cleanups[Len(cleanups)]).alters
    BY DEF Command
  <2>4. QED
    BY <2>1, <2>2, <2>3, CallGuarded DEF Guarded
<1>9. CASE FailAssertion \/ GiveUp \/ Finish \/ TimeOut \/ End
  BY <1>9 DEF FailAssertion, GiveUp, Finish, TimeOut, End, Fatal, stack, suite, Guarded, Allowed
<1>10. CASE UNCHANGED vars
  BY <1>10 DEF vars, suite, Guarded, Allowed
<1>11. QED
  BY <1>1, <1>2, <1>3, <1>5, <1>6, <1>7, <1>8, <1>9, <1>10
     DEF Next, Framework, Environment

LEMMA SkipsKept ==
  IndInv /\ Guarded /\ NothingMandatorySkipped /\ [Next]_vars
    => NothingMandatorySkipped'
<1> SUFFICES ASSUME IndInv, Guarded, NothingMandatorySkipped, [Next]_vars
             PROVE  NothingMandatorySkipped'
  OBVIOUS
<1>1. ASSUME UNCHANGED <<env, skipped>> PROVE NothingMandatorySkipped'
  BY <1>1 DEF NothingMandatorySkipped, Mandatory
<1>2. ASSUME NEW k \in Kinds, Skip(k), env' = env, phase \in {"idle", "starting"},
             ~HasStack(k, env) \/ (k # "plain" /\ ~MayControl(env))
      PROVE  NothingMandatorySkipped'
  <2>1. env \in Environments /\ Admitted(env)
    BY <1>2 DEF IndInv, TypeOK, Guarded
  <2>2. (\A name \in DOMAIN env : env[name] # "slashes") => k \notin Mandatory
    BY <1>2, <2>1, NoReasonToSkip
  <2>3. Mandatory' = Mandatory /\ skipped' = skipped \cup {k}
    BY <1>2 DEF Mandatory, Skip
  <2>4. QED
    BY <1>2, <2>2, <2>3 DEF NothingMandatorySkipped
<1>3. CASE Begin
  <2>1. PICK k \in Kinds :
          IF HasStack(k, env) THEN phase' = "starting" /\ UNCHANGED skipped ELSE Skip(k)
    BY <1>3 DEF Begin
  <2>2. env' = env /\ phase = "idle"
    BY <1>3 DEF Begin
  <2>3. QED
    BY <1>1, <1>2, <2>1, <2>2
<1>4. CASE WaitReady
  <2>1. kind \in Kinds
    BY DEF IndInv, TypeOK
  <2>2. env' = env /\ phase = "starting"
    BY <1>4 DEF WaitReady, Fatal, suite
  <2>3. UNCHANGED skipped \/ (Skip(kind) /\ kind # "plain" /\ ~MayControl(env))
    BY <1>4 DEF WaitReady, Fatal, suite
  <2>4. QED
    BY <1>1, <1>2, <2>1, <2>2, <2>3
<1>5. CASE Body
  BY <1>1, <1>5, BodyGuarded DEF suite
<1>6. CASE TestMain \/ FailAssertion \/ GiveUp \/ Finish \/ TimeOut \/ Cleanup \/ End
  BY <1>1, <1>6 DEF TestMain, FailAssertion, GiveUp, Finish, TimeOut, Cleanup, End,
     Fatal, suite
<1>7. CASE Environment
  BY <1>1, <1>7 DEF Environment, Land, Consume, test, suite
<1>8. CASE UNCHANGED vars
  BY <1>1, <1>8 DEF vars, suite
<1>9. QED
  BY <1>3, <1>4, <1>5, <1>6, <1>7, <1>8 DEF Next, Framework

LEMMA GuardsInductive == Spec => [](IndInv /\ Guarded /\ NothingMandatorySkipped)
<1>1. Init => Guarded /\ NothingMandatorySkipped
  BY DEF Init, Guarded, NothingMandatorySkipped
<1>2. QED
  BY <1>1, Initial, Step, GuardsKept, SkipsKept, PTL DEF Spec

\* A suite told it is mandatory skips nothing, in whatever environment it is
\* started.
THEOREM MandatoryScenariosRun == Spec => []NothingMandatorySkipped
  BY GuardsInductive, PTL

\* No container is stopped, at once or late, unless the switch for it was set.
THEOREM StopsAreAskedFor == Spec => []OnlyWhenAsked
<1>1. Guarded => OnlyWhenAsked
  BY DEF Guarded, OnlyWhenAsked, Allowed
<1>2. QED
  BY <1>1, GuardsInductive, PTL
=============================================================================
