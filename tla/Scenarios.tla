----------------------------- MODULE Scenarios ------------------------------
(***************************************************************************)
(* The end-to-end suite, src/e2e: the scenarios run one after the other in *)
(* one test binary, against one shared stack.  A scenario stops containers *)
(* (lifecycle.go) and queues faults on the mocks (harness.go), and undoes  *)
(* both from cleanups that the testing package runs, last one first, when  *)
(* the scenario ends, however it ends.                                     *)
(*                                                                         *)
(* Stopping a service and faulting a mock are the same thing here: a call  *)
(* alters a part of the stack, and a later call restores it.  A call may   *)
(* fail in the three ways a call to a daemon or a server fails.            *)
(*                                                                         *)
(* Before the first scenario the suite looks at its environment and may    *)
(* refuse to begin; each scenario looks at it again and may skip.          *)
(***************************************************************************)
EXTENDS Naturals, Sequences, SuiteGuards

CONSTANTS
  Environments,     \* what the suite may be started with
  Services,         \* the containers of the stack
  Controllable,     \* those a scenario may stop: controllable, lifecycle.go
  Core,             \* the Integration Core every scenario talks to
  Database,         \* the service the Core is not ready without
  Mocks,            \* the mock upstreams that take faults
  AlterOutcomes,    \* how a call that alters the stack may end
  RestoreOutcomes,  \* how a call that restores it may end
  MaxScenarios,     \* bound: scenarios the suite runs
  MaxCleanups       \* bound: alterations of one scenario

\* "done": carried out and answered.  "refused": an error, nothing happened.
\* "lost": carried out, but the caller sees an error or its timeout.
\* "late": an error for the caller, and it may be carried out any time later.
Outcomes == {"done", "refused", "lost", "late"}

ASSUME StackAssumption ==
  /\ Controllable \subseteq Services
  /\ Services \cap Mocks = {}
  /\ AlterOutcomes \subseteq Outcomes /\ RestoreOutcomes \subseteq Outcomes
  /\ MaxScenarios \in Nat
  /\ \A e \in Environments : e \in [{"required", "base_url", "lifecycle", "backup",
                                    "backup_required"} -> Classes]

VARIABLES
  altered,    \* the stopped services and the mocks with a fault queued
  blame,      \* the scenario that last altered each of them
  late,       \* the calls a scenario gave up on that may still be carried out
  env,        \* the environment, which nothing changes
  kind,       \* of which kind the scenario is that runs, or ran last
  skipped,    \* the kinds of scenario that have been skipped
  now,        \* the scenario that runs, or ran last
  phase,      \* where it is
  cleanups,   \* what its cleanups restore, in the order they were registered
  failed      \* the scenarios reported as failed

stack == <<altered, blame, late>>
suite == <<env, kind, skipped>>
test == <<suite, now, phase, cleanups, failed>>
vars == <<altered, blame, late, suite, now, phase, cleanups, failed>>

Parts == Services \cup Mocks
InReach == Controllable \cup Mocks
Numbers == 1 .. MaxScenarios
Phases == {"main", "refused", "idle", "starting", "body", "cleanup", "aborted"}
Commands == [alters : BOOLEAN, on : InReach, by : Numbers]

\* The types, and the reach of the suite: whatever a scenario asks for, only
\* the services of the allowlist and the mocks are ever touched, by a call, a
\* late call or a cleanup.
TypeOK ==
  /\ altered \subseteq InReach
  /\ blame \in [Parts -> {0} \cup Numbers]
  /\ late \subseteq Commands
  /\ env \in Environments /\ kind \in Kinds /\ skipped \subseteq Kinds
  /\ now \in {0} \cup Numbers
  /\ phase \in Phases
  /\ cleanups \in Seq(InReach)
  /\ failed \subseteq Numbers

Init ==
  /\ altered = {}
  /\ blame = [r \in Parts |-> 0]
  /\ late = {}
  /\ env \in Environments /\ kind = "plain" /\ skipped = {}
  /\ now = 0
  /\ phase = "main"
  /\ cleanups = <<>>
  /\ failed = {}
-----------------------------------------------------------------------------
(* docker compose and the mocks' control endpoints *)

CarryOut(c) ==
  /\ altered' = IF c.alters THEN altered \cup {c.on} ELSE altered \ {c.on}
  /\ blame' = IF c.alters THEN [blame EXCEPT ![c.on] = c.by] ELSE blame

Command(alters, r) == [alters |-> alters, on |-> r, by |-> now]

Issue(c, outcome) ==
  /\ IF outcome \in {"done", "lost"}
     THEN CarryOut(c) ELSE UNCHANGED <<altered, blame>>
  /\ late' = IF outcome = "late" THEN late \cup {c} ELSE late

\* What a caller gave up on happens after all.
Land(c) ==
  /\ CarryOut(c)
  /\ late' = late \ {c}
  /\ UNCHANGED test

\* The platform's requests use up what is queued on a mock.
Consume(m) ==
  /\ m \in altered
  /\ altered' = altered \ {m}
  /\ UNCHANGED <<blame, late, test>>
-----------------------------------------------------------------------------
(* The testing package around a scenario *)

Report == failed' = failed \cup {now}

\* t.Fatalf: the scenario is reported, its body ends, its cleanups run.
Fatal ==
  /\ phase' = "cleanup"
  /\ Report
  /\ UNCHANGED <<suite, now, cleanups>>

\* t.Skip, before any cleanup is registered.
Skip(k) == phase' = "idle" /\ skipped' = skipped \cup {k}

TestMain ==
  /\ phase = "main"
  /\ phase' = IF Admitted(env) THEN "idle" ELSE "refused"
  /\ UNCHANGED <<stack, suite, now, cleanups, failed>>

Begin ==
  /\ phase = "idle" /\ now < MaxScenarios
  /\ now' = now + 1
  /\ \E k \in Kinds :
       /\ kind' = k
       /\ IF HasStack(k, env) THEN phase' = "starting" /\ UNCHANGED skipped ELSE Skip(k)
  /\ UNCHANGED <<stack, env, cleanups, failed>>

\* Every scenario waits for the Core to be ready, which without its database
\* it is not, and fails when its patience runs out.  Only then does one that
\* stops containers ask whether it may.
WaitReady ==
  /\ phase = "starting"
  /\ \/ /\ {Core, Database} \cap altered = {}
        /\ IF kind = "plain" \/ MayControl(env)
           THEN phase' = "body" /\ UNCHANGED skipped ELSE Skip(kind)
        /\ UNCHANGED <<env, kind, now, cleanups, failed>>
     \/ Fatal
  /\ UNCHANGED stack

\* t.Errorf: reported, and the body goes on.
FailAssertion ==
  /\ phase = "body"
  /\ Report
  /\ UNCHANGED <<stack, suite, now, phase, cleanups>>

\* A fatal assertion, or a waitFor whose condition never held.
GiveUp ==
  /\ phase = "body"
  /\ Fatal
  /\ UNCHANGED stack

Finish ==
  /\ phase = "body"
  /\ phase' = "cleanup"
  /\ UNCHANGED <<stack, suite, now, cleanups, failed>>

\* go test's own -timeout kills the binary: no cleanup runs.
TimeOut ==
  /\ phase \in {"starting", "body", "cleanup"}
  /\ phase' = "aborted"
  /\ Report
  /\ UNCHANGED <<stack, suite, now, cleanups>>
-----------------------------------------------------------------------------
(* What a scenario does to the stack *)

\* The cleanup is registered once the call is known to have succeeded.
Alter(r) ==
  \E o \in AlterOutcomes :
    /\ Issue(Command(TRUE, r), o)
    /\ IF o = "done"
       THEN /\ cleanups' = Append(cleanups, r)
            /\ UNCHANGED <<suite, now, phase, failed>>
       ELSE Fatal

Restore(r) ==
  \E o \in RestoreOutcomes :
    /\ Issue(Command(FALSE, r), o)
    /\ IF o = "done" THEN UNCHANGED test ELSE Fatal

Refuse(s) == s \notin Controllable /\ Fatal /\ UNCHANGED stack

\* The methods of Lifecycle: a scenario that has one.
Controls == phase = "body" /\ kind # "plain"

\* Mistake: the allowlist is not asked.
StopAny(s) ==
  /\ Controls /\ Len(cleanups) < MaxCleanups
  /\ Alter(s)

Stop(s) ==
  /\ Controls /\ Len(cleanups) < MaxCleanups
  /\ \/ Refuse(s)
     \/ s \in Controllable /\ Alter(s)

Start(s) ==
  /\ Controls
  /\ \/ Refuse(s)
     \/ s \in Controllable /\ Restore(s)

\* A restart that fails may have got as far as stopping the service.
Restart(s) ==
  /\ Controls
  /\ \/ Refuse(s)
     \/ /\ s \in Controllable
        /\ \E o \in RestoreOutcomes, half \in BOOLEAN :
             /\ Issue(Command(half, s), o)
             /\ IF o = "done" THEN ~half /\ UNCHANGED test ELSE Fatal

InjectFault(m) ==
  /\ phase = "body" /\ Len(cleanups) < MaxCleanups
  /\ Alter(m)

ResetFaults(m) == phase = "body" /\ Restore(m)

\* Mistake: only what the body did is reported.
CleanupQuietly ==
  LET n == Len(cleanups) IN
  /\ phase = "cleanup" /\ n > 0
  /\ \E o \in RestoreOutcomes : Issue(Command(FALSE, cleanups[n]), o)
  /\ cleanups' = SubSeq(cleanups, 1, n - 1)
  /\ UNCHANGED <<suite, now, phase, failed>>

\* A cleanup that fails is reported, and the ones before it still run.
Cleanup ==
  LET n == Len(cleanups) IN
  /\ phase = "cleanup" /\ n > 0
  /\ \E o \in RestoreOutcomes :
       /\ Issue(Command(FALSE, cleanups[n]), o)
       /\ IF o = "done" THEN UNCHANGED failed ELSE Report
  /\ cleanups' = SubSeq(cleanups, 1, n - 1)
  /\ UNCHANGED <<suite, now, phase>>

End ==
  /\ phase = "cleanup" /\ cleanups = <<>>
  /\ phase' = "idle"
  /\ UNCHANGED <<stack, suite, now, cleanups, failed>>
-----------------------------------------------------------------------------
Framework ==
  \/ TestMain \/ Begin \/ WaitReady \/ FailAssertion \/ GiveUp \/ Finish
  \/ TimeOut \/ Cleanup \/ End

Body ==
  \/ \E s \in Services : Stop(s) \/ Start(s) \/ Restart(s)
  \/ \E m \in Mocks : InjectFault(m) \/ ResetFaults(m)

Environment ==
  \/ \E c \in late : Land(c)
  \/ \E m \in Mocks : Consume(m)

Next == Framework \/ Body \/ Environment

Spec == Init /\ [][Next]_vars
-----------------------------------------------------------------------------
\* A part of the stack that is not as it should be was left so by a scenario
\* the suite has reported as failed, or is being used by the one that runs.  So
\* a dependency that is down, or a fault that waits, when the next scenario
\* starts can be traced to a failure that came before it: lifecycle.go and
\* harness.go report every call they cannot undo, from the body and from the
\* cleanups, for any failure of the daemon, the mocks or the scenario.
Blamed ==
  \A r \in altered :
    \/ blame[r] \in failed
    \/ phase \in {"body", "cleanup"} /\ blame[r] = now

\* Why Blamed holds: what the running scenario altered and has not failed for,
\* one of its cleanups will restore, and a call that was given up on was
\* reported by the scenario that issued it.
Accounted ==
  /\ \A r \in altered :
       \/ blame[r] \in failed
       \/ /\ phase \in {"body", "cleanup"} /\ blame[r] = now
          /\ \E i \in DOMAIN cleanups : cleanups[i] = r
  /\ \A c \in late : c.by \in failed
  /\ phase \in {"starting", "body", "cleanup"} => now \in Numbers

\* lifecycle.go:153 says of Stop that it "restores it when the test ends", and
\* lifecycle_test.go:90 that scenarios restore what they stopped even when they
\* fail: with a daemon that carries out every start, no service is down
\* between two scenarios.
RestoresWhatItStops == phase = "idle" => altered \cap Services = {}

\* What docs/E2E-ENVIRONMENT.md:121 means by "where a skip must be a failure".
\* Of the backup scenario it takes both variables, as the job sets them.
Mandatory ==
  (IF Given(env.required) THEN {"plain", "outage"} ELSE {})
  \cup (IF Given(env.required) /\ Given(env.backup_required) THEN {"backup"} ELSE {})

\* A suite that was told it is mandatory skips no scenario: it refuses to
\* begin, or every guard of a scenario lets it run.  The guards of TestMain
\* and those of the scenarios read the same variables in two ways, so a value
\* of nothing but slashes is excepted: it is there for the one, and not for
\* the other.
NothingMandatorySkipped ==
  (\A name \in DOMAIN env : env[name] # "slashes") => skipped \cap Mandatory = {}

\* Containers of a stack that somebody may be using are stopped only when
\* that was asked for, whatever fails or comes late.
OnlyWhenAsked == altered \cap Services # {} => Usable(env.lifecycle)
=============================================================================
