---------------------------- MODULE StackChecks -----------------------------
(* The checks of the Compose stacks: check-hardening.py and
   check-stage1-overlay.py.

   Of a repository f this module reads
     f.stacks    for each composition of Compose files, what it says: a
                 function from service name to service, or Unreadable when
                 it does not render.  The profiles of a service come from
                 the overlay: the base file has none
   A service is a record of what the checks look at.  mounts and ports are
   sets of records; a port that is not published has the number None. *)
EXTENDS Integers, FiniteSets, Functions, Verdicts

CONSTANTS DockerSocket, Base, E2E, Stage, Stage1

(***************************************************************************)
(* docker compose config: what runs when no profile is asked for.          *)
(***************************************************************************)
Render(stack) == Restrict(stack, {s \in DOMAIN stack : stack[s].profiles = {}})

(***************************************************************************)
(* check-hardening.py                                                      *)
(***************************************************************************)
CapabilityExempt == {"authentik-server", "authentik-worker"}
ReadOnly == {"integration-core", "integration-core-no-outline", "hub",
             "mock-identity", "mock-espocrm", "mock-redmine", "mock-outline"}
WritableBinds == {}
AdminSecretEnv ==
  [BSYSTEM_AUTHENTIK_ADMIN_TOKEN |-> {"authentik-worker"},
   AUTHENTIK_ADMIN_TOKEN |-> {"integration-core", "integration-core-no-outline"}]
EveryInterface == {None, "", "0.0.0.0", "::"}

Binds(s) == {m \in s.mounts : m.type = "bind"}

Exposes(p) == p.published # None /\ p.host_ip \in EveryInterface

\* What is wrong with one service.
Failures(name, s) ==
  LET fails ==
        [privileges   |-> ~s.no_new_privileges,
         exemption    |-> name \in CapabilityExempt /\ s.cap_drop # {},
         capabilities |-> name \notin CapabilityExempt /\ "ALL" \notin s.cap_drop,
         privileged   |-> s.privileged,
         secret       |-> \E v \in s.environment \cap DOMAIN AdminSecretEnv :
                            name \notin AdminSecretEnv[v],
         filesystem   |-> name \in ReadOnly /\ ~s.read_only,
         socket       |-> \E m \in s.mounts : m.source = DockerSocket,
         bind         |-> \E m \in Binds(s) : /\ m.source \notin WritableBinds
                                              /\ ~m.read_only,
         port         |-> \E p \in s.ports : Exposes(p)]
  IN  {k \in DOMAIN fails : fails[k]}

Inspect(label, rendered) ==
  IF DOMAIN rendered = {} THEN {<<label, "renders no service">>}
  ELSE UNION {{<<label, name, failure>> : failure \in Failures(name, rendered[name])} :
                name \in DOMAIN rendered}

\* Mistake: the guard is asked first, and hides the failures.
HardeningGuardFirst(f, labels) ==
  LET failures == UNION {Inspect(l, Render(f.stacks[l])) : l \in labels}
      binds == UNION {UNION {Binds(f.stacks[l][s]) : s \in DOMAIN Render(f.stacks[l])} :
                        l \in labels}
  IN  IF \E l \in labels : f.stacks[l] = Unreadable THEN Refuse({})
      ELSE IF binds = {} THEN Refuse(failures)
      ELSE Judge(failures)

\* One call of the script over the stacks named by labels.  docker compose
\* failing on one of them ends it.  Failures come first: the guard for
\* stacks without a bind mount is asked only when there are none.
CheckHardening(f, labels) ==
  LET failures == UNION {Inspect(l, Render(f.stacks[l])) : l \in labels}
      binds == UNION {UNION {Binds(f.stacks[l][s]) : s \in DOMAIN Render(f.stacks[l])} :
                        l \in labels}
  IN  IF \E l \in labels : f.stacks[l] = Unreadable THEN Refuse({})
      ELSE IF failures = {} /\ binds = {} THEN Refuse({})
      ELSE Judge(failures)

(***************************************************************************)
(* check-stage1-overlay.py                                                 *)
(***************************************************************************)
ExcludedService == "hub"
ExclusionProfile == "hub"
ExpectedMocks == {"mock-redmine", "mock-outline"}

\* Mistake: a frontend that is absent for another reason is good enough.
GatedOrGone(stack) ==
  ExcludedService \in DOMAIN stack => stack[ExcludedService].profiles # {}

\* Read from the overlay file itself: rendering resolves the profile away.
OverlayDeclaresHubProfile(stack) ==
  /\ ExcludedService \in DOMAIN stack
  /\ ExclusionProfile \in stack[ExcludedService].profiles

OverlayFindings(stack) ==
  LET services == DOMAIN Render(stack)
  IN  {<<"present", s>> : s \in services \cap {ExcludedService}}
      \cup (IF ExcludedService \in services \/ OverlayDeclaresHubProfile(stack)
            THEN {} ELSE {<<"not gated", ExcludedService>>})
      \cup {<<"missing", s>> : s \in ExpectedMocks \ services}

CheckStage1Overlay(f) ==
  IF f.stacks[Stage1] = Unreadable THEN Refuse({})
  ELSE IF DOMAIN Render(f.stacks[Stage1]) = {} THEN Refuse({})
  ELSE Judge(OverlayFindings(f.stacks[Stage1]))
=============================================================================
