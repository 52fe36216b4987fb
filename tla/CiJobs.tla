------------------------------- MODULE CiJobs -------------------------------
(* The jobs that run the consistency checks on a commit of this repository:
   compose, stage-assets and e2e of .github/workflows/ci.yml, and a
   developer who runs by hand the four checks that look beside the
   repository (CONTRIBUTING.md).

   Jobs have a workspace each and share nothing but the commit and the
   remote of the Integration Core, so a behaviour is one job: the commit is
   edited and pushed, the job runs its steps in order and stops at the first
   that fails, and the branches of the Core move meanwhile.

   A CI job checks the Core out inside its workspace; the checks look for it
   beside the repository (ROOT.parent), where only a developer has one. *)
EXTENDS NameChecks, StackChecks, DocChecks, TreeChecks

CONSTANTS
  Baseline,        \* the facts of a repository, a record
  Values,          \* for each fact that may change, the values it may take
  MaxEdits,        \* bound: edits of the commit, for each job
  CoreContent,     \* for each commit of the Core, what the checks read of it
  Refs,            \* full names of refs of the Core: <<"heads", "main">>
  Main,            \* the short name of the branch to fall back to
  Asked,           \* short names somebody may ask for; None: nobody did
  Branch,          \* the short name of this repository's branch
  MaxMoves         \* bound: moves of the Core's refs, or pulls

VARIABLES
  edited,          \* the commit: the facts in which it is not the baseline
  job, asked,      \* None before the push
  pc, outcome,     \* the next step; "running", "passed" or "failed"
  ran,             \* what each check has said, and the Core it said it of
  remote, moves,   \* the commit of each of the Core's refs, or None
  named,           \* history: what the refs were since the push
  ref, reason,     \* the outputs of the step core-ref
  inside, beside,  \* the Core in the workspace, and beside the repository
  manifest,        \* compatibility.json as uploaded
  stack, tested    \* the Core that runs, and the one the scenarios passed on

core == <<remote, moves, named, beside>>
e2e == <<ref, reason, inside, manifest, stack, tested>>
commit == <<edited, job, asked>>
vars == <<commit, pc, outcome, ran, core, e2e>>

Steps ==
  [compose |-> <<"hardening", "stage hardening", "stage1 hardening", "overlay">>,
   stage_assets |-> <<"secrets", "links", "config", "coverage", "artifacts",
                      "groups", "scopes">>,
   e2e |-> <<"resolve", "checkout", "record", "publish", "prefixes", "endpoints",
             "groups", "start", "scenarios">>,
   local |-> <<"prefixes", "endpoints", "groups", "links">>]

Checks == {"hardening", "stage hardening", "stage1 hardening", "overlay", "secrets",
           "links", "config", "coverage", "artifacts", "groups", "scopes",
           "prefixes", "endpoints"}

repo == [field \in DOMAIN Baseline |->
           IF field \in DOMAIN edited THEN edited[field] ELSE Baseline[field]]

CoreAt(c) == IF c = None THEN None ELSE CoreContent[c]

\* The HUB and the Design System are not checked out here.
BesideRepo(c) ==
  [s \in Siblings |-> IF s = "bsystem-integration-core" /\ c # None
                      THEN CoreContent[c].files ELSE None]

Verdict(check, f, c) ==
  CASE check = "hardening"        -> CheckHardening(f, {Base, E2E})
    [] check = "stage hardening"  -> CheckHardening(f, {Stage})
    [] check = "stage1 hardening" -> CheckHardening(f, {Stage1})
    [] check = "overlay"          -> CheckStage1Overlay(f)
    [] check = "secrets"          -> CheckStageSecrets(f)
    [] check = "links"            -> CheckDocLinks(f, BesideRepo(c))
    [] check = "config"           -> CheckConfigDocs(f)
    [] check = "coverage"         -> CheckScanCoverage(f)
    [] check = "artifacts"        -> CheckArtifacts(f)
    [] check = "groups"           -> CheckIdentityGroups(f, CoreAt(c))
    [] check = "scopes"           -> CheckServiceIdentityScopes(f)
    [] check = "prefixes"         -> CheckGlobalIds(f, CoreAt(c))
    [] check = "endpoints"        -> CheckDocumentedEndpoints(f, CoreAt(c))

(***************************************************************************)
(* Before the push.                                                        *)
(***************************************************************************)
Init ==
  /\ edited = <<>>
  /\ job = None /\ asked = None /\ pc = 1 /\ outcome = "running"
  /\ ran = <<>>
  /\ remote = [n \in Refs |-> None]
  /\ moves = 0 /\ named = {} /\ beside = None
  /\ ref = None /\ reason = None /\ inside = None /\ manifest = None
  /\ stack = None /\ tested = None

\* f with one more value.
With(f, x, v) == [y \in DOMAIN f \cup {x} |-> IF y = x THEN v ELSE f[y]]

Edits == Cardinality(DOMAIN edited)

Edit ==
  /\ job = None /\ \E j \in DOMAIN Steps : Edits < MaxEdits[j]
  /\ \E field \in DOMAIN Values \ DOMAIN edited : \E v \in Values[field] :
       edited' = With(edited, field, v)
  /\ UNCHANGED <<job, asked, pc, outcome, ran, core, e2e>>

Cores == DOMAIN CoreContent \cup {None}
Trunk == <<"heads">> \o Main
Held(r) == {<<n, r[n]>> : n \in Refs}

AreRows(v) == v # Unreadable => Len(v) \in Nat /\ DOMAIN v = 1 .. Len(v)

\* The patterns for ports and addresses match nothing but digits.
AreDocs(v) ==
  \A d \in DOMAIN v : v[d].ports \subseteq Nat /\ v[d].addresses \subseteq [1 .. 4 -> Nat]

ASSUME CiAssumption ==
  /\ DOMAIN Values \subseteq DOMAIN Baseline
  /\ MaxMoves \in Nat /\ Trunk \in Refs
  /\ None \notin DOMAIN CoreContent /\ None \notin DOMAIN Steps
  /\ \A c \in DOMAIN CoreContent : /\ CoreContent[c] # None
                                   /\ DOMAIN CoreContent[c].migrations \subseteq Nat
  /\ "rows" \in DOMAIN Baseline /\ AreRows(Baseline["rows"])
  /\ "rows" \in DOMAIN Values => \A v \in Values["rows"] : AreRows(v)
  /\ "docs" \in DOMAIN Baseline /\ AreDocs(Baseline["docs"])
  /\ "docs" \in DOMAIN Values => \A v \in Values["docs"] : AreDocs(v)

\* The e2e job alone takes an input, core_ref, and looks at the Core's refs,
\* whatever they are by then; main is always there.  A developer alone has a
\* Core beside the repository, at any commit.
Push ==
  /\ job = None
  /\ \E j \in DOMAIN Steps, a \in Asked, b \in Cores :
       /\ Edits <= MaxEdits[j]
       /\ j # "e2e" => a = None
       /\ j # "local" => b = None
       /\ job' = j /\ asked' = a /\ beside' = b
       /\ IF j = "e2e" THEN remote' \in {r \in [Refs -> Cores] : r[Trunk] # None}
          ELSE UNCHANGED remote
  /\ named' = Held(remote')
  /\ UNCHANGED <<edited, pc, outcome, ran, moves, e2e>>

(***************************************************************************)
(* The steps of a job.                                                     *)
(***************************************************************************)
At(step) == job # None /\ outcome = "running" /\ Steps[job][pc] = step

Advance ==
  /\ pc' = pc + 1
  /\ outcome' = IF pc = Len(Steps[job]) THEN "passed" ELSE "running"

\* Mistake: the step that failed is passed over.
FailPast == outcome' = "failed" /\ pc' = pc + 1

Fail == outcome' = "failed" /\ pc' = pc

RunCheck ==
  \E check \in Checks :
    LET verdict == Verdict(check, repo, beside)
    IN  /\ At(check)
        /\ ran' = With(ran, check, [verdict |-> verdict, core |-> beside])
        /\ IF Passes(verdict) THEN Advance ELSE Fail
        /\ UNCHANGED <<commit, core, e2e>>

\* git ls-remote matches a pattern with the tail of a ref's name; with
\* --heads it looks at branches only.  A commit is no ref.
LsRemote(pattern) == {n \in Refs : remote[n] # None /\ IsSuffix(pattern, n)}
Heads(refs) == {n \in refs : n[1] = "heads"}

\* Mistake: a ref that was asked for is fallen back from like any other.
ResolveQuietly ==
  LET wanted == IF asked = None THEN Branch ELSE asked
  IN  /\ At("resolve")
      /\ IF LsRemote(wanted) # {}
         THEN ref' = wanted /\ reason' = "matching branch"
         ELSE ref' = Main /\ reason' = "fell back to main"
      /\ Advance
      /\ UNCHANGED <<commit, ran, core, inside, manifest, stack, tested>>

Resolve ==
  /\ At("resolve")
  /\ \/ /\ asked # None /\ LsRemote(asked) # {}
        /\ ref' = asked /\ reason' = "requested explicitly" /\ Advance
     \/ /\ asked # None /\ LsRemote(asked) = {}
        /\ Fail /\ UNCHANGED <<ref, reason>>
     \/ /\ asked = None /\ Heads(LsRemote(Branch)) # {}
        /\ ref' = Branch /\ reason' = "matching branch" /\ Advance
     \/ /\ asked = None /\ Heads(LsRemote(Branch)) = {}
        /\ ref' = Main /\ reason' = "fell back to main" /\ Advance
  /\ UNCHANGED <<commit, ran, core, inside, manifest, stack, tested>>

\* actions/checkout takes the branch of that name, or else the tag.
Named(r, short) ==
  LET full == {n \in {<<"heads">> \o short, <<"tags">> \o short} \cap Refs : r[n] # None}
  IN  IF <<"heads">> \o short \in full THEN r[<<"heads">> \o short]
      ELSE IF full # {} THEN r[<<"tags">> \o short] ELSE None

Checkout ==
  /\ At("checkout")
  /\ inside' = Named(remote, ref)
  /\ IF inside' = None THEN Fail ELSE Advance
  /\ UNCHANGED <<commit, ran, core, ref, reason, manifest, stack, tested>>

\* Mistake: the commit the branch has now, asked of the remote.
RecordRemote ==
  /\ At("record")
  /\ IF inside = None THEN Fail /\ UNCHANGED manifest
     ELSE /\ manifest' = [ref |-> ref, resolution |-> reason, core |-> Named(remote, ref)]
          /\ Advance
  /\ UNCHANGED <<commit, ran, core, ref, reason, inside, stack, tested>>

\* compatibility-manifest.py: the head of the checkout in the workspace.
Record ==
  /\ At("record")
  /\ IF inside = None THEN Fail /\ UNCHANGED manifest
     ELSE /\ manifest' = [ref |-> ref, resolution |-> reason, core |-> inside]
          /\ Advance
  /\ UNCHANGED <<commit, ran, core, ref, reason, inside, stack, tested>>

\* The upload comes before the tests: it is there however the job ends.
Publish ==
  /\ At("publish") /\ Advance
  /\ UNCHANGED <<commit, ran, core, e2e>>

Start ==
  /\ At("start")
  /\ stack' = inside /\ Advance
  /\ UNCHANGED <<commit, ran, core, ref, reason, inside, manifest, tested>>

RunScenarios ==
  /\ At("scenarios")
  /\ tested' = stack /\ Advance
  /\ UNCHANGED <<commit, ran, core, ref, reason, inside, manifest, stack>>

\* The network, the registry, a build or a scenario fails.  A stack that
\* does not come up may have started in part.
Break ==
  /\ \E step \in {"checkout", "publish", "start", "scenarios"} : At(step)
  /\ Fail
  /\ stack' \in IF At("start") THEN {stack, inside} ELSE {stack}
  /\ UNCHANGED <<commit, ran, core, ref, reason, inside, manifest, tested>>

\* Mistake: the stack is torn down when the scenarios have passed.
TearDownPassed ==
  /\ job = "e2e" /\ outcome = "passed" /\ stack # None
  /\ stack' = None
  /\ UNCHANGED <<commit, pc, outcome, ran, core, ref, reason, inside, manifest, tested>>

\* if: always()
TearDown ==
  /\ job = "e2e" /\ outcome # "running" /\ stack # None
  /\ stack' = None
  /\ UNCHANGED <<commit, pc, outcome, ran, core, ref, reason, inside, manifest, tested>>

(***************************************************************************)
(* The Core has a life of its own.                                         *)
(***************************************************************************)
MoveCore ==
  /\ job = "e2e" /\ outcome = "running" /\ moves < MaxMoves
  /\ \E n \in Refs, c \in Cores :
       /\ n = Trunk => c # None
       /\ remote' = [remote EXCEPT ![n] = c]
  /\ moves' = moves + 1
  /\ named' = named \cup Held(remote')
  /\ UNCHANGED <<commit, pc, outcome, ran, beside, e2e>>

\* A developer checks another commit of the Core out, between two checks.
Pull ==
  /\ job = "local" /\ outcome = "running" /\ beside # None /\ moves < MaxMoves
  /\ beside' \in DOMAIN CoreContent /\ moves' = moves + 1
  /\ UNCHANGED <<commit, pc, outcome, ran, remote, named, e2e>>

E2EStep == Resolve \/ Checkout \/ Record \/ Publish \/ Start \/ RunScenarios \/ Break

JobStep == RunCheck \/ E2EStep \/ TearDown

Next == Edit \/ Push \/ JobStep \/ MoveCore \/ Pull

\* Nobody has to push.  A job that has begun is run to its end, by the
\* runner or by timeout-minutes, and always() by the runner; a developer is
\* taken to finish as well.  RunCheck can be taken wherever a check is the
\* next step, whatever its verdict, so its fairness is stated by that and by
\* what it does to the job: it goes on, or it is over.
CheckTaken ==
  /\ \E check \in Checks : At(check)
  /\ pc' \in {pc, pc + 1} /\ outcome' \in {"running", "passed", "failed"}

Spec == Init /\ [][Next]_vars
FairSpec ==
  /\ Spec
  /\ WF_<<pc, outcome>>(CheckTaken) /\ WF_vars(E2EStep) /\ WF_vars(TearDown)
=============================================================================
