# Formal model of bsystem-deploy

This directory specifies, in TLA+, the parts of `bsystem-deploy` whose
correctness depends on what happens at the same time, in which order, on what
fails half-way, and on what a check finds to look at. TLC checks each module on
small instances; TLAPS proves the main safety properties for every instance.

The repository deploys and tests a platform. The Integration Core, the HUB,
authentik, Redmine, Outline and Nextcloud are other programs: here they appear
only as the environment of the code that is in `src/`.

Contents: [the system](#the-system), [the plan](#the-plan),
[the modules](#the-modules), [the runs](#the-runs),
[what is proved](#what-is-proved), [what the checks found](#what-the-checks-found),
[limits](#limits).

## The system

### Components

| Component | Where | State it keeps | Operations | Status |
|---|---|---|---|---|
| User administration CLI | `scripts/bsystem-userctl` | none of its own; accounts, groups and their rows in authentik's PostgreSQL | create, passwd, set-role, disable, enable; list and show read only | modelled, proved |
| Mock fault injection | `mocks/internal/mockhttp/mockhttp.go` | one queue of faults per path, with a count of requests left | add, reset, take; the middleware around every handler | modelled, proved |
| Scenario harness | `e2e/lifecycle.go`, `e2e/harness.go` | the cleanups of the running scenario; the containers and mocks it alters | Stop, Start, Restart, InjectFault, ResetFaults, WaitReady, waitFor | modelled, proved |
| Load test | `loadtest/main.go` | a shared counter, slice of durations and error count | run, once, percentile, main's verdict | modelled, proved |
| NATS wire subscriber | `e2e/natswire.go` | a connection, a bounded channel, a reader goroutine | SubscribeNATS, readLoop, Next, Close | modelled, proved |
| Suite guards | `e2e/required_test.go`, `e2e/lifecycle.go`, `e2e/backup_test.go` | the environment | TestMain's refusals, the scenarios' skips | modelled, proved |
| Consistency checks | the eleven `scripts/check-*.py` | none; they read the repository, the rendered stacks and the Core beside it | parse, guard against an empty parse, compare, exit | modelled, proved |
| CI jobs and the compatibility record | `.github/workflows/ci.yml`, `scripts/compatibility-manifest.py` | a workspace, the checked-out Core, the manifest | resolve, check out, record, publish, run the checks, start, test, tear down | modelled, proved |
| Release pipeline | `.github/workflows/release.yml`, `scripts/image-digests.py`, `scripts/release-manifest.sh` | image tags, recorded digests, the manifest | build, record, test, scan, list, describe, verify, publish | modelled, proved |
| Mock identity provider | `mocks/cmd/mock-identity` | a map from token to principal | Put, Lookup, Public | planned |
| Mock upstream APIs | `mocks/cmd/mock-*`, `mocks/internal/fixtures` | none: fixed data | filters and pages | planned (paging) |
| Outage and outbox scenarios | `e2e/lifecycle_test.go`, `e2e/outbox_test.go` | what they have observed of the Core | a verdict | planned |
| Stage preflight, smoke tests | `scripts/stage-*.sh`, `.ps1`, `scripts/smoke-p0.sh` | counters of outcomes | checks in a fixed order, an exit code | planned (the rules) |
| Nextcloud SSO app | `nextcloud/apps/bsystem_sso` | none | log out, redirect | not modelled |
| Blueprints, compose files, dashboards, docs | `authentik/`, `*.yml`, `observability/`, `docs/` | configuration | none | not modelled |

### How they interact

- Operators run **bsystem-userctl**, possibly several at once and while the HUB
  changes accounts too. Each invocation pipes a Python program into `ak shell`
  in the authentik container. Invocations meet only in the database, through row locks
  and through what is committed.
- A **scenario** drives the stack through the harness: HTTP calls to the Core, faults
  posted to the **mocks**, `docker compose` to stop and start containers. The mocks
  see the platform's requests concurrently with the harness's posts and resets.
  Scenarios run one after another and share everything.
- The **NATS subscriber** is opened by a scenario before it triggers an event.
  A goroutine reads the connection and passes messages to the scenario.
- The **load test** runs workers that share a counter and a slice.
- **CI jobs** run the consistency checks on a commit, one job in one workspace.
  The e2e job also resolves a ref of the Integration Core, checks it out, records the
  pair, starts the stack and runs the suite. The Core's refs move meanwhile. Three of
  the checks also read the Core, if one is checked out *beside* the repository.
- **The release pipeline** works on image tags that the whole daemon shares: every
  step after the build names a tag and gets the image tagged so by then.
- **Every green run** rests on guards against success for want of work: TestMain's for
  the suite, "nothing was found to check" in each script.

### What is hard, and what correctness means

| Component | Hard behaviour | It is correct when |
|---|---|---|
| User CLI | concurrent transactions under READ COMMITTED, lock order, stale rows written back, processes that die between statements | an active administrator always remains; a role replaces the previous one; accounts appear whole; sessions never wait in a circle and every command ends; the commands look atomic |
| Fault injection | requests, retries, posts and resets at once; clients that hang up; counts at zero and one | each request is judged once, at one instant, by the oldest pending fault of its path, else the oldest catch-all; a fault hits exactly as many requests as asked, none after a reset |
| Harness | calls that take effect although they report an error, or take effect late; cleanups that fail; `go test -timeout` | nothing outside the allowlist is touched; what is left stopped or faulted has been reported by the scenario that left it |
| Load test | workers racing for the last requests, results read without a lock | each request measured once, figures about exactly the requests made, the run ends |
| NATS subscriber | events during the handshake, a full channel, a scenario that does not read, a lost connection | nothing published after the subscription returned is lost while connected, unless the channel was full; order kept; the reader never waits for the scenario |
| Suite guards | two readings of each variable, decided in two places; a skipped test passes | a suite told it is mandatory skips nothing; no container is stopped unasked |
| Consistency checks | an empty parse, a file that is not there, the order of findings and guards, bounds of address ranges and of file headers | a check that passes has looked at something and found what it is for; it does not turn away a repository that keeps its promises |
| CI record | branches that move between two steps, refs that match by their tail, steps that fail | the manifest names the commit that was tested; a ref asked for is tested or the job fails; the stack is torn down |
| Release pipeline | tags moved by anybody between any two steps, two containers made one after the other | what is described, scanned, listed and tested is one build |

## The plan

Most important behaviour first; each module is checked before the next begins.

| Order | Module | Question | State |
|---|---|---|---|
| 1 | `Accounts`, `UserDirectory` (abstract), `UserCtl` | Do concurrent user commands keep an administrator, replace roles, and look atomic? | done, proved |
| 2 | `Faults`, `FaultPlan` (abstract), `MockFaults` | Does fault injection under concurrency hit what was asked, and only that? | done, proved |
| 3 | `Scenarios` | Is what a scenario leaves broken always reported? | done, proved |
| 4 | `LoadRun` | Are the load figures about the requests that were made? | done, proved |
| 5 | `NatsSubscriber` | Can a scenario rely on the events it waits for? | done, proved |
| 6 | `SuiteGuards`, in `Scenarios` | Over every environment: can a required run pass by skipping? | done, proved |
| 7 | `ReleasePipeline` | Is the image described the one tested and scanned? | done, proved |
| 8 | `Verdicts`, `NameChecks`, `StackChecks`, `DocChecks`, `TreeChecks`, `CiJobs`, `Promises` | What does a green job promise, and of which Core? | done, proved |
| 9 | `OutboxVerdict` | Can the outage scenarios' verdicts be right or wrong by a delivery of another scenario? | later |
| 10 | `Principals`, `Paging` | The identity directory under concurrent replacement; the walk over a collection page by page, as functions against a reference | later |
| 11 | `StageRules` | The preflight's URL rules and the smoke test's counting, as operators over classes of inputs | later |

Composition: `UserCtl` EXTENDS `Accounts` and instantiates `UserDirectory`;
`MockFaults` EXTENDS `Faults` and instantiates `FaultPlan`. `Scenarios` uses what
`MockFaults` promises in its simplest form (a fault is queued, consumed, or cleared)
instead of composing with it: its question is what a scenario leaves behind,
not which request a fault hits. `Scenarios` EXTENDS `SuiteGuards`, which says whether the
suite begins and which of its scenarios run. `CiJobs` EXTENDS the four modules of checks,
each of which EXTENDS `Verdicts`; `Promises` EXTENDS `CiJobs` and states what it is all
for without using the scripts' way of finding out.

Every safety and action property that a run checks has its theorem; the liveness
properties stay with TLC.

## The modules

Every module says at its top what it models. A definition named as a *Mistake*
is a wrong variant of the definition that follows it; the specifications do not use
it, and it exists to see that a property notices (see `PROJECT.json`, "mutants").

### Accounts, UserDirectory, UserCtl

`Accounts` is the directory as authentik stores it: which usernames have an account,
`is_active`, the groups, `type = internal`, whether a password is set. Usernames,
the human roles and `BSYSTEM-Services` are model values. `UserDirectory` is the
promise of `docs/USER-ADMINISTRATION.md`, one atomic action per command.

`UserCtl` is the script. One invocation is a session, at the label `pc[s]`. Each
action is one SQL statement, or the COMMIT:

| Code | Actions |
|---|---|
| `cmd_create` | `CreateCheck`, `CreateInsert`, `CreateSave`, `CreateJoin`, `CreateCommit` |
| `cmd_passwd` | `PasswdRead`, `PasswdSave` |
| `cmd_set_role` | `SetRoleLockGroup`, `LockUser`, `Decide`, `Query`, `Scan`, `Remove`, `Add`, `Commit` |
| `cmd_disable` | `DisableLockGroup`, `LockUser`, `Decide`, `Query`, `Scan`, `Save`, `Commit` |
| `cmd_enable` | `EnableRead`, `EnableSave` |
| a killed process, a lost connection | `Crash`, at any statement |

The database is PostgreSQL under READ COMMITTED, as authentik configures it:
`groupLock`, `groupShare` and `rowLock` are the row locks (`FOR UPDATE`, the
`FOR KEY SHARE` of a foreign key, an UPDATE); `draft` is what an open transaction
has written and nobody else sees. The guard's query (`SELECT ... FOR UPDATE` of the
active administrators) is a snapshot of the rows followed by a lock on each, in any
order, with the condition evaluated again on the locked row, as PostgreSQL does.
`sawActive` is the stale `is_active` that `user.save()` writes back in `passwd`.

### Faults, FaultPlan, MockFaults

`Faults` holds what a client can observe: the faults accepted so far, numbered in
that order, the last reset, and for each request its path, the fault that
hit it and its outcome. `FaultPlan` is the promise of `mocks/README.md`: each
request is judged once by the oldest pending fault of its path, else the oldest
catch-all. `MockFaults` adds the code's own state, one queue per key and the
count of requests left (`Faults` in `mockhttp.go`). `Add`, `Reset` and `Take` hold
the mutex for all they do, so each is one action; the stages of a request's
goroutine in `injectFaults` interleave with all others.

### SuiteGuards, Scenarios

`SuiteGuards` is what the suite makes of its environment, five variables of which
each is blank, has nothing but slashes, or has a value. The guards (`CheckRequired`,
`CheckLifecycleRequired`, `CheckBackupRequired`) ask whether anything is left after
trimming white space; the harness asks whether anything is left after trimming slashes too.

`Scenarios` begins with `TestMain`, which may refuse, and each scenario may skip (`New`,
`LifecycleControl`, the backup scenario's own test), which leaves a trace in
`skipped`. A scenario that runs stops a container or queues a fault, and undoes it
from a cleanup. To the question asked here the two are the same, and one variable,
`altered`, holds both; `blame` says which scenario did it. A call to `docker compose` or
to a mock's control endpoint ends in one of four ways: done, refused, carried out
although the caller sees an error (`lost`), or carried out later (`late`, a call that
outlives `exec`'s or the HTTP client's timeout). `cleanups` is `t.Cleanup`'s stack;
`TimeOut` is `go test -timeout`, which runs no cleanup. The allowlist (`controllable`)
is the guard of `Stop`, `Start`, `Restart`.

### LoadRun

`main`'s loop over the targets, `run`'s workers with the shared `index`, `durations`
and `errors`, `percentile` with its integer arithmetic, and the verdict. A worker
claims, calls, counts: three actions, because other workers run between them.

### NatsSubscriber

The connection is a queue each way. `Dial`, `SendSub`, `SendPing`, `Await` and
`Abandon` are `SubscribeNATS`; `ReadMessage`, `ReadControl`, `ReadError` are
`readLoop`; `Take`, `TellClosed`, `TellTimeout` are `Next`; `Close` is `Close`.
`Handle`, `Publish`, `Ping` and `Cut` are the broker and the network, external to
this repository, modelled from what the client relies on: commands are handled in the
order sent. A message is its number, its payload and subject are left out.

### Verdicts, NameChecks, StackChecks, DocChecks, TreeChecks

A verdict is what a script prints and returns, reduced to what matters: findings, a
refusal to judge, a note that a comparison was skipped. Each check is one operator from
the facts its patterns extract to its verdict, in the order of the script, early
returns included. A *repository* is a record of such facts: the groups of the blueprint,
the services of a stack as Compose renders it, the links of a document as segments, the
first eight bytes of a tracked file. Regular expressions, YAML and Git are not modelled;
what a pattern lets through is, where a property depends on it.

| Module | Scripts |
|---|---|
| `NameChecks` | `check-identity-groups`, `check-global-ids`, `check-scan-coverage`, `check-service-identity-scopes` |
| `StackChecks` | `check-hardening`, `check-stage1-overlay` |
| `DocChecks` | `check-config-docs`, `check-doc-links`, `check-documented-endpoints` |
| `TreeChecks` | `check-artifacts`, `check-stage-secrets` |

### CiJobs, Promises

A behaviour of `CiJobs` is one job on one commit: `Edit` changes facts of a
repository that passes, `Push` starts a job (or a developer's four checks by hand), and
the steps run in the workflow's order until one fails. `Resolve`, `Checkout`,
`Record`, `Publish`, `Start`, `RunScenarios`, `TearDown` are the steps of e2e;
`LsRemote` matches by the tail of a ref, as `git ls-remote` does. `MoveCore`
moves, creates or deletes a ref of the Core between any two steps, `Pull` is the
developer checking out another commit. `inside` is the Core in the workspace, `beside`
the one the scripts look for.

`Promises` says what each check is for: that containers give nothing away, that
addresses are in ranges (by their bits, where the script compares numbers),
that an endpoint instantiates a path segment by segment, that a host is one the RFCs keep
(`ForDocumentation`) or one that merely passes for it (`TakenForDocumentation`). A verdict is
held against four questions. `Substance`: was there anything to look at, when a check passed?
It is asked of the guarded checks (`Guarded`): those of the links and the secrets have no
guard, and that of the endpoints has one only where there is a Core. `Comparable`: was there
something to compare with? A check that passes has compared exactly then. `Input`: could the
check have said what is wrong? Then a broken promise is shown, and no early return hides it.
`NoFalseAlarm`: a repository that keeps the promises passes.

### ReleasePipeline

Each step of the job that touches an image is an action; `Move` lets anybody tag, retag or
remove an image between any two. `Up` makes the containers one by one. `back`
remembers the tags that have returned to an image they once left, the recorded one or another:
`verify` compares two instants and cannot see the former, and nothing is said of the latter either.

## The runs

| Run | Bounds | Distinct states | What it shows |
|---|---|---|---|
| `userctl_guard` | 3 sessions, 2 users, 2 roles, every starting directory | 93,248 (with symmetry) | without `passwd`: an administrator remains, the inductive invariant holds, the commands implement `UserDirectory` |
| `userctl_all` | the same with all five commands, under fairness, from the directories `MCTelling` | 198,266 | no circular wait, open transactions will commit what was true when they read it (`DraftsHold`), roles replaced whole, accounts appear whole, every command ends |
| `userctl_passwd` | as `userctl_guard`, all five commands | stops at the violation | expected violation: `passwd` can leave no active administrator |
| `mock_faults` | 3 requests, 2 accepted faults, 9 bodies, 3 paths | 672,509 (with symmetry) | the queues agree with the history; `MockFaults` implements `FaultPlan` |
| `scenarios` | 11 environments, 2 scenarios of at most 2 alterations, 3 services, 1 mock, all call outcomes | 1,198,064 | what is left broken was reported; nothing outside the allowlist is touched, nothing is stopped unasked; a mandatory suite skips nothing |
| `scenarios_restore` | a stop may be lost, a start never | stops at the violation | expected violation: a service stays down after the scenario |
| `load_run` | up to 2 workers, 3 requests, 2 targets, 3 latencies | 276,487 | claims are exclusive, the report is exact, the run ends |
| `load_run_failures` | 2 workers, 2 requests, 1 target | stops at the violation | expected violation: the figures include failed requests |
| `nats_subscriber` | channel of 2, 5 messages, 2 pings | 155,760 | delivery, order, a message is dropped only when it finds the channel full (`DropsOnlyWhenFull`), the reader never blocks |
| `ci_jobs` | a commit 2 edits at most from one that passes (1 for the checks by hand, none for e2e), through each job; 2 commits of the Core, 2 moves of its refs | 169,302 | a green job means what its checks are for; no guarded check passes for want of input, none skips a comparison it could make, none with its input hides what is wrong, none fails for nothing; the record names what was tested; the job ends and is torn down |
| `ci_core_compared` | the same | stops at the violation | expected violation: e2e passes without comparing anything with the Core it checked out |
| `release_pipeline` | 3 identities, 2 containers, 3 moves of the tags | 224,497 | what passed was tested, scanned, listed and described as one build; the job ends without a container |

Why the bounds are enough:

- **UserCtl**. Two users are the smallest directory in which one is the last
  administrator because of what happens to the other. Three sessions let a pair race while
  a third changes what they read. Starting directories include service identities,
  accounts with no role and with several. No table row is
  created besides those of `Users`, so nothing grows.
  `MCTelling`, small enough for liveness without symmetry, has one active administrator,
  on whom the guard insists, and two, one of whom may hold another role besides.
- **MockFaults**. Two queued faults can compete on one key and on two; three requests exhaust
  a fault of two and see what is left. `MaxFaults` is a guard of `AddFault` only.
- **Scenarios**. A culprit and its successor; three scenarios were checked once
  (10.5 million states) and showed nothing new. `MaxCleanups` is a guard of
  the actions that alter.
- **SuiteGuards**. The eleven environments are those in which a guard and a reading of
  the harness can differ: each switch alone and with what it requires, and the
  values of nothing but slashes that a required variable must not have.
- **CiJobs**. Each fact has the values that sit on either side of a line the script
  draws (172.16, 172.31, 172.32; a header with and without the NUL; a prefix
  seeded and not documented). Two edits are needed where one hides the other, as a
  row that comes twice or a guard that returns before the finding;
  `MaxEdits` is set for each job, to what its checks can relate. Two moves of the Core's
  refs change a ref between resolution and checkout and again before the record.
- **ReleasePipeline**. Three moves are enough to leave the recorded image and come back, and
  to make the two containers differ; a third identity is neither the one recorded
  nor the one moved to.
- **LoadRun**. Fewer, as many and more requests than workers, and a second target that
  must start from zero.
- **NatsSubscriber**. The channel of 64 is scaled to 2; five messages fill it, overflow it and
  follow a message that was taken out.

`CHECK_DEADLOCK FALSE` is used where the system stops by itself: the suite ends or is killed, the
load run exits, a job ends, the subscriber is closed and the broker has nothing left to publish.
`UserCtl` has an explicit stuttering step for the state in which all commands have
ended, so that a deadlock between sessions is still found; `MockFaults` can always reset.

### Fairness

- `UserCtl`: weak fairness of each session's next statement. A process that runs keeps
  going and PostgreSQL grants a lock that stays free. No operator has to run a
  command and no process has to die. Weak fairness is enough because a lock someone waits for
  is freed when its holder's command ends, and `NoWaitCycle` rules out a circle;
  with finitely many invocations nobody overtakes for ever.
- `LoadRun`: weak fairness of `main` and of each worker. Goroutines are scheduled, and the HTTP
  client's `-timeout` ends every request.
- `NatsSubscriber`: weak fairness of `readLoop` only. The broker may be silent, the
  scenario may never read.
- `CiJobs`: weak fairness of the job's steps and of the teardown. GitHub runs
  the steps one after the other, ends one that hangs by `timeout-minutes`, and runs
  `if: always()` steps whatever came before. Nobody has to push or move a ref. The
  fairness of a check is stated on `pc` and `outcome` (`CheckTaken`).
- `ReleasePipeline`: weak fairness of the job's steps, for the same reason; tags need not move.

Symmetry is used only in runs without liveness properties.

## What is proved

TLAPS checks every proof; no step is assumed. The assumptions are the named
ASSUMEs of the modules: the admin group is a role and the service group is none, the starting
directories have an active administrator, `MatchAll` is no path, requests are finitely
many, posted bodies are integers, services and mocks are disjoint, workers are finitely
many, main is a branch of the Core, a channel has room for one message, images and
containers are finitely many. Of the repository a check reads only what the scripts' patterns
guarantee is assumed: rows come in a sequence, a documented port is a number and an
address is four numbers (`AreRows`, `AreDocs`).

| Theorem | Says |
|---|---|
| `UserCtlProofs!TypeCorrect`, `LocksHeld`, `NoDeadlock` | for all five commands: types, who holds which lock, no circular wait |
| `UserCtlProofs!Drafts`, `RoleChange`, `AccountsWhole` | for all five commands: what an open transaction has drafted is still what the account's groups call for; a committed change of groups replaces the human roles by one and reaches no service identity; an account appears with its password and its one role, wherever the process dies |
| `UserCtlProofs!Inductive`, `LastAdminSafe`, `Refinement` | when `passwd` is not run: an active administrator always remains, and the commands implement `UserDirectory` |
| `MockFaultsProofs!TypeCorrect`, `QueuesRight`, `Refinement` | the queues agree with the history; `MockFaults` implements `FaultPlan` |
| `ScenariosProofs!TypeCorrect`, `LeftoversAreReported` | only allowed parts are touched; what is left broken was reported |
| `ScenariosProofs!MandatoryScenariosRun`, `StopsAreAskedFor` | in every environment: a mandatory suite skips nothing; no container is stopped unless the switch for it is set |
| `LoadRunProofs!TypeCorrect`, `ClaimsExclusive`, `ReportIsExact` | each request is claimed once; when `run` reports, all are measured, the errors are those that failed, p50, p90 and p99 are percentiles of the measured durations and the last figure is their maximum |
| `NatsSubscriberProofs!TypeCorrect`, `Delivered`, `DroppedOnlyWhenFull` | for any capacity and any number of messages: what is published after `SubscribeNATS` returned arrives once and in order, or was dropped; and a step drops a message only when the channel is full at that step |
| `CiJobsProofs!TypeCorrect`, `NamesDoAgree`, `StacksAreContained`, `TreeIsClean` | for every repository, whatever its size: a job that passed means that groups, prefixes, identities and scanned modules agree, that the stacks are contained, that the tree holds no program, no literal value and no host but those allowed, kept by the RFCs, or taken for kept (item 5 below) |
| `CiJobsProofs!DocsDoLead` | for every documentation: a job that passed means that its ports, services, variables, links, paths and endpoints are there, and that nobody is reached at an address it gives |
| `CiJobsProofs!VerdictsSaySomething` | for every repository and Core: a guarded check passes only with something to look at; one that passes has compared exactly when it could; one that has its input and shows nothing leaves its promise kept |
| `CiJobsProofs!NobodyIsTurnedAway` | for every repository: no check fails when it had what it must look at and what it promises holds |
| `CiJobsProofs!PairIsRecorded`, `RequestIsHonoured` | however the Core's refs move: the manifest names the commit that was tested; a ref that was asked for is tested, or the job fails |
| `ReleasePipelineProofs!TypeCorrect`, `OneArtifactThroughout` | however the tags move: a candidate that passes was tested, scanned, listed and described as one build, but for a tag that came back |

The arguments:

- **UserCtl**. `LockInv` says that the sessions inside `set-role` and `disable` exclude one another
  through the group row, and that a create locks only the row it inserts. So every wait goes
  towards the holder of the group row or towards a create, which waits for nobody that
  waits for it. `IndInv` adds `ReadInv`: what an open transaction has read and
  judged (the user is expendable, is no service identity, its groups) still holds,
  because only the holder of the group row removes an administrator.
  `ActiveAdminRemains` alone is not inductive: between the guard and the COMMIT it is
  `ReadInv` that carries the guard's result. `passwd` breaks exactly this, which is the
  finding below. It does not break `DraftsHold`, the part of `ReadInv` about groups: a role
  change holds its user's row from reading the groups to committing them, and `passwd` writes no
  group. `RoleChange` and `AccountsWhole` rest on that part alone, so they hold for all five commands.
- **MockFaults**. `QueueInv` relates the queues to the history: each queue is the increasing
  sequence of the pending faults of its key, each count is the fault's times less its hits. Then
  the head of the queue is the oldest pending fault, which is what `FaultPlan`
  asks for; the refinement maps the code's stages after the judgement to `judged`.
- **Scenarios**. `Accounted` says why `Blamed` holds: whatever the running scenario altered
  without having been reported has a cleanup that will restore it, and a call that was given up on
  belongs to a scenario already reported. For the environment, `Guarded` says that
  a suite past TestMain was admitted, that a scenario which stops containers is past
  `LifecycleControl`, and that what is stopped, or may still be by a call that comes
  late, was asked for under the switch.
- **LoadRun**. `Ledger` follows each request: beyond the counter it is untouched, behind it
  it is measured or in the hands of the worker that claimed it. `Order` adds that a worker
  returns only when the counter has passed the last request. When all workers have
  returned, nothing is left in anybody's hands. The slice the report is made of is a
  rearrangement in ascending order (`Sorted`, by a bijection of its places, as no recursive
  sort could be proved about). Counting places through that bijection gives the rank of
  the value at each place (`OrderStatistic`), and the arithmetic of `Percentile` picks
  the place of the percentile (`PercentileRank`), the last one included.
- **NatsSubscriber**. `Registration` follows the two commands of the handshake: the broker
  handles them in order, so a PONG comes after the subscription was taken or behind its
  rejection, and `SubscribeNATS` reads the rejection first. `Ledger` says that only what
  was published is in flight, passed on or dropped. `Delivery` alone is not
  inductive, because before the handshake ends it says nothing of the subscription.
  `DroppedOnlyWhenFull` goes step by step (`StepAccounts`): most steps take nothing away from what is
  on its way or passed on (`NothingLost`), `Next` moves a message from the channel to the
  scenario, and `ReadMessage` drops one at a full channel only.
- **CiJobs**. `Honest` says that what the job remembers of a check (`ran`) is the verdict
  of the commit it runs on, and that past a check's step it has passed. So a job that
  passed has passed all its checks, and each promise follows from the text of its check
  (`Verdict`, guards and early returns included) by one lemma for each check, and the
  verdict from the promise by another. Two promises are stated otherwise than the script
  decides them: that the bytes it compares are the bits of the reserved ranges (`AddressJudged`,
  for which `SameByte` rebuilds a byte from its bits), and that the two spellings it
  looks an endpoint up under are what instantiates a served path. Of several rows of
  one identity there is a last one (`LastPlace`, from the well-foundedness of the naturals), and of
  several seeding migrations a first one (`SeedThere`). The script's pattern for reserved hosts is
  taken apart (`TakenApart`) into what the RFCs keep and what they do not. That no early
  return hides a finding (`NothingHidden`) is one case for each check: where the findings come
  before the guards they are shown, and the guards that come first ask for no more than `Input`. `Paired` does the same for the
  Core: what is recorded and what is in the stack is what is in the workspace, and it
  was what the ref named at some moment since the push.
- **ReleasePipeline**. `Traced` says that the identity recorded for an image is the one
  tagged now or one the tag has been moved off; and that, while it is tagged and the
  tag has never come back, whatever the job holds of that image (run, tested, scanned,
  listed) is the same identity. `verify` finds exactly that situation, and what was held then
  does not change afterwards. `Done` says which steps have left their evidence by then.

## What the checks found

1. **`passwd` can undo a concurrent `enable`** (`userctl_passwd`,
   `scripts/bsystem-userctl:447`). `cmd_passwd` reads the user, and `user.save()` without
   `update_fields` writes every column back, `is_active` included. An account enabled in between
   is disabled again, and if the other administrator was disabled or moved meanwhile, none is
   left, although `docs/USER-ADMINISTRATION.md:115` says that the CLI prevents it. The
   converse re-enables a disabled account.
2. **A failed stop is not undone** (`scenarios_restore`, `e2e/lifecycle.go:164`). `Stop`
   registers its cleanup after `docker compose stop` has succeeded. A stop that takes
   effect and reports an error leaves the service down, although `lifecycle.go:153` and
   `lifecycle_test.go:90-92` say it is restored. `Blamed` holds all the same: the scenario
   is reported.
3. **Load percentiles include failed requests** (`load_run_failures`,
   `loadtest/main.go:127`). The message of `main.go:96` says the opposite.
4. **The Core is checked out where no check looks** (`ci_core_compared`,
   `scripts/check-global-ids.py:30`, `.github/workflows/ci.yml:278`). The e2e job
   checks the Integration Core out inside its workspace; the three scripts that compare
   with it look beside the repository, print a note and pass. `ci.yml:317-321` and
   `334-336` say the comparison happens here. The pair recorded and tested is right all the same.
5. **Hosts that are not reserved pass for reserved** (`TakenForDocumentation`, no run of its own;
   `scripts/check-stage-secrets.py:50-52`). The comment above the pattern (47-49) and the
   docstring (12-14) speak of the names RFC 2606 and RFC 6761 reserve, and of `example.com`,
   `.org` and `.net`. The pattern lets each of its five words stand before `com`, `org` or
   `net`: `test.com`, `foo.local.net` and `localhost.org` pass, and can be somebody's. In
   `ci_jobs` a commit that writes `https://test.com` down passes. So `TreeClean` does not promise that no host
   of somebody's is written down; it names this exception.

## Limits

- Liveness (`EveryCommandEnds`, `Ends`, `NeverBlocks`, `JobEnds`, `PipelineEnds`) is
  model-checked only: the prover does not handle fairness and ENABLED.
- `SaysSomething` asks for `Substance` only of the checks that have a guard. Those of the links and of the
  secrets pass when they looked at nothing, and that of the endpoints passes without the Core;
  the comparisons with the Core are made only where there is one, and that e2e, which has one,
  makes none is item 4 above (`CoreCompared`). `Input` leaves out what two scripts report only
  after a guard of their own (the early returns below).
- A `docker compose down` that fails is not modelled: `TearDown` in `CiJobs` and the step `down` in
  `ReleasePipeline` are taken to succeed, so `JobEnds` and `PipelineEnds` say that the
  teardown is reached, whatever failed before it.
- `NoFalseAlarm` is relative to what `Promises` says, which grants the scripts some of the
  imprecisions listed below: the later seeding migrations and the earlier rows of an identity do
  not count, a literal is what the script's pattern takes for one, and an endpoint has to be
  spelled as it is served.
- `ActiveAdminRemains` and `Implements` are proved without `passwd`, which refutes them.
- Two properties are as weak as the code. `OneArtifact` excepts a tag that left the
  recorded image and came back, which `verify` cannot notice; and it says nothing of
  a test of the HUB's image, which is in no stack although `release.yml:3` and `247` speak of
  the tested image being the scanned one. `NothingMandatorySkipped` takes
  variables with a value: `E2E_BASE_URL` or `E2E_LIFECYCLE` of nothing but slashes passes
  TestMain's guards, and the scenarios then skip; and `E2E_BACKUP_REQUIRED` without
  `E2E_REQUIRED` lets the backup scenario skip for want of a stack.
- Met while reading, without a run of their own. *Resolution*: a commit given as
  `core_ref` is refused although `ci.yml:14` allows "branch, tag or SHA"; `team/feature`
  matches a search for `feature`, and the checkout then fails instead of falling back.
  *Early returns*: `check-config-docs.py`, `check-artifacts.py` and
  `check-identity-groups.py` print their "nothing found" message before, and instead
  of, findings they have made. *Imprecision*: a missing seed directory is
  taken for a missing Core (`check-global-ids.py:55`); only the first migration that seeds groups
  is read; of two rows of one
  identity the last counts; `check-doc-links.py` and `check-stage-secrets.py` do not
  notice that they looked at nothing; the checks of documents and of secrets judge
  some hosts and addresses differently. No job hardens the stage and stage 1 overlays combined.
- The backup job (`ci.yml:386-462`) resolves the Core for itself, without `core_ref` and
  without a record; it is not modelled, nor are the jobs that format, vet and lint.
  The scripts' command lines (`--from-file`, `--rendered`) are taken as CI gives them.

- The HUB's own account mutations, authentik's web interface, the Integration Core's
  retries and its outbox are other programs. `docs/USER-ADMINISTRATION.md` describes an advisory
  lock of the HUB that the CLI does not take; what the two do together is not modelled.
- A crash of PostgreSQL itself is not modelled: its durability is taken for granted.
- Not modelled because there is no behaviour to check: blueprints, compose files,
  dashboards, the SSO app (a redirect), formatting and messages everywhere.
- Planned and not yet modelled: modules 9 to 11 of the plan, and the hazards
  `PROJECT.json` lists with a note.
