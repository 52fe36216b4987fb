---------------------------- MODULE SuiteGuards -----------------------------
(* From its environment the suite decides whether it may begin (TestMain,
   required_test.go) and each scenario whether it skips.  A skipped test
   passes, so the first decision is there to forbid the second.

   An environment is a record of the five variables that decide it:
   required, base_url, lifecycle, backup and backup_required, of
   E2E_REQUIRED and so on.  A variable is "blank" when it is not set or all
   white space, "slashes" when it has nothing but slashes beside that, and
   has a "value" otherwise. *)

Classes == {"blank", "slashes", "value"}

\* strings.TrimSpace leaves something: what the guards ask.
Given(v) == v # "blank"

\* harness.go reads a variable without the slashes at its end.
Usable(v) == v = "value"

CheckRequired(env) == Given(env.required) => Given(env.base_url)

\* Mistake: the stack is asked for once more.
CheckRequiredAgain(env) == Given(env.required) => Given(env.base_url)

CheckLifecycleRequired(env) == Given(env.required) => Given(env.lifecycle)

CheckBackupRequired(env) == Given(env.backup_required) => Given(env.backup)

Admitted(env) ==
  CheckRequired(env) /\ CheckLifecycleRequired(env) /\ CheckBackupRequired(env)

\* A scenario of the API alone, one that stops containers, and the one that
\* destroys the database, which stops containers as well.
Kinds == {"plain", "outage", "backup"}

\* New and, of the backup scenario, what it asks first.
HasStack(kind, env) ==
  Usable(env.base_url) /\ (kind = "backup" => Given(env.backup))

\* Mistake: whatever stack there is may be stopped.
MayControlAny(env) == Usable(env.base_url)

\* LifecycleControl
MayControl(env) == Usable(env.lifecycle)
=============================================================================
