----------------------------- MODULE MCScenarios ----------------------------
EXTENDS Scenarios, TLC

CONSTANTS core, postgres, nats, mock

\* The Core, the one container no scenario may stop, and two it may.
MCServices == {core, postgres, nats}
MCControllable == {postgres, nats}

Env(required, base_url, lifecycle, backup, backup_required) ==
  [required |-> required, base_url |-> base_url, lifecycle |-> lifecycle,
   backup |-> backup, backup_required |-> backup_required]

\* The jobs e2e and backup of ci.yml.
E2EJob == Env("value", "value", "value", "blank", "blank")
BackupJob == Env("value", "value", "value", "value", "value")

\* Each of them, each with a variable lost or all slashes, and what
\* developers have: nothing, a stack, and a stack they may stop.
MCEnvironments ==
  {E2EJob, BackupJob, [E2EJob EXCEPT !.required = "blank"],
   Env("blank", "blank", "blank", "blank", "blank"),
   Env("blank", "value", "blank", "blank", "blank")}
  \cup {[BackupJob EXCEPT ![v] = c] :
          v \in {"base_url", "lifecycle", "backup"}, c \in {"blank", "slashes"}}
=============================================================================
