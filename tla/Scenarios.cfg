CONSTANTS
  core = core
  postgres = postgres
  nats = nats
  mock = mock
  Services <- MCServices
  Environments <- MCEnvironments
  Controllable <- MCControllable
  Core = core
  Database = postgres
  Mocks = {mock}
  AlterOutcomes = {"done", "refused", "lost", "late"}
  RestoreOutcomes = {"done", "refused", "lost", "late"}
  MaxScenarios = 2
  MaxCleanups = 2
SPECIFICATION Spec
CHECK_DEADLOCK FALSE
INVARIANTS TypeOK Blamed NothingMandatorySkipped OnlyWhenAsked
