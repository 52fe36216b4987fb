CONSTANTS
  core = core
  postgres = postgres
  nats = nats
  mock = mock
  Services <- MCServices
  Environments <- MCEnvironments
  Controllable <- MCControllable
  Core = core
  Database = postgres
  Mocks = {mock}
  AlterOutcomes = {"done", "lost"}
  RestoreOutcomes = {"done"}
  MaxScenarios = 2
  MaxCleanups = 2
SPECIFICATION Spec
CHECK_DEADLOCK FALSE
INVARIANT RestoresWhatItStops
