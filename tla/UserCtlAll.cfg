SPECIFICATION FairSpec
CONSTANTS
  Users = {alice, bob}
  Sessions = {s1, s2, s3}
  Admins = admins
  Roles = {admins, managers}
  Services = services
  None = none
  Commands = {"passwd", "create", "set-role", "disable", "enable"}
  Directories <- MCTelling
INVARIANTS TypeOK DraftsHold NoWaitCycle
PROPERTIES RoleReplaced AccountsAppearWhole EveryCommandEnds
