SPECIFICATION Spec
CONSTANTS
  Users = {alice, bob}
  Sessions = {s1, s2, s3}
  Admins = admins
  Roles = {admins, managers}
  Services = services
  None = none
  Commands = {"create", "set-role", "disable", "enable"}
  Directories <- MCDirectories
SYMMETRY Symmetry
INVARIANTS IndInv ActiveAdminRemains NoWaitCycle
PROPERTIES Implements RoleReplaced AccountsAppearWhole
