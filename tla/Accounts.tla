------------------------------ MODULE Accounts ------------------------------
(***************************************************************************)
(* The identity directory authentik keeps in PostgreSQL, as far as         *)
(* scripts/bsystem-userctl reads and writes it: the accounts, whether they *)
(* may log in, and the BSYSTEM groups they belong to.                      *)
(***************************************************************************)

CONSTANTS
  Users,        \* usernames
  Roles,        \* the human role groups (BSYSTEM-Admins, BSYSTEM-Managers, ...)
  Admins,       \* BSYSTEM-Admins
  Services,     \* BSYSTEM-Services, the group of service identities
  Directories   \* directories authentik may hold before the first command

Groups == Roles \cup {Services}

\* A directory: who has an account, who may log in, who is in which group,
\* whose account is of type "internal", whose password is set.
Directory ==
  { d \in [accounts : SUBSET Users, active : SUBSET Users,
           member : [Users -> SUBSET Groups],
           internal : SUBSET Users, hasPassword : SUBSET Users] :
      /\ d.active \cup d.internal \cup d.hasPassword \subseteq d.accounts
      /\ \A u \in Users \ d.accounts : d.member[u] = {} }

ActiveAdminsOf(who, groups) == { u \in who : Admins \in groups[u] }

ASSUME RoleAssumption == Admins \in Roles /\ Services \notin Roles

\* The commands find a platform that someone administers: an account cannot
\* lose a status the directory never gave to anyone.
ASSUME DirectoryAssumption ==
  /\ Directories \subseteq Directory
  /\ \A d \in Directories : ActiveAdminsOf(d.active, d.member) # {}

VARIABLES accounts, active, member, internal, hasPassword

dirVars == <<accounts, active, member, internal, hasPassword>>

ActiveAdmins == ActiveAdminsOf(active, member)

InitialDirectory ==
  \E d \in Directories :
    /\ accounts = d.accounts
    /\ active = d.active
    /\ member = d.member
    /\ internal = d.internal
    /\ hasPassword = d.hasPassword

\* u may stop being an active administrator only if another one remains.
Expendable(u) == u \in ActiveAdmins => ActiveAdmins \ {u} # {}

\* At every moment someone can administer the platform: the final active
\* administrator is never disabled nor moved to another role
\* (docs/USER-ADMINISTRATION.md:115).
ActiveAdminRemains == ActiveAdmins # {}
=============================================================================
