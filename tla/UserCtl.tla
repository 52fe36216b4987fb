------------------------------ MODULE UserCtl -------------------------------
(***************************************************************************)
(* scripts/bsystem-userctl: operators run its commands at the same time    *)
(* against one authentik database.  A session is one invocation: one       *)
(* command, run by a Python process in the authentik container.  Each      *)
(* action is one SQL statement (or COMMIT), under PostgreSQL's READ        *)
(* COMMITTED isolation: a statement sees what is committed when it runs;   *)
(* SELECT ... FOR UPDATE and UPDATE wait for a row another transaction     *)
(* has locked; the writes of an open transaction are seen by no other      *)
(* session and vanish when it fails or its process dies.                   *)
(*                                                                         *)
(* A command line refused before the database is reached (unknown role,    *)
(* bad username, empty or unequal passwords) starts no session.  The       *)
(* read-only commands list and show write nothing and take no lock.        *)
(***************************************************************************)
EXTENDS Accounts, FiniteSets, Naturals

CONSTANTS
  Sessions,     \* invocations of the script
  Commands,     \* the commands operators run: a subset of AllCommands
  None          \* no session

AllCommands == {"create", "passwd", "set-role", "disable", "enable"}

ASSUME CommandAssumption == Commands \subseteq AllCommands
ASSUME NoneAssumption == None \notin Sessions

VARIABLES
  pc,           \* the next statement of each session
  job,          \* its command and arguments
  sawActive,    \* the sessions that have read is_active = true to write it back
  scan,         \* rows its guard query has found and not locked yet
  counted,      \* rows that query has locked and returned
  draft,        \* the groups of its user inside its open transaction
  groupLock,    \* holder of the BSYSTEM-Admins row, FOR UPDATE
  groupShare,   \* holders of the BSYSTEM-Admins row, FOR KEY SHARE
  rowLock       \* holder of each user row

sessionVars == <<pc, job, sawActive, scan, counted, draft>>
lockVars == <<groupLock, groupShare, rowLock>>
vars == <<dirVars, sessionVars, lockVars>>

Ended == {"done", "refused"}

Labels ==
  {"new"} \cup Ended
  \cup {"crCheck", "crInsert", "crSave", "crJoin", "crCommit"}
  \cup {"pwRead", "pwSave", "enRead", "enSave"}
  \cup {"srGroup", "srUser", "srDecide", "srQuery", "srScan",
        "srRemove", "srAdd", "srCommit"}
  \cup {"dsGroup", "dsUser", "dsDecide", "dsQuery", "dsScan",
        "dsSave", "dsCommit"}

Running(s) == pc[s] \notin {"new"} \cup Ended

Jobs == [op : AllCommands, user : Users, role : Roles]

DirectoryOK ==
  /\ accounts \subseteq Users
  /\ active \subseteq Users
  /\ internal \subseteq Users
  /\ hasPassword \subseteq Users
  /\ member \in [Users -> SUBSET Groups]

SessionsOK ==
  /\ pc \in [Sessions -> Labels]
  /\ job \in [Sessions -> Jobs \cup {None}]
  /\ \A s \in Sessions : IF Running(s) THEN job[s] \in Jobs ELSE job[s] = None
  /\ sawActive \subseteq Sessions
  /\ scan \in [Sessions -> SUBSET Users]
  /\ counted \in [Sessions -> SUBSET Users]
  /\ draft \in [Sessions -> SUBSET Groups]
  /\ groupLock \in Sessions \cup {None}
  /\ groupShare \subseteq Sessions
  /\ rowLock \in [Users -> Sessions \cup {None}]

TypeOK == DirectoryOK /\ SessionsOK

Init ==
  /\ InitialDirectory
  /\ pc = [s \in Sessions |-> "new"]
  /\ job = [s \in Sessions |-> None]
  /\ sawActive = {}
  /\ scan = [s \in Sessions |-> {}]
  /\ counted = [s \in Sessions |-> {}]
  /\ draft = [s \in Sessions |-> {}]
  /\ groupLock = None
  /\ groupShare = {}
  /\ rowLock = [u \in Users |-> None]
-----------------------------------------------------------------------------
(* Helpers *)

User(s) == job[s].user
Role(s) == job[s].role

Goto(s, label) == pc' = [pc EXCEPT ![s] = label]

Free(u, s) == rowLock[u] \in {None, s}

\* Mistake: the transaction is left open, and keeps the group row.
FinishKeepsGroup(s, outcome) ==
  /\ Goto(s, outcome)
  /\ job' = [job EXCEPT ![s] = None]
  /\ sawActive' = sawActive \ {s}
  /\ scan' = [scan EXCEPT ![s] = {}]
  /\ counted' = [counted EXCEPT ![s] = {}]
  /\ draft' = [draft EXCEPT ![s] = {}]
  /\ groupShare' = groupShare \ {s}
  /\ rowLock' = [u \in Users |-> IF rowLock[u] = s THEN None ELSE rowLock[u]]
  /\ UNCHANGED groupLock

\* COMMIT or ROLLBACK of whatever the session has open, and its end.
Finish(s, outcome) ==
  /\ Goto(s, outcome)
  /\ job' = [job EXCEPT ![s] = None]
  /\ sawActive' = sawActive \ {s}
  /\ scan' = [scan EXCEPT ![s] = {}]
  /\ counted' = [counted EXCEPT ![s] = {}]
  /\ draft' = [draft EXCEPT ![s] = {}]
  /\ groupLock' = IF groupLock = s THEN None ELSE groupLock
  /\ groupShare' = groupShare \ {s}
  /\ rowLock' = [u \in Users |-> IF rowLock[u] = s THEN None ELSE rowLock[u]]

\* raise RuntimeError: the transaction, if any, is rolled back.
Refuse(s) == Finish(s, "refused") /\ UNCHANGED dirVars

\* Mistake: the group row is read without FOR UPDATE.
ReadAdminGroup(s, next) ==
  /\ Goto(s, next)
  /\ UNCHANGED <<dirVars, job, sawActive, scan, counted, draft, lockVars>>

\* SELECT ... FOR UPDATE of the BSYSTEM-Admins row.
LockAdminGroup(s, next) ==
  /\ groupLock = None /\ groupShare = {}
  /\ groupLock' = s
  /\ Goto(s, next)
  /\ UNCHANGED <<dirVars, job, sawActive, scan, counted, draft, groupShare, rowLock>>

\* qs.count() must be 1, then qs.get() locks the user row.
LockUser(s, next) ==
  \/ User(s) \notin accounts /\ Refuse(s)
  \/ /\ User(s) \in accounts
     /\ Free(User(s), s)
     /\ rowLock' = [rowLock EXCEPT ![User(s)] = s]
     /\ Goto(s, next)
     /\ UNCHANGED <<dirVars, job, sawActive, scan, counted, draft, groupLock, groupShare>>

\* The guard query starts: its snapshot fixes the rows it will lock.
QueryAdmins(s, next) ==
  /\ scan' = [scan EXCEPT ![s] = ActiveAdmins]
  /\ counted' = [counted EXCEPT ![s] = {}]
  /\ Goto(s, next)
  /\ UNCHANGED <<dirVars, job, sawActive, draft, lockVars>>

\* It locks the rows one by one in no particular order, and returns those
\* that are still active administrators once locked.
LockAdminRow(s) ==
  \E u \in scan[s] :
    /\ Free(u, s)
    /\ rowLock' = [rowLock EXCEPT ![u] = s]
    /\ scan' = [scan EXCEPT ![s] = @ \ {u}]
    /\ counted' = [counted EXCEPT ![s] = @ \cup ({u} \cap ActiveAdmins)]
    /\ UNCHANGED <<dirVars, pc, job, sawActive, draft, groupLock, groupShare>>

\* Mistake: off by one, the guard does not count the user itself.
NoActiveAdmin(s) == Cardinality(counted[s]) < 1

LastActiveAdmin(s) == Cardinality(counted[s]) <= 1

\* len(active_admins) <= 1 refuses; otherwise the command goes on.
JudgeAdmins(s, next) ==
  /\ scan[s] = {}
  /\ \/ LastActiveAdmin(s) /\ Refuse(s)
     \/ /\ ~LastActiveAdmin(s)
        /\ Goto(s, next)
        /\ UNCHANGED <<dirVars, job, sawActive, scan, counted, draft, lockVars>>

-----------------------------------------------------------------------------
(* An operator runs the script: normalize_role, the prompts, main. *)

FirstLabel(op) ==
  CASE op = "create"   -> "crCheck"
    [] op = "passwd"   -> "pwRead"
    [] op = "set-role" -> "srGroup"
    [] op = "disable"  -> "dsGroup"
    [] op = "enable"   -> "enRead"

\* Mistake: an unvalidated role reaches the database.
StartUnchecked(s) ==
  /\ pc[s] = "new"
  /\ \E op \in Commands, u \in Users :
       /\ job' = [job EXCEPT ![s] = [op |-> op, user |-> u, role |-> Services]]
       /\ Goto(s, FirstLabel(op))
  /\ UNCHANGED <<dirVars, sawActive, scan, counted, draft, lockVars>>

Start(s) ==
  /\ pc[s] = "new"
  /\ \E op \in Commands, u \in Users, r \in Roles :
       /\ op \notin {"create", "set-role"} => r = Admins
       /\ job' = [job EXCEPT ![s] = [op |-> op, user |-> u, role |-> r]]
       /\ Goto(s, FirstLabel(op))
  /\ UNCHANGED <<dirVars, sawActive, scan, counted, draft, lockVars>>

-----------------------------------------------------------------------------
(* create *)

\* The existence check is a statement of its own, before the transaction.
CreateCheck(s) ==
  /\ pc[s] = "crCheck"
  /\ \/ User(s) \in accounts /\ Refuse(s)
     \/ /\ User(s) \notin accounts
        /\ Goto(s, "crInsert")
        /\ UNCHANGED <<dirVars, job, sawActive, scan, counted, draft, lockVars>>

\* Mistake: create without transaction.atomic, each statement commits.
CreateInsertAtOnce(s) ==
  /\ pc[s] = "crInsert"
  /\ User(s) \notin accounts
  /\ accounts' = accounts \cup {User(s)}
  /\ active' = active \cup {User(s)}
  /\ internal' = internal \cup {User(s)}
  /\ Goto(s, "crSave")
  /\ UNCHANGED <<member, hasPassword, job, sawActive, scan, counted, draft, lockVars>>

\* INSERT waits for another open insert of the same username, and breaks the
\* unique constraint if that name has been committed in the meantime.
CreateInsert(s) ==
  /\ pc[s] = "crInsert"
  /\ \/ User(s) \in accounts /\ Refuse(s)
     \/ /\ User(s) \notin accounts
        /\ Free(User(s), s)
        /\ rowLock' = [rowLock EXCEPT ![User(s)] = s]
        /\ Goto(s, "crSave")
        /\ UNCHANGED <<dirVars, job, sawActive, scan, counted, draft, groupLock, groupShare>>

\* set_password and save, on the row only this transaction sees.
CreateSave(s) ==
  /\ pc[s] = "crSave"
  /\ Goto(s, "crJoin")
  /\ UNCHANGED <<dirVars, job, sawActive, scan, counted, draft, lockVars>>

\* The membership row references the group: its foreign key takes the group
\* row FOR KEY SHARE, which waits for a FOR UPDATE of BSYSTEM-Admins.
CreateJoin(s) ==
  /\ pc[s] = "crJoin"
  /\ Role(s) = Admins => groupLock = None
  /\ groupShare' = IF Role(s) = Admins THEN groupShare \cup {s} ELSE groupShare
  /\ draft' = [draft EXCEPT ![s] = {Role(s)}]
  /\ Goto(s, "crCommit")
  /\ UNCHANGED <<dirVars, job, sawActive, scan, counted, groupLock, rowLock>>

CreateCommit(s) ==
  /\ pc[s] = "crCommit"
  /\ accounts' = accounts \cup {User(s)}
  /\ active' = active \cup {User(s)}
  /\ internal' = internal \cup {User(s)}
  /\ hasPassword' = hasPassword \cup {User(s)}
  /\ member' = [member EXCEPT ![User(s)] = draft[s]]
  /\ Finish(s, "done")

-----------------------------------------------------------------------------
(* passwd: no transaction, no lock *)

PasswdRead(s) ==
  /\ pc[s] = "pwRead"
  /\ \/ User(s) \notin internal /\ Refuse(s)
     \/ /\ User(s) \in internal
        /\ sawActive' = IF User(s) \in active THEN sawActive \cup {s} ELSE sawActive
        /\ Goto(s, "pwSave")
        /\ UNCHANGED <<dirVars, job, scan, counted, draft, lockVars>>

\* user.save() without update_fields writes every column it has read, the
\* is_active flag among them.
PasswdSave(s) ==
  /\ pc[s] = "pwSave"
  /\ Free(User(s), s)
  /\ hasPassword' = hasPassword \cup {User(s)}
  /\ active' = IF s \in sawActive THEN active \cup {User(s)} ELSE active \ {User(s)}
  /\ Finish(s, "done")
  /\ UNCHANGED <<accounts, member, internal>>

-----------------------------------------------------------------------------
(* set-role *)

SetRoleLockGroup(s) == pc[s] = "srGroup" /\ LockAdminGroup(s, "srUser")

SetRoleLockUser(s) == pc[s] = "srUser" /\ LockUser(s, "srDecide")

SetRoleDecide(s) ==
  /\ pc[s] = "srDecide"
  /\ \/ Services \in member[User(s)] /\ Refuse(s)
     \/ /\ Services \notin member[User(s)]
        /\ Goto(s, IF User(s) \in ActiveAdmins /\ Role(s) # Admins
                   THEN "srQuery" ELSE "srRemove")
        /\ UNCHANGED <<dirVars, job, sawActive, scan, counted, draft, lockVars>>

SetRoleQuery(s) == pc[s] = "srQuery" /\ QueryAdmins(s, "srScan")

SetRoleScan(s) ==
  pc[s] = "srScan" /\ (LockAdminRow(s) \/ JudgeAdmins(s, "srRemove"))

\* Mistake: the new role is added to the old one.
SetRoleKeepsOld(s) ==
  /\ pc[s] = "srRemove"
  /\ draft' = [draft EXCEPT ![s] = member[User(s)]]
  /\ Goto(s, "srAdd")
  /\ UNCHANGED <<dirVars, job, sawActive, scan, counted, lockVars>>

SetRoleRemove(s) ==
  /\ pc[s] = "srRemove"
  /\ draft' = [draft EXCEPT ![s] = member[User(s)] \ (Roles \ {Role(s)})]
  /\ Goto(s, "srAdd")
  /\ UNCHANGED <<dirVars, job, sawActive, scan, counted, lockVars>>

SetRoleAdd(s) ==
  /\ pc[s] = "srAdd"
  /\ draft' = [draft EXCEPT ![s] = @ \cup {Role(s)}]
  /\ Goto(s, "srCommit")
  /\ UNCHANGED <<dirVars, job, sawActive, scan, counted, lockVars>>

SetRoleCommit(s) ==
  /\ pc[s] = "srCommit"
  /\ member' = [member EXCEPT ![User(s)] = draft[s]]
  /\ Finish(s, "done")
  /\ UNCHANGED <<accounts, active, internal, hasPassword>>

-----------------------------------------------------------------------------
(* disable *)

\* Mistake: disable locks user rows without the group row first.
DisableSkipsGroup(s) ==
  /\ pc[s] = "dsGroup"
  /\ Goto(s, "dsUser")
  /\ UNCHANGED <<dirVars, job, sawActive, scan, counted, draft, lockVars>>

DisableLockGroup(s) == pc[s] = "dsGroup" /\ LockAdminGroup(s, "dsUser")

DisableLockUser(s) == pc[s] = "dsUser" /\ LockUser(s, "dsDecide")

\* Mistake: disable without the guard set-role has.
DisableUnguarded(s) ==
  /\ pc[s] = "dsDecide"
  /\ \/ User(s) \notin active /\ Finish(s, "done") /\ UNCHANGED dirVars
     \/ /\ User(s) \in active
        /\ Goto(s, "dsSave")
        /\ UNCHANGED <<dirVars, job, sawActive, scan, counted, draft, lockVars>>

DisableDecide(s) ==
  /\ pc[s] = "dsDecide"
  /\ \/ User(s) \notin active /\ Finish(s, "done") /\ UNCHANGED dirVars
     \/ /\ User(s) \in active
        /\ Goto(s, IF Admins \in member[User(s)] THEN "dsQuery" ELSE "dsSave")
        /\ UNCHANGED <<dirVars, job, sawActive, scan, counted, draft, lockVars>>

DisableQuery(s) == pc[s] = "dsQuery" /\ QueryAdmins(s, "dsScan")

DisableScan(s) ==
  pc[s] = "dsScan" /\ (LockAdminRow(s) \/ JudgeAdmins(s, "dsSave"))

\* UPDATE ... SET is_active = false, seen by no other session yet.
DisableSave(s) ==
  /\ pc[s] = "dsSave"
  /\ Goto(s, "dsCommit")
  /\ UNCHANGED <<dirVars, job, sawActive, scan, counted, draft, lockVars>>

DisableCommit(s) ==
  /\ pc[s] = "dsCommit"
  /\ active' = active \ {User(s)}
  /\ Finish(s, "done")
  /\ UNCHANGED <<accounts, member, internal, hasPassword>>

-----------------------------------------------------------------------------
(* enable: no transaction, no lock *)

EnableRead(s) ==
  /\ pc[s] = "enRead"
  /\ \/ User(s) \notin accounts /\ Refuse(s)
     \/ User(s) \in active /\ Finish(s, "done") /\ UNCHANGED dirVars
     \/ /\ User(s) \in accounts \ active
        /\ Goto(s, "enSave")
        /\ UNCHANGED <<dirVars, job, sawActive, scan, counted, draft, lockVars>>

EnableSave(s) ==
  /\ pc[s] = "enSave"
  /\ Free(User(s), s)
  /\ active' = active \cup {User(s)}
  /\ Finish(s, "done")
  /\ UNCHANGED <<accounts, member, internal, hasPassword>>

-----------------------------------------------------------------------------
\* The process, its terminal or its connection dies: PostgreSQL rolls back
\* the open transaction and frees its locks.
Crash(s) == Running(s) /\ Refuse(s)

Step(s) ==
  \/ CreateCheck(s) \/ CreateInsert(s) \/ CreateSave(s)
  \/ CreateJoin(s) \/ CreateCommit(s)
  \/ PasswdRead(s) \/ PasswdSave(s)
  \/ SetRoleLockGroup(s) \/ SetRoleLockUser(s) \/ SetRoleDecide(s)
  \/ SetRoleQuery(s) \/ SetRoleScan(s)
  \/ SetRoleRemove(s) \/ SetRoleAdd(s) \/ SetRoleCommit(s)
  \/ DisableLockGroup(s) \/ DisableLockUser(s) \/ DisableDecide(s)
  \/ DisableQuery(s) \/ DisableScan(s) \/ DisableSave(s) \/ DisableCommit(s)
  \/ EnableRead(s) \/ EnableSave(s)

AllEnded == (\A s \in Sessions : pc[s] \in Ended) /\ UNCHANGED vars

Next ==
  \/ \E s \in Sessions : Start(s) \/ Step(s) \/ Crash(s)
  \/ AllEnded

Spec == Init /\ [][Next]_vars

\* A running process keeps going, and PostgreSQL grants a lock that stays
\* free; nobody is obliged to run a command, and no process has to die.
FairSpec == Spec /\ \A s \in Sessions : WF_vars(Step(s))

-----------------------------------------------------------------------------
(* Properties *)

\* Which session t may keep session s waiting: s wants the BSYSTEM-Admins row
\* t holds in a conflicting mode, or a user row t has locked.
WaitsFor(s, t) ==
  /\ s # t
  /\ \/ pc[s] \in {"srGroup", "dsGroup"} /\ (groupLock = t \/ t \in groupShare)
     \/ pc[s] = "crJoin" /\ Role(s) = Admins /\ groupLock = t
     \/ /\ \/ pc[s] \in {"srUser", "dsUser", "pwSave", "enSave"} /\ User(s) \in accounts
           \/ pc[s] = "crInsert" /\ User(s) \notin accounts
        /\ rowLock[User(s)] = t
     \/ pc[s] \in {"srScan", "dsScan"} /\ \E u \in scan[s] : rowLock[u] = t

\* No group of sessions waits for itself in a circle: locking the group row
\* before any user row avoids the lock-order inversion the comment at
\* bsystem-userctl:500-502 speaks of, and no other command brings one back.
NoWaitCycle ==
  \A W \in SUBSET Sessions :
    W # {} => \E s \in W : \A t \in W : ~WaitsFor(s, t)

\* Whenever the groups of an existing account change, it leaves every human
\* role but one, and it is no service identity: no observer sees a user with
\* its old role removed and the new one not yet added, with both roles, or
\* with a human role beside BSYSTEM-Services.
RoleReplaced ==
  [][\A u \in accounts :
       member'[u] # member[u] =>
         /\ Services \notin member[u]
         /\ \E r \in Roles : member'[u] \cap Roles = {r}]_vars

\* An account appears whole: whatever becomes of the process that creates
\* it, an account other sessions can see has its password and its one role.
AccountsAppearWhole ==
  [][\A u \in accounts' \ accounts :
       /\ u \in active' \cap internal' \cap hasPassword'
       /\ \E r \in Roles : member'[u] = {r}]_vars

\* The commands, interleaved statement by statement, look to every observer
\* like commands that take effect at once, under the guards UserDirectory
\* states of the directory at that instant.
Promise == INSTANCE UserDirectory
Implements == Promise!Spec

\* Every command that starts comes to an end: no lock is left behind that
\* would keep a later command waiting for ever.
EveryCommandEnds == \A s \in Sessions : Running(s) ~> pc[s] \in Ended

-----------------------------------------------------------------------------
(* The invariant the proofs of UserCtlProofs carry through every step *)

Creating == {"crSave", "crJoin", "crCommit"}
SettingRole == {"srRemove", "srAdd", "srCommit"}
InGroup == {"srUser", "srDecide", "srQuery", "srScan"} \cup SettingRole
           \cup {"dsUser", "dsDecide", "dsQuery", "dsScan", "dsSave", "dsCommit"}

\* Who holds which lock: the sessions inside set-role and disable exclude
\* one another through the group row, and only the one inside locks rows of
\* existing accounts; a create locks the row it inserts.
LockInv ==
  /\ active \cup internal \cup hasPassword \subseteq accounts
  /\ \A s \in Sessions : pc[s] \in InGroup <=> groupLock = s
  /\ \A s \in groupShare : pc[s] = "crCommit" /\ groupLock = None
  /\ \A u \in Users : rowLock[u] # None =>
       \/ u \in accounts /\ groupLock = rowLock[u]
       \/ u \notin accounts /\ pc[rowLock[u]] \in Creating /\ User(rowLock[u]) = u
  /\ \A s \in Sessions : pc[s] \in Creating =>
       User(s) \notin accounts /\ rowLock[User(s)] = s
  /\ \A s \in Sessions : scan[s] \subseteq accounts
  /\ \A s \in Sessions :
       pc[s] \in (InGroup \ {"srUser", "dsUser"}) \cup {"pwSave", "enSave"} =>
         User(s) \in accounts

\* The memberships an open transaction has read and drafted: nobody changes
\* them until it commits, whatever commands run beside it.
DraftInv(s) ==
  /\ pc[s] \in {"srQuery", "srScan"} \cup SettingRole => Services \notin member[User(s)]
  /\ pc[s] = "srAdd" => draft[s] = member[User(s)] \ (Roles \ {Role(s)})
  /\ pc[s] = "srCommit" => draft[s] = (member[User(s)] \ Roles) \cup {Role(s)}
  /\ pc[s] = "crCommit" => draft[s] = {Role(s)}

\* What holds between the statements of every mix of commands, passwd
\* included: set-role and disable exclude one another from the group row on
\* (bsystem-userctl:499-505), so a role change commits the very groups it
\* has computed from the account's present ones, and never those of a
\* service identity; a create commits one role.
DraftsHold ==
  /\ TypeOK
  /\ LockInv
  /\ \A s \in Sessions : DraftInv(s)

\* What a transaction may still rely on of what it has read.
ReadInv(s) ==
  /\ DraftInv(s)
  /\ pc[s] \in {"srScan", "dsScan"} => counted[s] \subseteq ActiveAdmins
  /\ pc[s] \in SettingRole /\ Role(s) # Admins => Expendable(User(s))
  /\ pc[s] \in {"dsQuery", "dsScan", "dsSave", "dsCommit"} => User(s) \in active
  /\ pc[s] \in {"dsSave", "dsCommit"} => Expendable(User(s))

\* The final active administrator is safe at every statement of every
\* session as long as no command writes back a stale is_active, that is
\* while passwd is not run: whatever an open set-role or disable has read
\* still holds when it commits (docs/USER-ADMINISTRATION.md:115-122).
IndInv ==
  /\ TypeOK
  /\ LockInv
  /\ \A s \in Sessions : pc[s] \notin {"pwRead", "pwSave"} /\ ReadInv(s)
  /\ ActiveAdminRemains
=============================================================================
