--------------------------- MODULE UserCtlProofs ----------------------------
(***************************************************************************)
(* What UserCtl guarantees for any number of users, roles and concurrent   *)
(* invocations.  Each invariant is proved action by action; the two ways a *)
(* session can end (Finish, Refuse) are lemmas of their own.               *)
(***************************************************************************)
EXTENDS UserCtl, FiniteSetTheorems, TLAPS

-----------------------------------------------------------------------------
(* Type correctness *)

\* The end of a session, whatever its outcome, leaves the sessions typed.
LEMMA FinishType ==
  ASSUME SessionsOK, NEW s \in Sessions, NEW o \in Ended, Finish(s, o)
  PROVE  SessionsOK'
  BY DEF SessionsOK, Finish, Goto, Running, Ended, Labels

\* So does a refusal, which also leaves the directory alone.
LEMMA RefuseType ==
  ASSUME TypeOK, NEW s \in Sessions, Refuse(s)
  PROVE  TypeOK'
  <1>1. SessionsOK'
    BY FinishType DEF Refuse, TypeOK, Ended
  <1>2. DirectoryOK'
    BY DEF Refuse, TypeOK, DirectoryOK, dirVars
  <1> QED
    BY <1>1, <1>2 DEF TypeOK

\* Every state the first command may find is typed.
LEMMA TypeInit == Init => TypeOK
  <1> SUFFICES ASSUME Init PROVE TypeOK
    OBVIOUS
  <1>1. DirectoryOK
    BY DirectoryAssumption DEF Init, InitialDirectory, Directory, DirectoryOK
  <1>2. SessionsOK
    BY DEF Init, SessionsOK, Running, Ended, Labels
  <1> QED
    BY <1>1, <1>2 DEF TypeOK

\* No step of any session leaves the types.
LEMMA TypeNext == TypeOK /\ [Next]_vars => TypeOK'
  <1> SUFFICES ASSUME TypeOK, [Next]_vars PROVE TypeOK'
    OBVIOUS
  <1> USE DEF TypeOK, SessionsOK, DirectoryOK, Running, Ended, Labels, Goto,
              User, Role, Jobs, Groups, ActiveAdmins, ActiveAdminsOf,
              sessionVars, lockVars, dirVars
  <1>1. CASE UNCHANGED vars
    BY <1>1 DEF vars
  <1>2. ASSUME NEW s \in Sessions, Start(s) PROVE TypeOK'
    BY <1>2, CommandAssumption DEF Start, FirstLabel, AllCommands
  <1>3. ASSUME NEW s \in Sessions, Crash(s) PROVE TypeOK'
    BY <1>3, RefuseType DEF Crash
  <1>4. ASSUME NEW s \in Sessions, Step(s) PROVE TypeOK'
    <2>1. CASE CreateCheck(s)
      BY <2>1, RefuseType DEF CreateCheck
    <2>2. CASE CreateInsert(s)
      BY <2>2, RefuseType DEF CreateInsert
    <2>3. CASE CreateSave(s)
      BY <2>3 DEF CreateSave
    <2>4. CASE CreateJoin(s)
      BY <2>4 DEF CreateJoin
    <2>5. CASE CreateCommit(s)
      BY <2>5, FinishType DEF CreateCommit
    <2>6. CASE PasswdRead(s)
      BY <2>6, RefuseType DEF PasswdRead
    <2>7. CASE PasswdSave(s)
      BY <2>7, FinishType DEF PasswdSave
    <2>8. CASE SetRoleLockGroup(s)
      BY <2>8 DEF SetRoleLockGroup, LockAdminGroup
    <2>9. CASE SetRoleLockUser(s)
      BY <2>9, RefuseType DEF SetRoleLockUser, LockUser
    <2>10. CASE SetRoleDecide(s)
      BY <2>10, RefuseType DEF SetRoleDecide
    <2>11. CASE SetRoleQuery(s)
      BY <2>11 DEF SetRoleQuery, QueryAdmins
    <2>12. CASE SetRoleScan(s)
      BY <2>12, RefuseType DEF SetRoleScan, LockAdminRow, JudgeAdmins
    <2>13. CASE SetRoleRemove(s)
      BY <2>13 DEF SetRoleRemove
    <2>14. CASE SetRoleAdd(s)
      BY <2>14 DEF SetRoleAdd
    <2>15. CASE SetRoleCommit(s)
      BY <2>15, FinishType DEF SetRoleCommit
    <2>16. CASE DisableLockGroup(s)
      BY <2>16 DEF DisableLockGroup, LockAdminGroup
    <2>17. CASE DisableLockUser(s)
      BY <2>17, RefuseType DEF DisableLockUser, LockUser
    <2>18. CASE DisableDecide(s)
      BY <2>18, FinishType DEF DisableDecide
    <2>19. CASE DisableQuery(s)
      BY <2>19 DEF DisableQuery, QueryAdmins
    <2>20. CASE DisableScan(s)
      BY <2>20, RefuseType DEF DisableScan, LockAdminRow, JudgeAdmins
    <2>21. CASE DisableSave(s)
      BY <2>21 DEF DisableSave
    <2>22. CASE DisableCommit(s)
      BY <2>22, FinishType DEF DisableCommit
    <2>23. CASE EnableRead(s)
      BY <2>23, FinishType, RefuseType DEF EnableRead
    <2>24. CASE EnableSave(s)
      BY <2>24, FinishType DEF EnableSave
    <2> QED
      BY <1>4, <2>1, <2>2, <2>3, <2>4, <2>5, <2>6, <2>7, <2>8, <2>9, <2>10,
         <2>11, <2>12, <2>13, <2>14, <2>15, <2>16, <2>17, <2>18, <2>19,
         <2>20, <2>21, <2>22, <2>23, <2>24 DEF Step
  <1> QED
    BY <1>1, <1>2, <1>3, <1>4 DEF Next, AllEnded

\* The directory, the sessions and the locks keep their types whatever
\* commands run, passwd included.
THEOREM TypeCorrect == Spec => []TypeOK
  BY TypeInit, TypeNext, PTL DEF Spec

-----------------------------------------------------------------------------
(* Who holds which lock *)

\* A session that ends gives back its locks, and only its own; the row a
\* create has inserted is an ordinary row from then on.
LEMMA FinishLocks ==
  ASSUME TypeOK, LockInv, NEW s \in Sessions, NEW o \in Ended,
         Running(s), Finish(s, o),
         active' \cup internal' \cup hasPassword' \subseteq accounts',
         \/ accounts' = accounts
         \/ pc[s] \in Creating /\ accounts' = accounts \cup {User(s)}
  PROVE  LockInv'
  <1> USE NoneAssumption
      DEF TypeOK, SessionsOK, Finish, Goto, Running, Ended, User, Jobs,
          InGroup, SettingRole, Creating
  <1>1. \A t \in Sessions : pc'[t] \in InGroup <=> groupLock' = t
    BY DEF LockInv
  <1>2. \A t \in groupShare' : pc'[t] = "crCommit" /\ groupLock' = None
    BY DEF LockInv
  <1>3. \A u \in Users : rowLock'[u] # None =>
          \/ u \in accounts' /\ groupLock' = rowLock'[u]
          \/ /\ u \notin accounts'
             /\ pc'[rowLock'[u]] \in Creating
             /\ job'[rowLock'[u]].user = u
    BY DEF LockInv
  <1>4. \A t \in Sessions : pc'[t] \in Creating =>
          User(t)' \notin accounts' /\ rowLock'[User(t)'] = t
    BY DEF LockInv
  <1>5. \A t \in Sessions : scan'[t] \subseteq accounts'
    BY DEF LockInv
  <1>6. \A t \in Sessions :
          pc'[t] \in (InGroup \ {"srUser", "dsUser"}) \cup {"pwSave", "enSave"} =>
            User(t)' \in accounts'
    BY DEF LockInv
  <1> QED
    BY <1>1, <1>2, <1>3, <1>4, <1>5, <1>6 DEF LockInv

LEMMA RefuseLocks ==
  ASSUME TypeOK, LockInv, NEW s \in Sessions, Running(s), Refuse(s)
  PROVE  LockInv'
  BY FinishLocks DEF Refuse, Ended, dirVars, LockInv

\* No step hands out a lock that is held, or loses one.
LEMMA LockNext == TypeOK /\ LockInv /\ [Next]_vars => LockInv'
  <1> SUFFICES ASSUME TypeOK, LockInv, [Next]_vars PROVE LockInv'
    OBVIOUS
  <1> USE NoneAssumption
      DEF TypeOK, SessionsOK, DirectoryOK, Running, Ended, Goto,
          User, Role, Jobs, ActiveAdmins, ActiveAdminsOf, Free,
          LockInv, InGroup, SettingRole, Creating,
          sessionVars, lockVars, dirVars
  <1>1. CASE UNCHANGED vars
    BY <1>1 DEF vars
  <1>2. ASSUME NEW s \in Sessions, Start(s) PROVE LockInv'
    BY <1>2, CommandAssumption DEF Start, FirstLabel, AllCommands
  <1>3. ASSUME NEW s \in Sessions, Crash(s) PROVE LockInv'
    BY <1>3, RefuseLocks DEF Crash
  <1>4. ASSUME NEW s \in Sessions, Step(s) PROVE LockInv'
    <2>1. CASE CreateCheck(s)
      BY <2>1, RefuseLocks DEF CreateCheck
    <2>2. CASE CreateInsert(s)
      BY <2>2, RefuseLocks DEF CreateInsert
    <2>3. CASE CreateSave(s)
      BY <2>3 DEF CreateSave
    <2>4. CASE CreateJoin(s)
      BY <2>4 DEF CreateJoin
    <2>5. CASE CreateCommit(s)
      BY <2>5, FinishLocks DEF CreateCommit
    <2>6. CASE PasswdRead(s)
      BY <2>6, RefuseLocks DEF PasswdRead
    <2>7. CASE PasswdSave(s)
      BY <2>7, FinishLocks DEF PasswdSave
    <2>8. CASE SetRoleLockGroup(s)
      BY <2>8 DEF SetRoleLockGroup, LockAdminGroup
    <2>9. CASE SetRoleLockUser(s)
      BY <2>9, RefuseLocks DEF SetRoleLockUser, LockUser
    <2>10. CASE SetRoleDecide(s)
      BY <2>10, RefuseLocks DEF SetRoleDecide
    <2>11. CASE SetRoleQuery(s)
      BY <2>11 DEF SetRoleQuery, QueryAdmins
    <2>12. CASE SetRoleScan(s)
      <3>1. CASE LockAdminRow(s)
        BY <2>12, <3>1 DEF SetRoleScan, LockAdminRow
      <3>2. CASE JudgeAdmins(s, "srRemove")
        BY <2>12, <3>2, RefuseLocks DEF SetRoleScan, JudgeAdmins
      <3> QED
        BY <2>12, <3>1, <3>2 DEF SetRoleScan
    <2>13. CASE SetRoleRemove(s)
      BY <2>13 DEF SetRoleRemove
    <2>14. CASE SetRoleAdd(s)
      BY <2>14 DEF SetRoleAdd
    <2>15. CASE SetRoleCommit(s)
      BY <2>15, FinishLocks DEF SetRoleCommit
    <2>16. CASE DisableLockGroup(s)
      BY <2>16 DEF DisableLockGroup, LockAdminGroup
    <2>17. CASE DisableLockUser(s)
      BY <2>17, RefuseLocks DEF DisableLockUser, LockUser
    <2>18. CASE DisableDecide(s)
      BY <2>18, FinishLocks DEF DisableDecide
    <2>19. CASE DisableQuery(s)
      BY <2>19 DEF DisableQuery, QueryAdmins
    <2>20. CASE DisableScan(s)
      <3>1. CASE LockAdminRow(s)
        BY <2>20, <3>1 DEF DisableScan, LockAdminRow
      <3>2. CASE JudgeAdmins(s, "dsSave")
        BY <2>20, <3>2, RefuseLocks DEF DisableScan, JudgeAdmins
      <3> QED
        BY <2>20, <3>1, <3>2 DEF DisableScan
    <2>21. CASE DisableSave(s)
      BY <2>21 DEF DisableSave
    <2>22. CASE DisableCommit(s)
      BY <2>22, FinishLocks DEF DisableCommit
    <2>23. CASE EnableRead(s)
      BY <2>23, RefuseLocks, FinishLocks DEF EnableRead
    <2>24. CASE EnableSave(s)
      BY <2>24, FinishLocks DEF EnableSave
    <2> QED
      BY <1>4, <2>1, <2>2, <2>3, <2>4, <2>5, <2>6, <2>7, <2>8, <2>9, <2>10,
         <2>11, <2>12, <2>13, <2>14, <2>15, <2>16, <2>17, <2>18, <2>19,
         <2>20, <2>21, <2>22, <2>23, <2>24 DEF Step
  <1> QED
    BY <1>1, <1>2, <1>3, <1>4 DEF Next, AllEnded

LEMMA LockInit == Init => LockInv
  <1> SUFFICES ASSUME Init PROVE LockInv
    OBVIOUS
  <1>1. active \cup internal \cup hasPassword \subseteq accounts
    BY DirectoryAssumption DEF Init, InitialDirectory, Directory
  <1> QED
    BY <1>1, NoneAssumption
    DEF Init, LockInv, InGroup, SettingRole, Creating

\* The group row is held by at most one session, and the rows of existing
\* accounts by that session alone, whatever commands run.
THEOREM LocksHeld == Spec => [](TypeOK /\ LockInv)
  <1>1. Init => TypeOK /\ LockInv
    BY TypeInit, LockInit
  <1>2. TypeOK /\ LockInv /\ [Next]_vars => (TypeOK /\ LockInv)'
    BY TypeNext, LockNext
  <1> QED
    BY <1>1, <1>2, PTL DEF Spec

-----------------------------------------------------------------------------
(* No deadlock: whom a session waits for *)

\* Sessions wait on one another at most three deep: a create for another
\* create of the same name, that one for the session inside the group lock,
\* and that session for nobody.
LEMMA WaitChain ==
  ASSUME TypeOK, LockInv,
         NEW a \in Sessions, NEW b \in Sessions, NEW c \in Sessions, NEW d \in Sessions,
         WaitsFor(a, b), WaitsFor(b, c), WaitsFor(c, d)
  PROVE  FALSE
  <1> USE NoneAssumption
      DEF TypeOK, SessionsOK, LockInv, InGroup, SettingRole, Creating,
          Running, Ended, Jobs, User, Role, WaitsFor
  <1>1. ~(groupLock = b)
    OBVIOUS
  <1>2. ~(groupLock = c)
    OBVIOUS
  <1>3. pc[c] \in Creating
    BY <1>2
  <1>4. pc[c] = "crJoin"
    BY <1>3
  <1>5. pc[b] \in Creating
    BY <1>1
  <1>6. pc[b] = "crJoin" /\ groupLock = c
    BY <1>5
  <1> QED
    BY <1>2, <1>6

\* Locks taken in the order of bsystem-userctl:500-502 leave no circle of
\* waiting sessions, for any mix of commands.
THEOREM NoDeadlock == Spec => []NoWaitCycle
  <1>1. TypeOK /\ LockInv => NoWaitCycle
    <2> SUFFICES ASSUME TypeOK, LockInv,
                        NEW W \in SUBSET Sessions, W # {},
                        \A s \in W : \E t \in W : WaitsFor(s, t)
                 PROVE  FALSE
      BY DEF NoWaitCycle
    <2>1. PICK a \in W, b \in W : WaitsFor(a, b)
      OBVIOUS
    <2>2. PICK c \in W : WaitsFor(b, c)
      OBVIOUS
    <2>3. PICK d \in W : WaitsFor(c, d)
      OBVIOUS
    <2> QED
      BY <2>1, <2>2, <2>3, WaitChain
  <1> QED
    BY <1>1, LocksHeld, PTL

-----------------------------------------------------------------------------
(* What a transaction has read and drafted *)

\* Steps that touch no login flag and no membership: the commands prepare.
Quiet(s) ==
  \/ CreateCheck(s) \/ CreateInsert(s) \/ CreateSave(s) \/ CreateJoin(s)
  \/ SetRoleLockGroup(s) \/ SetRoleLockUser(s) \/ SetRoleDecide(s)
  \/ SetRoleQuery(s) \/ SetRoleScan(s) \/ SetRoleRemove(s) \/ SetRoleAdd(s)
  \/ DisableLockGroup(s) \/ DisableLockUser(s) \/ DisableDecide(s)
  \/ DisableQuery(s) \/ DisableScan(s) \/ DisableSave(s)
  \/ EnableRead(s)

\* A quiet step leaves the other sessions and the directory as they are.
LEMMA QuietFrame ==
  ASSUME TypeOK, NEW s \in Sessions, Quiet(s)
  PROVE  /\ UNCHANGED dirVars
         /\ \A t \in Sessions \ {s} :
              /\ pc'[t] = pc[t] /\ job'[t] = job[t]
              /\ counted'[t] = counted[t] /\ draft'[t] = draft[t]
  <1> USE DEF TypeOK, SessionsOK, Goto, Refuse, Finish, lockVars
  <1>1. CASE CreateCheck(s)
    BY <1>1 DEF CreateCheck
  <1>2. CASE CreateInsert(s)
    BY <1>2 DEF CreateInsert
  <1>3. CASE CreateSave(s)
    BY <1>3 DEF CreateSave
  <1>4. CASE CreateJoin(s)
    BY <1>4 DEF CreateJoin
  <1>5. CASE SetRoleLockGroup(s)
    BY <1>5 DEF SetRoleLockGroup, LockAdminGroup
  <1>6. CASE SetRoleLockUser(s)
    BY <1>6 DEF SetRoleLockUser, LockUser
  <1>7. CASE SetRoleDecide(s)
    BY <1>7 DEF SetRoleDecide
  <1>8. CASE SetRoleQuery(s)
    BY <1>8 DEF SetRoleQuery, QueryAdmins
  <1>9. CASE SetRoleScan(s)
    BY <1>9 DEF SetRoleScan, LockAdminRow, JudgeAdmins
  <1>10. CASE SetRoleRemove(s)
    BY <1>10 DEF SetRoleRemove
  <1>11. CASE SetRoleAdd(s)
    BY <1>11 DEF SetRoleAdd
  <1>12. CASE DisableLockGroup(s)
    BY <1>12 DEF DisableLockGroup, LockAdminGroup
  <1>13. CASE DisableLockUser(s)
    BY <1>13 DEF DisableLockUser, LockUser
  <1>14. CASE DisableDecide(s)
    BY <1>14 DEF DisableDecide
  <1>15. CASE DisableQuery(s)
    BY <1>15 DEF DisableQuery, QueryAdmins
  <1>16. CASE DisableScan(s)
    BY <1>16 DEF DisableScan, LockAdminRow, JudgeAdmins
  <1>17. CASE DisableSave(s)
    BY <1>17 DEF DisableSave
  <1>18. CASE EnableRead(s)
    BY <1>18 DEF EnableRead
  <1> QED
    BY <1>1, <1>2, <1>3, <1>4, <1>5, <1>6, <1>7, <1>8, <1>9,
       <1>10, <1>11, <1>12, <1>13, <1>14, <1>15, <1>16, <1>17, <1>18 DEF Quiet

\* What session t has drafted survives a step that leaves t and the groups
\* of its account alone.
LEMMA DraftFrame ==
  ASSUME NEW t \in Sessions, DraftInv(t),
         pc'[t] = pc[t], job'[t] = job[t], draft'[t] = draft[t],
         pc[t] \in InGroup \ {"srUser", "dsUser"} => member'[User(t)] = member[User(t)]
  PROVE  DraftInv(t)'
  BY DEF DraftInv, User, Role, SettingRole, InGroup

\* A session outside set-role that commits no create has drafted nothing.
LEMMA DraftIdle ==
  ASSUME NEW t \in Sessions, pc'[t] \notin InGroup \cup Creating
  PROVE  DraftInv(t)'
  BY DEF DraftInv, InGroup, SettingRole, Creating

\* A quiet step makes its session draft what it has just read.
LEMMA QuietDrafts ==
  ASSUME TypeOK, NEW s \in Sessions, Quiet(s), DraftInv(s)
  PROVE  DraftInv(s)'
  <1> USE DEF TypeOK, SessionsOK, Goto, Refuse, Finish, lockVars, dirVars, DraftInv,
              User, Role, SettingRole
  <1>1. CASE CreateCheck(s)
    BY <1>1 DEF CreateCheck
  <1>2. CASE CreateInsert(s)
    BY <1>2 DEF CreateInsert
  <1>3. CASE CreateSave(s)
    BY <1>3 DEF CreateSave
  <1>4. CASE CreateJoin(s)
    BY <1>4 DEF CreateJoin
  <1>5. CASE SetRoleLockGroup(s)
    BY <1>5 DEF SetRoleLockGroup, LockAdminGroup
  <1>6. CASE SetRoleLockUser(s)
    BY <1>6 DEF SetRoleLockUser, LockUser
  <1>7. CASE SetRoleDecide(s)
    BY <1>7 DEF SetRoleDecide
  <1>8. CASE SetRoleQuery(s)
    BY <1>8 DEF SetRoleQuery, QueryAdmins
  <1>9. CASE SetRoleScan(s)
    BY <1>9 DEF SetRoleScan, LockAdminRow, JudgeAdmins
  <1>10. CASE SetRoleRemove(s)
    BY <1>10 DEF SetRoleRemove
  <1>11. CASE SetRoleAdd(s)
    BY <1>11, RoleAssumption DEF SetRoleAdd, Running, Ended, Jobs
  <1>12. CASE \/ DisableLockGroup(s) \/ DisableLockUser(s) \/ DisableDecide(s)
             \/ DisableQuery(s) \/ DisableScan(s) \/ DisableSave(s) \/ EnableRead(s)
    BY <1>12
    DEF DisableLockGroup, LockAdminGroup, DisableLockUser, LockUser, DisableDecide,
        DisableQuery, QueryAdmins, DisableScan, LockAdminRow, JudgeAdmins,
        DisableSave, EnableRead
  <1> QED
    BY <1>1, <1>2, <1>3, <1>4, <1>5, <1>6, <1>7, <1>8, <1>9,
       <1>10, <1>11, <1>12 DEF Quiet

\* A session that ends leaves the drafts of the others as they are.
LEMMA FinishDrafts ==
  ASSUME TypeOK, NEW s \in Sessions, NEW o \in Ended, Finish(s, o),
         \A t \in Sessions : DraftInv(t),
         \A t \in Sessions \ {s} :
           pc[t] \in InGroup \ {"srUser", "dsUser"} => member'[User(t)] = member[User(t)]
  PROVE  \A t \in Sessions : DraftInv(t)'
  <1>1. pc'[s] \notin InGroup \cup Creating
    BY DEF Finish, Goto, TypeOK, SessionsOK, InGroup, SettingRole, Creating, Ended
  <1>2. \A t \in Sessions \ {s} : pc'[t] = pc[t] /\ job'[t] = job[t] /\ draft'[t] = draft[t]
    BY DEF Finish, Goto, TypeOK, SessionsOK
  <1> QED
    BY <1>1, <1>2, DraftIdle, DraftFrame

\* No step of another session reaches the groups a transaction relies on:
\* only the session inside the group lock replaces the groups of an account,
\* and a create adds an account nobody has read.
LEMMA DraftNext == DraftsHold /\ [Next]_vars => DraftsHold'
  <1> SUFFICES ASSUME DraftsHold, [Next]_vars
               PROVE  \A t \in Sessions : DraftInv(t)'
    BY TypeNext, LockNext DEF DraftsHold
  <1> USE DEF DraftsHold
  <1>1. CASE UNCHANGED vars
    BY <1>1, DraftFrame DEF vars, dirVars, sessionVars
  <1>2. ASSUME NEW s \in Sessions, Start(s) PROVE \A t \in Sessions : DraftInv(t)'
    <2>1. pc'[s] \notin InGroup \cup Creating
      BY <1>2, CommandAssumption
      DEF Start, FirstLabel, AllCommands, Goto, TypeOK, SessionsOK, InGroup, SettingRole, Creating
    <2>2. \A t \in Sessions \ {s} : pc'[t] = pc[t] /\ job'[t] = job[t]
      BY <1>2 DEF Start, Goto, TypeOK, SessionsOK
    <2> QED
      BY <1>2, <2>1, <2>2, DraftIdle, DraftFrame DEF Start, dirVars
  <1>3. ASSUME NEW s \in Sessions, NEW o \in Ended, Finish(s, o), UNCHANGED member
        PROVE  \A t \in Sessions : DraftInv(t)'
    BY <1>3, FinishDrafts
  <1>4. ASSUME NEW s \in Sessions, Quiet(s) PROVE \A t \in Sessions : DraftInv(t)'
    <2>1. \A t \in Sessions \ {s} : DraftInv(t)'
      BY <1>4, QuietFrame, DraftFrame DEF dirVars
    <2> QED
      BY <1>4, <2>1, QuietDrafts
  <1>5. ASSUME NEW s \in Sessions, CreateCommit(s) PROVE \A t \in Sessions : DraftInv(t)'
    <2>1. User(s) \in Users /\ User(s) \notin accounts
      BY <1>5 DEF CreateCommit, TypeOK, SessionsOK, Running, Ended, Jobs, User, LockInv, Creating
    <2>2. \A u \in Users \ {User(s)} : member'[u] = member[u]
      BY <1>5, <2>1 DEF CreateCommit, TypeOK, DirectoryOK
    <2>3. \A t \in Sessions :
            pc[t] \in InGroup \ {"srUser", "dsUser"} => member'[User(t)] = member[User(t)]
      BY <2>1, <2>2 DEF LockInv, TypeOK, DirectoryOK
    <2> QED
      BY <1>5, <2>3, FinishDrafts DEF CreateCommit, Ended
  <1>6. ASSUME NEW s \in Sessions, SetRoleCommit(s) PROVE \A t \in Sessions : DraftInv(t)'
    <2>1. \A t \in Sessions \ {s} : pc[t] \notin InGroup
      BY <1>6 DEF SetRoleCommit, LockInv, InGroup, SettingRole
    <2> QED
      BY <1>6, <2>1, FinishDrafts DEF SetRoleCommit, Ended
  <1>7. ASSUME NEW s \in Sessions, PasswdRead(s) PROVE \A t \in Sessions : DraftInv(t)'
    <2>1. CASE Refuse(s)
      BY <1>3, <2>1 DEF Refuse, Ended, dirVars
    <2>2. CASE Goto(s, "pwSave") /\ UNCHANGED <<dirVars, job, draft>>
      BY <2>2, DraftIdle, DraftFrame
      DEF Goto, dirVars, TypeOK, SessionsOK, InGroup, SettingRole, Creating
    <2> QED
      BY <1>7, <2>1, <2>2 DEF PasswdRead
  <1>8. ASSUME NEW s \in Sessions, PasswdSave(s) \/ DisableCommit(s) \/ EnableSave(s)
        PROVE  \A t \in Sessions : DraftInv(t)'
    BY <1>3, <1>8 DEF PasswdSave, DisableCommit, EnableSave, Ended
  <1>9. ASSUME NEW s \in Sessions, Crash(s) PROVE \A t \in Sessions : DraftInv(t)'
    BY <1>3, <1>9 DEF Crash, Refuse, Ended, dirVars
  <1> QED
    BY <1>1, <1>2, <1>4, <1>5, <1>6, <1>7, <1>8, <1>9 DEF Next, AllEnded, Step, Quiet

\* Every transaction's draft is the one its account's present groups call
\* for, whatever commands run, passwd included.
THEOREM Drafts == Spec => []DraftsHold
  <1>1. Init => DraftsHold
    BY TypeInit, LockInit DEF Init, DraftsHold, DraftInv, SettingRole
  <1> QED
    BY <1>1, DraftNext, PTL DEF Spec

\* Groups change in two places only: a set-role commits its draft to an
\* existing account, a create commits the first groups of a new one.
LEMMA GroupsChange ==
  ASSUME TypeOK, [Next]_vars, member' # member \/ accounts' # accounts
  PROVE  \E s \in Sessions : CreateCommit(s) \/ SetRoleCommit(s)
  <1> USE DEF dirVars
  <1>1. CASE UNCHANGED vars
    BY <1>1 DEF vars
  <1>2. ASSUME NEW s \in Sessions, Start(s) \/ Crash(s) PROVE FALSE
    BY <1>2 DEF Start, Crash, Refuse
  <1>3. ASSUME NEW s \in Sessions, Quiet(s) PROVE FALSE
    BY <1>3, QuietFrame
  <1>4. ASSUME NEW s \in Sessions,
               PasswdRead(s) \/ PasswdSave(s) \/ DisableCommit(s) \/ EnableSave(s)
        PROVE  FALSE
    BY <1>4 DEF PasswdRead, PasswdSave, DisableCommit, EnableSave, Refuse
  <1> QED
    BY <1>1, <1>2, <1>3, <1>4 DEF Next, AllEnded, Step, Quiet

\* A role change replaces every human role by one, and never reaches a
\* service identity (bsystem-userctl:516-519, 551-556), for any mix of
\* commands and wherever a process dies.
THEOREM RoleChange == Spec => RoleReplaced
  <1> DEFINE Replaced ==
        \A u \in accounts :
          member'[u] # member[u] =>
            /\ Services \notin member[u]
            /\ \E r \in Roles : member'[u] \cap Roles = {r}
  <1>1. ASSUME DraftsHold, [Next]_vars PROVE [Replaced]_vars
    <2> SUFFICES ASSUME NEW u \in accounts, member'[u] # member[u]
                 PROVE  /\ Services \notin member[u]
                        /\ \E r \in Roles : member'[u] \cap Roles = {r}
      OBVIOUS
    <2>1. PICK s \in Sessions : CreateCommit(s) \/ SetRoleCommit(s)
      BY <1>1, GroupsChange DEF DraftsHold
    <2>2. u \in Users /\ User(s) \in Users /\ Role(s) \in Roles
      BY <1>1, <2>1
      DEF CreateCommit, SetRoleCommit, DraftsHold, TypeOK, DirectoryOK, SessionsOK,
          Running, Ended, Jobs, User, Role
    <2>3. u = User(s)
      BY <1>1, <2>1, <2>2
      DEF CreateCommit, SetRoleCommit, DraftsHold, TypeOK, DirectoryOK
    <2>4. ~CreateCommit(s)
      BY <1>1, <2>3 DEF CreateCommit, DraftsHold, LockInv, Creating
    <2>5. /\ Services \notin member[u]
          /\ draft[s] = (member[u] \ Roles) \cup {Role(s)}
      BY <1>1, <2>1, <2>3, <2>4 DEF SetRoleCommit, DraftsHold, DraftInv, SettingRole
    <2>6. member'[u] = draft[s]
      BY <1>1, <2>1, <2>2, <2>3, <2>4 DEF SetRoleCommit, DraftsHold, TypeOK, DirectoryOK
    <2> QED
      BY <2>2, <2>5, <2>6
  <1> QED
    BY <1>1, Drafts, PTL DEF Spec, RoleReplaced

\* An account other sessions can see has its password, its login flag and
\* its one role, wherever the process that creates it dies: the insert, the
\* password and the membership commit together (bsystem-userctl:347-359).
THEOREM AccountsWhole == Spec => AccountsAppearWhole
  <1> DEFINE Whole ==
        \A u \in accounts' \ accounts :
          /\ u \in active' \cap internal' \cap hasPassword'
          /\ \E r \in Roles : member'[u] = {r}
  <1>1. ASSUME DraftsHold, [Next]_vars PROVE [Whole]_vars
    <2> SUFFICES ASSUME NEW u \in accounts' \ accounts
                 PROVE  /\ u \in active' \cap internal' \cap hasPassword'
                        /\ \E r \in Roles : member'[u] = {r}
      OBVIOUS
    <2>1. PICK s \in Sessions : CreateCommit(s) \/ SetRoleCommit(s)
      BY <1>1, GroupsChange DEF DraftsHold
    <2>2. CreateCommit(s) /\ u = User(s)
      BY <2>1 DEF CreateCommit, SetRoleCommit
    <2>3. User(s) \in Users /\ Role(s) \in Roles
      BY <1>1, <2>2
      DEF CreateCommit, DraftsHold, TypeOK, SessionsOK, Running, Ended, Jobs, User, Role
    <2>4. draft[s] = {Role(s)}
      BY <1>1, <2>2 DEF CreateCommit, DraftsHold, DraftInv
    <2>5. member'[u] = {Role(s)}
      BY <1>1, <2>2, <2>3, <2>4 DEF CreateCommit, DraftsHold, TypeOK, DirectoryOK
    <2> QED
      BY <2>2, <2>3, <2>5 DEF CreateCommit
  <1> QED
    BY <1>1, Drafts, PTL DEF Spec, AccountsAppearWhole

-----------------------------------------------------------------------------
(* The last active administrator *)

USE DEF DraftInv


\* A guard query that returned more than one row leaves an administrator
\* whoever is taken away.
LEMMA TwoAdmins ==
  ASSUME NEW S, NEW T, S \subseteq T, ~(Cardinality(S) <= 1), NEW u
  PROVE  T \ {u} # {}
  <1>1. S # {}
    BY FS_EmptySet
  <1>2. S # {u}
    BY FS_Singleton
  <1> QED
    BY <1>1, <1>2

\* What session t relies on survives a step that leaves t and the login
\* flags and memberships alone.
LEMMA ReadFrame ==
  ASSUME NEW t \in Sessions, ReadInv(t),
         pc'[t] = pc[t], job'[t] = job[t],
         counted'[t] = counted[t], draft'[t] = draft[t],
         UNCHANGED <<active, member>>
  PROVE  ReadInv(t)'
  BY DEF ReadInv, User, Role, Expendable, ActiveAdmins, ActiveAdminsOf, SettingRole

\* So it does when another account is added or enabled.
LEMMA ReadGrow ==
  ASSUME NEW t \in Sessions, ReadInv(t), ActiveAdminRemains,
         pc'[t] = pc[t], job'[t] = job[t],
         counted'[t] = counted[t], draft'[t] = draft[t],
         active \subseteq active',
         pc[t] \in InGroup \ {"srUser", "dsUser"} => member'[User(t)] = member[User(t)],
         \A u \in active : member'[u] = member[u]
  PROVE  ReadInv(t)'
  <1>1. ActiveAdmins \subseteq ActiveAdmins'
    BY DEF ActiveAdmins, ActiveAdminsOf
  <1>2. Expendable(User(t)) => Expendable(User(t))'
    BY <1>1 DEF Expendable, ActiveAdminRemains, User
  <1> QED
    BY <1>1, <1>2 DEF ReadInv, User, Role, SettingRole, InGroup

\* A session that has ended relies on nothing.
LEMMA ReadIdle ==
  ASSUME NEW t \in Sessions, pc'[t] \notin InGroup \cup Creating
  PROVE  ReadInv(t)'
  BY DEF ReadInv, InGroup, SettingRole, Creating

\* A quiet step makes its own session rely only on what it has just read
\* under the locks it holds; the guard is what makes Expendable true.
LEMMA QuietReads ==
  ASSUME TypeOK, LockInv, NEW s \in Sessions, Quiet(s), ReadInv(s),
         pc[s] \notin {"pwRead", "pwSave"}
  PROVE  ReadInv(s)' /\ pc'[s] \notin {"pwRead", "pwSave"}
  <1> USE DEF TypeOK, SessionsOK, Goto, Refuse, Finish, lockVars, dirVars, ReadInv,
              User, Role, SettingRole, Expendable, ActiveAdmins, ActiveAdminsOf
  <1>1. CASE CreateCheck(s)
    BY <1>1 DEF CreateCheck
  <1>2. CASE CreateInsert(s)
    BY <1>2 DEF CreateInsert
  <1>3. CASE CreateSave(s)
    BY <1>3 DEF CreateSave
  <1>4. CASE CreateJoin(s)
    BY <1>4 DEF CreateJoin
  <1>5. CASE SetRoleLockGroup(s)
    BY <1>5 DEF SetRoleLockGroup, LockAdminGroup
  <1>6. CASE SetRoleLockUser(s)
    BY <1>6 DEF SetRoleLockUser, LockUser
  <1>7. CASE SetRoleDecide(s)
    BY <1>7 DEF SetRoleDecide
  <1>8. CASE SetRoleQuery(s)
    BY <1>8 DEF SetRoleQuery, QueryAdmins
  <1>9. CASE SetRoleScan(s)
    <2>1. CASE LockAdminRow(s)
      BY <1>9, <2>1 DEF SetRoleScan, LockAdminRow
    <2>2. CASE JudgeAdmins(s, "srRemove")
      <3>1. CASE Refuse(s)
        BY <3>1
      <3>2. CASE ~LastActiveAdmin(s) /\ Goto(s, "srRemove")
                 /\ UNCHANGED <<dirVars, job, sawActive, scan, counted, draft, lockVars>>
        <4>1. ActiveAdmins \ {User(s)} # {}
          BY <1>9, <3>2, TwoAdmins DEF SetRoleScan, LastActiveAdmin
        <4> QED
          BY <1>9, <3>2, <4>1 DEF SetRoleScan
      <3> QED
        BY <2>2, <3>1, <3>2 DEF JudgeAdmins
    <2> QED
      BY <1>9, <2>1, <2>2 DEF SetRoleScan
  <1>10. CASE SetRoleRemove(s)
    BY <1>10 DEF SetRoleRemove
  <1>11. CASE SetRoleAdd(s)
    BY <1>11 DEF SetRoleAdd
  <1>12. CASE DisableLockGroup(s)
    BY <1>12 DEF DisableLockGroup, LockAdminGroup
  <1>13. CASE DisableLockUser(s)
    BY <1>13 DEF DisableLockUser, LockUser
  <1>14. CASE DisableDecide(s)
    BY <1>14 DEF DisableDecide
  <1>15. CASE DisableQuery(s)
    BY <1>15 DEF DisableQuery, QueryAdmins
  <1>16. CASE DisableScan(s)
    <2>1. CASE LockAdminRow(s)
      BY <1>16, <2>1 DEF DisableScan, LockAdminRow
    <2>2. CASE JudgeAdmins(s, "dsSave")
      <3>1. CASE Refuse(s)
        BY <3>1
      <3>2. CASE ~LastActiveAdmin(s) /\ Goto(s, "dsSave")
                 /\ UNCHANGED <<dirVars, job, sawActive, scan, counted, draft, lockVars>>
        <4>1. ActiveAdmins \ {User(s)} # {}
          BY <1>16, <3>2, TwoAdmins DEF DisableScan, LastActiveAdmin
        <4> QED
          BY <1>16, <3>2, <4>1 DEF DisableScan
      <3> QED
        BY <2>2, <3>1, <3>2 DEF JudgeAdmins
    <2> QED
      BY <1>16, <2>1, <2>2 DEF DisableScan
  <1>17. CASE DisableSave(s)
    BY <1>17 DEF DisableSave
  <1>18. CASE EnableRead(s)
    BY <1>18 DEF EnableRead
  <1> QED
    BY <1>1, <1>2, <1>3, <1>4, <1>5, <1>6, <1>7, <1>8, <1>9,
       <1>10, <1>11, <1>12, <1>13, <1>14, <1>15, <1>16, <1>17, <1>18 DEF Quiet

\* Everything the sessions rely on, and an active administrator.
SafeReads ==
  /\ \A s \in Sessions : pc[s] \notin {"pwRead", "pwSave"} /\ ReadInv(s)
  /\ ActiveAdminRemains

LEMMA SafeNext ==
  ASSUME TypeOK, LockInv, SafeReads, [Next]_vars, "passwd" \notin Commands
  PROVE  SafeReads'
  <1>1. CASE UNCHANGED vars
    BY <1>1, ReadFrame
    DEF vars, dirVars, sessionVars, SafeReads, ActiveAdminRemains, ActiveAdmins, ActiveAdminsOf
  <1>2. ASSUME NEW s \in Sessions, Start(s) PROVE SafeReads'
    <2>1. pc'[s] \notin InGroup \cup Creating \cup {"pwRead", "pwSave"}
      BY <1>2, CommandAssumption
      DEF Start, FirstLabel, AllCommands, Goto, TypeOK, SessionsOK, InGroup, SettingRole, Creating
    <2>2. \A t \in Sessions \ {s} : pc'[t] = pc[t] /\ job'[t] = job[t]
      BY <1>2 DEF Start, Goto, TypeOK, SessionsOK
    <2> QED
      BY <1>2, <2>1, <2>2, ReadIdle, ReadFrame
      DEF Start, SafeReads, ActiveAdminRemains, ActiveAdmins, ActiveAdminsOf, dirVars
  <1>3. ASSUME NEW s \in Sessions, NEW o \in Ended, Finish(s, o), UNCHANGED dirVars
        PROVE  SafeReads'
    <2>1. pc'[s] \notin InGroup \cup Creating \cup {"pwRead", "pwSave"}
      BY <1>3 DEF Finish, Goto, TypeOK, SessionsOK, InGroup, SettingRole, Creating, Ended
    <2>2. \A t \in Sessions \ {s} :
            /\ pc'[t] = pc[t] /\ job'[t] = job[t]
            /\ counted'[t] = counted[t] /\ draft'[t] = draft[t]
      BY <1>3 DEF Finish, Goto, TypeOK, SessionsOK
    <2> QED
      BY <1>3, <2>1, <2>2, ReadIdle, ReadFrame
      DEF SafeReads, ActiveAdminRemains, ActiveAdmins, ActiveAdminsOf, dirVars
  <1>4. ASSUME NEW s \in Sessions, Quiet(s) PROVE SafeReads'
    <2>1. ReadInv(s)' /\ pc'[s] \notin {"pwRead", "pwSave"}
      BY <1>4, QuietReads DEF SafeReads
    <2>2. \A t \in Sessions \ {s} : ReadInv(t)' /\ pc'[t] = pc[t]
      BY <1>4, QuietFrame, ReadFrame DEF SafeReads, dirVars
    <2>3. ActiveAdminRemains'
      BY <1>4, QuietFrame DEF SafeReads, ActiveAdminRemains, ActiveAdmins, ActiveAdminsOf, dirVars
    <2> QED
      BY <2>1, <2>2, <2>3 DEF SafeReads
  <1>5. ASSUME NEW s \in Sessions, NEW o \in Ended, Finish(s, o), Running(s)
        PROVE  /\ ReadInv(s)' /\ pc'[s] \notin {"pwRead", "pwSave"}
               /\ \A t \in Sessions \ {s} :
                    /\ pc'[t] = pc[t] /\ job'[t] = job[t]
                    /\ counted'[t] = counted[t] /\ draft'[t] = draft[t]
    <2>1. pc'[s] \notin InGroup \cup Creating \cup {"pwRead", "pwSave"}
      BY <1>5 DEF Finish, Goto, TypeOK, SessionsOK, InGroup, SettingRole, Creating, Ended
    <2>2. \A t \in Sessions \ {s} :
            /\ pc'[t] = pc[t] /\ job'[t] = job[t]
            /\ counted'[t] = counted[t] /\ draft'[t] = draft[t]
      BY <1>5 DEF Finish, Goto, TypeOK, SessionsOK
    <2> QED
      BY <2>1, <2>2, ReadIdle
  <1>6. ASSUME NEW s \in Sessions, CreateCommit(s) PROVE SafeReads'
    <2>1. User(s) \in Users /\ User(s) \notin accounts
      BY <1>6 DEF CreateCommit, TypeOK, SessionsOK, Running, Ended, Jobs, User, LockInv, Creating
    <2>2. \A u \in Users \ {User(s)} : member'[u] = member[u]
      BY <1>6, <2>1 DEF CreateCommit, TypeOK, DirectoryOK
    <2>3. \A u \in active : member'[u] = member[u]
      BY <2>1, <2>2 DEF LockInv, TypeOK, DirectoryOK
    <2>4. active \subseteq active'
      BY <1>6 DEF CreateCommit
    <2>5. \A t \in Sessions \ {s} :
            pc[t] \in InGroup \ {"srUser", "dsUser"} => member'[User(t)] = member[User(t)]
      BY <2>1, <2>2 DEF LockInv, TypeOK, DirectoryOK
    <2>6. \A t \in Sessions \ {s} : ReadInv(t)' /\ pc'[t] = pc[t]
      BY <1>5, <1>6, <2>3, <2>4, <2>5, ReadGrow
      DEF CreateCommit, SafeReads, Running, Ended
    <2>7. ActiveAdminRemains'
      BY <2>3, <2>4 DEF SafeReads, ActiveAdminRemains, ActiveAdmins, ActiveAdminsOf
    <2> QED
      BY <1>5, <1>6, <2>6, <2>7 DEF CreateCommit, SafeReads, Running, Ended
  <1>7. ASSUME NEW s \in Sessions, EnableSave(s) PROVE SafeReads'
    <2>1. active \subseteq active' /\ member' = member
      BY <1>7 DEF EnableSave
    <2>2. \A t \in Sessions \ {s} : ReadInv(t)' /\ pc'[t] = pc[t]
      BY <1>5, <1>7, <2>1, ReadGrow DEF EnableSave, SafeReads, Running, Ended
    <2>3. ActiveAdminRemains'
      BY <2>1 DEF SafeReads, ActiveAdminRemains, ActiveAdmins, ActiveAdminsOf
    <2> QED
      BY <1>5, <1>7, <2>2, <2>3 DEF EnableSave, SafeReads, Running, Ended
  <1>8. ASSUME NEW s \in Sessions, pc[s] \in InGroup, NEW o \in Ended, Finish(s, o)
        PROVE  \A t \in Sessions : ReadInv(t)' /\ pc'[t] \notin {"pwRead", "pwSave"}
    <2>1. \A t \in Sessions \ {s} : pc[t] \notin InGroup
      BY <1>8 DEF LockInv
    <2>2. \A t \in Sessions \ {s} : ReadInv(t)'
      BY <1>5, <1>8, <2>1
      DEF SafeReads, ReadInv, InGroup, SettingRole, Running, Ended, User, Role
    <2> QED
      BY <1>5, <1>8, <2>2 DEF SafeReads, Running, Ended, InGroup, SettingRole
  <1>9. ASSUME NEW s \in Sessions, SetRoleCommit(s) PROVE SafeReads'
    <2>1. User(s) \in Users /\ Role(s) \in Roles
      BY <1>9 DEF SetRoleCommit, TypeOK, SessionsOK, Running, Ended, Jobs, User, Role
    <2>2. \A u \in Users \ {User(s)} : member'[u] = member[u]
      BY <1>9, <2>1 DEF SetRoleCommit, TypeOK, DirectoryOK
    <2>3. Role(s) # Admins => Expendable(User(s))
      BY <1>9 DEF SetRoleCommit, SafeReads, ReadInv, SettingRole
    <2>4. Role(s) = Admins => Admins \in member'[User(s)]
      BY <1>9, <2>1 DEF SetRoleCommit, SafeReads, ReadInv, TypeOK, DirectoryOK
    <2>5. ActiveAdminRemains'
      BY <1>9, <2>2, <2>3, <2>4
      DEF SetRoleCommit, SafeReads, ActiveAdminRemains, ActiveAdmins, ActiveAdminsOf,
          Expendable, TypeOK, DirectoryOK
    <2> QED
      BY <1>8, <1>9, <2>5 DEF SetRoleCommit, SafeReads, InGroup, SettingRole, Ended
  <1>10. ASSUME NEW s \in Sessions, DisableCommit(s) PROVE SafeReads'
    <2>1. Expendable(User(s))
      BY <1>10 DEF DisableCommit, SafeReads, ReadInv
    <2>2. ActiveAdminRemains'
      BY <1>10, <2>1
      DEF DisableCommit, SafeReads, ActiveAdminRemains, ActiveAdmins, ActiveAdminsOf, Expendable
    <2> QED
      BY <1>8, <1>10, <2>2 DEF DisableCommit, SafeReads, InGroup, Ended
  <1>11. ASSUME NEW s \in Sessions, Crash(s) PROVE SafeReads'
    BY <1>3, <1>11 DEF Crash, Refuse, Ended
  <1>12. ASSUME NEW s \in Sessions, Step(s) PROVE SafeReads'
    <2>1. ~PasswdRead(s) /\ ~PasswdSave(s)
      BY DEF SafeReads, PasswdRead, PasswdSave
    <2> QED
      BY <1>4, <1>6, <1>7, <1>9, <1>10, <1>12, <2>1 DEF Step, Quiet
  <1> QED
    BY <1>1, <1>2, <1>11, <1>12 DEF Next, AllEnded

\* Without passwd, IndInv is inductive.
THEOREM Inductive ==
  ASSUME "passwd" \notin Commands
  PROVE  Spec => []IndInv
  <1>1. IndInv <=> TypeOK /\ LockInv /\ SafeReads
    BY DEF IndInv, SafeReads
  <1>2. Init => SafeReads
    BY DirectoryAssumption
    DEF Init, InitialDirectory, SafeReads, ReadInv, SettingRole, ActiveAdminRemains, ActiveAdmins
  <1>3. TypeOK /\ LockInv /\ SafeReads /\ [Next]_vars => SafeReads'
    BY SafeNext
  <1> QED
    BY <1>1, <1>2, <1>3, TypeInit, LockInit, TypeNext, LockNext, PTL DEF Spec

\* The final active administrator is never removed
\* (docs/USER-ADMINISTRATION.md:115), however many invocations of create,
\* set-role, disable and enable run at once and wherever they die.
THEOREM LastAdminSafe ==
  ASSUME "passwd" \notin Commands
  PROVE  Spec => []ActiveAdminRemains
  <1>1. IndInv => ActiveAdminRemains
    BY DEF IndInv
  <1> QED
    BY <1>1, Inductive, PTL

-----------------------------------------------------------------------------
(* Every command takes effect at once *)

\* Each commit is one step of the promise, under the promise's own guard;
\* every other step leaves the directory as it was.
LEMMA StepSimulation ==
  ASSUME IndInv, [Next]_vars, "passwd" \notin Commands
  PROVE  [Promise!Next]_(Promise!dirVars)
  <1> USE DEF Promise!dirVars, dirVars
  <1>1. CASE UNCHANGED vars
    BY <1>1 DEF vars
  <1>2. ASSUME NEW s \in Sessions, Start(s) \/ Crash(s) PROVE UNCHANGED dirVars
    BY <1>2 DEF Start, Crash, Refuse
  <1>3. ASSUME NEW s \in Sessions, Running(s) PROVE User(s) \in Users /\ Role(s) \in Roles
    BY <1>3 DEF IndInv, TypeOK, SessionsOK, Jobs, User, Role
  <1>4. ASSUME NEW s \in Sessions, Quiet(s) PROVE UNCHANGED dirVars
    BY <1>4, QuietFrame DEF IndInv
  <1>5. ASSUME NEW s \in Sessions, CreateCommit(s) PROVE Promise!Create(User(s), Role(s))
    BY <1>5
    DEF CreateCommit, Promise!Create, IndInv, LockInv, ReadInv, Creating
  <1>6. ASSUME NEW s \in Sessions, SetRoleCommit(s) PROVE Promise!SetRole(User(s), Role(s))
    <2>1. /\ User(s) \in accounts
          /\ Services \notin member[User(s)]
          /\ Role(s) # Admins => Expendable(User(s))
          /\ draft[s] = (member[User(s)] \ Roles) \cup {Role(s)}
      BY <1>6 DEF SetRoleCommit, IndInv, LockInv, ReadInv, InGroup, SettingRole
    <2> QED
      BY <1>6, <2>1
      DEF SetRoleCommit, Promise!SetRole, Expendable, Promise!Expendable,
          ActiveAdmins, Promise!ActiveAdmins, ActiveAdminsOf, Promise!ActiveAdminsOf
  <1>7. ASSUME NEW s \in Sessions, DisableCommit(s) PROVE Promise!Disable(User(s))
    <2>1. User(s) \in active /\ Expendable(User(s))
      BY <1>7 DEF DisableCommit, IndInv, ReadInv
    <2> QED
      BY <1>7, <2>1
      DEF DisableCommit, Promise!Disable, Expendable, Promise!Expendable,
          ActiveAdmins, Promise!ActiveAdmins, ActiveAdminsOf, Promise!ActiveAdminsOf
  <1>8. ASSUME NEW s \in Sessions, EnableSave(s) PROVE Promise!Enable(User(s))
    BY <1>8 DEF EnableSave, Promise!Enable, IndInv, LockInv
  <1>9. ASSUME NEW s \in Sessions, Step(s) PROVE [Promise!Next]_(Promise!dirVars)
    <2>1. ~PasswdRead(s) /\ ~PasswdSave(s)
      BY DEF IndInv, PasswdRead, PasswdSave
    <2>2. CASE Quiet(s)
      BY <1>4, <2>2
    <2>3. CASE ~Quiet(s)
      <3>1. \/ CreateCommit(s) \/ SetRoleCommit(s) \/ DisableCommit(s) \/ EnableSave(s)
        BY <1>9, <2>1, <2>3 DEF Step, Quiet
      <3>2. User(s) \in Users /\ Role(s) \in Roles
        BY <1>3, <3>1
        DEF CreateCommit, SetRoleCommit, DisableCommit, EnableSave, Running, Ended
      <3> QED
        BY <1>5, <1>6, <1>7, <1>8, <3>1, <3>2 DEF Promise!Next
    <2> QED
      BY <2>2, <2>3
  <1> QED
    BY <1>1, <1>2, <1>4, <1>9 DEF Next, AllEnded

\* Concurrent create, set-role, disable and enable are linearizable: they
\* implement the atomic, guarded commands of UserDirectory.
THEOREM Refinement ==
  ASSUME "passwd" \notin Commands
  PROVE  Spec => Implements
  <1>1. Init => Promise!InitialDirectory
    BY DEF Init, InitialDirectory, Promise!InitialDirectory
  <1>2. IndInv /\ [Next]_vars => [Promise!Next]_(Promise!dirVars)
    BY StepSimulation
  <1> QED
    BY <1>1, <1>2, Inductive, PTL DEF Spec, Implements, Promise!Spec
=============================================================================
