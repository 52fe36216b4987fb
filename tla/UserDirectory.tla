---------------------------- MODULE UserDirectory ----------------------------
(***************************************************************************)
(* What the user-administration CLI promises of the directory it           *)
(* administers (docs/USER-ADMINISTRATION.md, "Role behavior" and           *)
(* "Administrator safety"): every command takes effect at once or not at   *)
(* all, a role replaces the previous one, no human role reaches a service  *)
(* identity, and no command takes away the last active administrator.      *)
(* UserCtl implements this specification with concurrent transactions.     *)
(***************************************************************************)

EXTENDS Accounts

Create(u, r) ==
  /\ u \notin accounts
  /\ accounts' = accounts \cup {u}
  /\ active' = active \cup {u}
  /\ internal' = internal \cup {u}
  /\ hasPassword' = hasPassword \cup {u}
  /\ member' = [member EXCEPT ![u] = {r}]

SetRole(u, r) ==
  /\ u \in accounts
  /\ Services \notin member[u]
  /\ r # Admins => Expendable(u)
  /\ member' = [member EXCEPT ![u] = (@ \ Roles) \cup {r}]
  /\ UNCHANGED <<accounts, active, internal, hasPassword>>

Disable(u) ==
  /\ u \in active
  /\ Expendable(u)
  /\ active' = active \ {u}
  /\ UNCHANGED <<accounts, member, internal, hasPassword>>

Enable(u) ==
  /\ u \in accounts
  /\ active' = active \cup {u}
  /\ UNCHANGED <<accounts, member, internal, hasPassword>>

SetPassword(u) ==
  /\ u \in internal
  /\ hasPassword' = hasPassword \cup {u}
  /\ UNCHANGED <<accounts, active, member, internal>>

Next ==
  \E u \in Users :
    \/ \E r \in Roles : Create(u, r) \/ SetRole(u, r)
    \/ Disable(u)
    \/ Enable(u)
    \/ SetPassword(u)

Spec == InitialDirectory /\ [][Next]_dirVars
=============================================================================
