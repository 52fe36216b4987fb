----------------------------- MODULE MCUserCtl ------------------------------
(* Small instances of UserCtl for TLC. *)
EXTENDS UserCtl, TLC

\* Every directory over Users in which each account holds a group set of
\* StartingGroups, service identities are not of type internal, and an
\* active administrator exists.  Groups set outside the script may be no
\* role at all or several accumulated ones.
StartingGroups == {{r} : r \in Roles} \cup {{Services}} \cup {{}, Roles}

MCDirectories ==
  { d \in
    UNION { { [accounts |-> a, active |-> on, member |-> m,
               internal |-> {u \in a : Services \notin m[u]},
               hasPassword |-> {u \in a : Services \notin m[u]}] :
              on \in SUBSET a,
              m \in { f \in [Users -> StartingGroups] :
                        \A u \in Users \ a : f[u] = {} } } :
            a \in SUBSET Users } :
    ActiveAdminsOf(d.active, d.member) # {} }

\* The directories that tell most, few enough for liveness without symmetry:
\* one active administrator, on whom the guard insists, and two, the fewest
\* with which commands get through and lock several rows, of whom one may
\* hold another role besides and lose it.
First == CHOOSE u \in Users : TRUE

MCTelling ==
  { d \in MCDirectories :
      /\ d.active = d.accounts /\ d.accounts \in {{First}, Users}
      /\ d.member[First] \in {{Admins}, Roles}
      /\ \A u \in d.accounts \ {First} : d.member[u] = {Admins}
      /\ d.accounts = {First} => d.member[First] = {Admins} }

Symmetry == Permutations(Sessions) \cup Permutations(Users)
=============================================================================
