----------------------------- MODULE NameChecks -----------------------------
(* The checks that compare lists of names written down in several places:
   check-identity-groups.py, check-global-ids.py, check-scan-coverage.py and
   check-service-identity-scopes.py.

   A check reads a repository f, a record of the facts its patterns extract,
   and possibly core, the Integration Core checked out beside it (None when
   it is not).  Of f, this module reads
     f.blueprint    the values of name: in bsystem-groups.yaml
     f.principals   the Groups literals of principals.go, a set of sets
     f.setup        AUTHENTIK-OIDC.md: the names in its bullets and elsewhere
     f.rules        the Global ID prefixes CLAUDE.md documents
     f.modules      the directories with a go.mod
     f.matrix       the modules the matrix of each scanner job names
     f.rows         the permission rows of SERVICE-IDENTITIES.md, in order
     f.usernames    the identities the blueprint provisions
   and of core its migrations, in the order of their names.  The first three
   and the two service identity files may be Unreadable. *)
EXTENDS Integers, Sequences, FiniteSets, Verdicts

CONSTANT Groups   \* the names that begin with BSYSTEM-

(***************************************************************************)
(* check-identity-groups.py                                                *)
(***************************************************************************)
\* Mistake: only what the left list has and the right one lacks.
CompareLeft(leftName, left, rightName, right) ==
  {<<n, leftName, rightName>> : n \in left \ right}

\* A finding <<n, a, b>> says that n is in list a but not in list b.
Compare(leftName, left, rightName, right) ==
       {<<n, leftName, rightName>> : n \in left \ right}
  \cup {<<n, rightName, leftName>> : n \in right \ left}

BlueprintGroups(text)  == text \cap Groups
PrincipalGroups(text)  == Groups \cap UNION text
DocumentedGroups(text) == text.bullets \cap Groups

\* The first INSERT INTO group_role_mappings of a migration.
SeededGroups(text) ==
  IF text.inserts = <<>> THEN {} ELSE Head(text.inserts) \cap Groups

\* The seed is the first migration that seeds a group; the later ones are
\* not read.
Seed(core) ==
  LET seeding == {i \in DOMAIN core.migrations :
                    SeededGroups(core.migrations[i]) # {}}
  IN  UNION {SeededGroups(core.migrations[i]) :
               i \in {k \in seeding : \A j \in seeding : k <= j}}

CheckIdentityGroups(f, core) ==
  LET blueprint == BlueprintGroups(f.blueprint)
      mock == Compare("blueprint", blueprint,
                      "mock", PrincipalGroups(f.principals))
      setup == Compare("blueprint", blueprint,
                       "setup", DocumentedGroups(f.setup))
      seeded == IF core = None THEN {} ELSE Seed(core)
      seed == IF seeded = {} THEN {}
              ELSE Compare("blueprint", blueprint, "seed", seeded)
  IN  IF \/ f.blueprint = Unreadable \/ f.principals = Unreadable
         \/ blueprint = {} \/ PrincipalGroups(f.principals) = {}
        THEN Refuse({})
      ELSE IF f.setup = Unreadable \/ DocumentedGroups(f.setup) = {}
        THEN Refuse(mock)
      ELSE [Judge(mock \cup setup \cup seed) EXCEPT !.compared = seeded # {}]

(***************************************************************************)
(* check-global-ids.py                                                     *)
(***************************************************************************)
\* Every migration that mentions the counters table is read.
SeededPrefixes(core) ==
  UNION {core.migrations[i].prefixes :
           i \in {j \in DOMAIN core.migrations : core.migrations[j].counters}}

\* No seeded prefix and no Core beside the repository are one case here:
\* seeded_prefixes returns None for both.
CheckGlobalIds(f, core) ==
  LET seeded == IF core = None THEN {} ELSE SeededPrefixes(core)
  IN  IF Cardinality(f.rules) < 2 THEN Refuse({})
      ELSE IF seeded = {} THEN Note
      ELSE Judge(Compare("rules", f.rules, "seed", seeded))

(***************************************************************************)
(* check-scan-coverage.py                                                  *)
(***************************************************************************)
ScannedBy == {"vulnerabilities", "staticcheck"}

Uncovered(f, job) ==
  IF f.matrix[job] = Unreadable THEN {<<job, "matrix">>}
  ELSE {<<job, "missing", m>> : m \in f.modules \ f.matrix[job]}
       \cup {<<job, "stale", m>> : m \in f.matrix[job] \ f.modules}

CheckScanCoverage(f) ==
  IF Cardinality(f.modules) < 2 THEN Refuse({})
  ELSE Judge(UNION {Uncovered(f, job) : job \in ScannedBy})

(***************************************************************************)
(* check-service-identity-scopes.py                                        *)
(***************************************************************************)
ReadOnlyIdentities == {"svc-outline"}

\* Of several rows for one identity the last one counts.
DocumentedPermissions(rows) ==
  [id \in {rows[i].identity : i \in DOMAIN rows} |->
     rows[CHOOSE i \in DOMAIN rows :
            /\ rows[i].identity = id
            /\ \A j \in i + 1 .. Len(rows) : rows[j].identity # id].permissions]

CheckServiceIdentityScopes(f) ==
  LET documented == DocumentedPermissions(f.rows)
      readers == ReadOnlyIdentities \cap DOMAIN documented
  IN  IF f.rows = Unreadable \/ f.usernames = Unreadable THEN Refuse({})
      ELSE IF DOMAIN documented = {} \/ f.usernames = {} THEN Refuse({})
      ELSE Judge(
             Compare("table", DOMAIN documented, "blueprint", f.usernames)
        \cup {<<id, "writes">> :
                id \in {r \in readers :
                          "relationships.write" \in documented[r]}}
        \cup {<<id, "cannot read">> :
                id \in {r \in readers :
                          "relationships.read" \notin documented[r]}})
=============================================================================
