------------------------------ MODULE Promises ------------------------------
(* What the consistency checks are for, said of the repository and not of
   the scripts: what a job that passed promises (Promise), what a check must
   have found to look at before it may say so (Substance), what it needs to
   be able to say what is wrong (Input), and that nothing else is turned away
   (NoFalseAlarm).  Addresses are judged by their bits
   and endpoints by what instantiates a path, which is not how the scripts
   do it. *)
EXTENDS CiJobs

(***************************************************************************)
(* The repository's promises.                                              *)
(***************************************************************************)
\* Container name, of service s, gives nothing away.
Contained(name, s) ==
  /\ s.no_new_privileges /\ ~s.privileged
  /\ IF name \in CapabilityExempt THEN s.cap_drop = {} ELSE "ALL" \in s.cap_drop
  /\ name \in ReadOnly => s.read_only
  /\ \A m \in s.mounts : /\ m.source # DockerSocket
                         /\ m.type = "bind" => m.read_only
  /\ \A p \in s.ports : p.published # None =>
       p.host_ip # None /\ p.host_ip \notin {"", "0.0.0.0", "::"}
  /\ \A v \in DOMAIN AdminSecretEnv \cap s.environment : name \in AdminSecretEnv[v]

StackContained(services) ==
  \A name \in DOMAIN services :
    services[name].profiles = {} => Contained(name, services[name])

HubLeftOut(services) ==
  /\ "hub" \in DOMAIN services /\ "hub" \in services["hub"].profiles
  /\ \A m \in ExpectedMocks : m \in DOMAIN services /\ services[m].profiles = {}

\* The bits of an address, the first one first.
Weight == <<128, 64, 32, 16, 8, 4, 2, 1>>
Bit(a, k) == (a[k \div 8 + 1] \div Weight[(k % 8) + 1]) % 2
Within(a, net, bits) == \A k \in 0 .. bits - 1 : Bit(a, k) = Bit(net, k)

\* RFC 1918, RFC 5737, loopback and "this host": nobody is reached there.
Nowhere ==
  {<<<<10, 0, 0, 0>>, 8>>, <<<<172, 16, 0, 0>>, 12>>, <<<<192, 168, 0, 0>>, 16>>,
   <<<<127, 0, 0, 0>>, 8>>, <<<<192, 0, 2, 0>>, 24>>, <<<<198, 51, 100, 0>>, 24>>,
   <<<<203, 0, 113, 0>>, 24>>, <<<<0, 0, 0, 0>>, 32>>}

PublicAddress(a) ==
  /\ \A i \in 1 .. 4 : a[i] <= 255
  /\ \A n \in Nowhere : ~Within(a, n[1], n[2])

\* RFC 2606 and RFC 6761.
SomebodysHost(h) ==
  /\ Last(h) \notin {"example", "invalid", "test", "localhost", "local"}
  /\ h \notin {<<"example", "com">>, <<"example", "org">>, <<"example", "net">>}

DocsAgree(f) ==
  /\ f.used \subseteq f.declared \cup UndocumentedVariables
  /\ \A d \in Followed(f) :
       /\ \A p \in f.docs[d].ports \ ExternalPorts :
            \E s \in DOMAIN f.stacks : \E n \in DOMAIN f.stacks[s] :
              \E q \in f.stacks[s][n].ports : q.published = p
       /\ \A n \in f.docs[d].services \ NotAService :
            \E s \in DOMAIN f.stacks : n \in DOMAIN f.stacks[s]
       /\ \A a \in f.docs[d].addresses : ~PublicAddress(a)
       /\ \A h \in NamedHosts(f.docs[d]) : ~SomebodysHost(h)

\* A link leads to a file, of this repository or of one that is checked out
\* beside it; one into a repository which is not is nobody's fault.  A path
\* in one of this repository's directories is a file of it, and no file that
\* was generated or downloaded.
LinksLead(f, c) ==
  LET below(p, files) == \E x \in files : IsPrefix(p, x)
      at(s) == BesideRepo(c)[s]
  IN  \A d \in DOMAIN f.docs :
        /\ \A l \in f.docs[d].links :
             \/ l.resolved[1] # ".." /\ below(l.resolved, f.files)
             \/ /\ l.resolved[1] = ".." /\ at(l.resolved[2]) # None
                /\ below(Tail(Tail(l.resolved)), at(l.resolved[2]))
             \/ /\ Len(l.target) > 1 /\ l.target[1] \in Siblings
                /\ at(l.target[1]) = None \/ below(Tail(l.target), at(l.target[1]))
        /\ \A s \in f.docs[d].spans :
             Len(Candidate(s)) > 1 /\ Candidate(s)[1] \in OwnedRoots =>
               /\ Candidate(s) \in f.files
               /\ \A i \in DOMAIN Candidate(s) : Candidate(s)[i] \notin SkipDirs

\* Segment by segment, a placeholder being any name; braces around nothing
\* are a placeholder too.
Instantiates(e, p) ==
  /\ DOMAIN e = DOMAIN p
  /\ \A i \in DOMAIN p : p[i] \in Placeholders \cup {"{}"} \/ e[i] = p[i]

EndpointsServed(f, c) ==
  c # None => \A d \in Followed(f) : \A e \in Checked(f.docs[d]) :
                \E p \in CoreContent[c].served : Instantiates(e, p)

\* One segment replaced by a placeholder of another name is the same path.
AsServed(f, c) ==
  c # None => \A d \in Followed(f) : \A e \in Checked(f.docs[d]) :
    \E p \in CoreContent[c].served :
      /\ DOMAIN e = DOMAIN p
      /\ \A i \in DOMAIN p : e[i] = p[i] \/ {e[i], p[i]} \subseteq Placeholders

\* Of the Core's migrations that seed groups, the first one counts.
GroupsAgree(f, c) ==
  /\ BlueprintGroups(f.blueprint) = PrincipalGroups(f.principals)
  /\ BlueprintGroups(f.blueprint) = DocumentedGroups(f.setup)
  /\ c # None => \A i \in DOMAIN CoreContent[c].migrations :
       \/ SeededGroups(CoreContent[c].migrations[i]) = {}
       \/ SeededGroups(CoreContent[c].migrations[i]) = BlueprintGroups(f.blueprint)
       \/ \E j \in DOMAIN CoreContent[c].migrations :
            j < i /\ SeededGroups(CoreContent[c].migrations[j]) # {}

\* A prefix that any migration seeds is documented, and the other way round.
PrefixesAgree(f, c) ==
  LET seeded(p) == \E i \in DOMAIN CoreContent[c].migrations :
                     /\ CoreContent[c].migrations[i].counters
                     /\ p \in CoreContent[c].migrations[i].prefixes
  IN  c # None /\ (\E i \in DOMAIN CoreContent[c].migrations :
                     \E p \in CoreContent[c].migrations[i].prefixes : seeded(p)) =>
        /\ \A p \in f.rules : seeded(p)
        /\ \A i \in DOMAIN CoreContent[c].migrations :
             \A p \in CoreContent[c].migrations[i].prefixes : seeded(p) => p \in f.rules

EveryModuleScanned(f) ==
  \A j \in ScannedBy : f.matrix[j] # Unreadable /\ f.matrix[j] = f.modules

\* The row that counts is the last of an identity.
LeastPrivilege(f) ==
  /\ {f.rows[i].identity : i \in DOMAIN f.rows} = f.usernames
  /\ \A i \in DOMAIN f.rows :
       \/ f.rows[i].identity \notin ReadOnlyIdentities
       \/ \E j \in i + 1 .. Len(f.rows) : f.rows[j].identity = f.rows[i].identity
       \/ /\ "relationships.read" \in f.rows[i].permissions
          /\ "relationships.write" \notin f.rows[i].permissions

\* Of every program go build may write one of, the default path is ignored;
\* and nothing that begins like a program, or like compiled Python, is there.
TreeIsSource(f) ==
  /\ \A m \in f.gomods : \A p \in f.mains :
       \/ p # m /\ ~(IsPrefix(m \o <<"cmd">>, p) /\ Len(p) = Len(m) + 2)
       \/ m \o <<Last(p)>> \in f.ignored
  /\ \A p \in DOMAIN f.tracked : f.tracked[p].kind = "file" =>
       /\ \A m \in Magic : ~IsPrefix(m, f.tracked[p].head)
       /\ ~(/\ Len(f.tracked[p].head) >= 8
            /\ f.tracked[p].head[3] = CR /\ f.tracked[p].head[4] = LF
            /\ 0 \in {f.tracked[p].head[i] : i \in 5 .. 8})

\* What RFC 2606 and RFC 6761 (and, for local, RFC 6762) keep for
\* documentation and local use.
ForDocumentation(h) ==
  \/ Last(h) \in {"example", "invalid", "test", "localhost", "local"}
  \/ /\ Len(h) > 1 /\ h[Len(h) - 1] = "example"
     /\ Last(h) \in {"com", "org", "net"}

\* What is kept for nobody and passes for it all the same: test.com and
\* foo.local.net can be registered, and may be somebody's.
TakenForDocumentation(h) ==
  /\ Len(h) > 1 /\ Last(h) \in {"com", "org", "net"}
  /\ h[Len(h) - 1] \in {"invalid", "test", "localhost", "local"}

\* In the files that are read as text there is no literal value; and a host,
\* named with a scheme or under a top-level domain of the list, is one that
\* is allowed by name, one for documentation, or one taken for that.
NothingLiteral(f) ==
  \A p \in Scanned(f) :
    /\ f.tracked[p].assignments \subseteq Harmless
    /\ \A h \in f.tracked[p].urls \cup f.tracked[p].names :
         \/ h \in AllowedHosts
         \/ ForDocumentation(h) \/ TakenForDocumentation(h)
         \/ h \notin f.tracked[p].urls /\ ~(Len(h) > 1 /\ Last(h) \in RealTLDs)

Promise(check, f, c) ==
  CASE check = "hardening"        -> StackContained(f.stacks[Base])
                                     /\ StackContained(f.stacks[E2E])
    [] check = "stage hardening"  -> StackContained(f.stacks[Stage])
    [] check = "stage1 hardening" -> StackContained(f.stacks[Stage1])
    [] check = "overlay"          -> HubLeftOut(f.stacks[Stage1])
    [] check = "secrets"          -> NothingLiteral(f)
    [] check = "links"            -> LinksLead(f, c)
    [] check = "config"           -> DocsAgree(f)
    [] check = "coverage"         -> EveryModuleScanned(f)
    [] check = "artifacts"        -> TreeIsSource(f)
    [] check = "groups"           -> GroupsAgree(f, c)
    [] check = "scopes"           -> LeastPrivilege(f)
    [] check = "prefixes"         -> PrefixesAgree(f, c)
    [] check = "endpoints"        -> EndpointsServed(f, c)

(***************************************************************************)
(* What there must be to look at.                                          *)
(***************************************************************************)
\* The stacks can be read, something runs in each, and somewhere a directory
\* of the host is mounted.
Inspected(f, labels) ==
  /\ \A l \in labels : f.stacks[l] # Unreadable /\ DOMAIN Render(f.stacks[l]) # {}
  /\ \E l \in labels : \E s \in DOMAIN Render(f.stacks[l]) : Binds(f.stacks[l][s]) # {}

\* No two checks need the same.  The links and the secrets are looked for in
\* whatever there is, and the endpoints only with the Core beside the
\* repository.
Substance(check, f, c) ==
  CASE check = "hardening"        -> Inspected(f, {Base, E2E})
    [] check = "stage hardening"  -> Inspected(f, {Stage})
    [] check = "stage1 hardening" -> Inspected(f, {Stage1})
    [] check = "overlay"          -> /\ f.stacks[Stage1] # Unreadable
                                     /\ DOMAIN Render(f.stacks[Stage1]) # {}
    [] check = "secrets"          -> \A p \in DOMAIN f.tracked :
                                       f.tracked[p].excluded \/ f.tracked[p].kind # "unreadable"
    [] check = "links"            -> TRUE
    [] check = "config"           -> /\ f.used # {}
                                     /\ \A s \in DOMAIN f.stacks : f.stacks[s] # Unreadable
                                     /\ PublishedPorts(f) # {}
                                     /\ \E d \in Followed(f) : NamedHosts(f.docs[d]) # {}
    [] check = "coverage"         -> ~(Cardinality(f.modules) < 2)
    [] check = "artifacts"        -> /\ ~(Cardinality(DOMAIN f.tracked) < 2)
                                     /\ \E p \in DOMAIN f.tracked : f.tracked[p].kind = "file"
                                     /\ \A p \in DOMAIN f.tracked : f.tracked[p].kind # "unreadable"
                                     /\ DefaultBuildOutputs(f) # {}
    [] check = "groups"           -> /\ f.blueprint # Unreadable /\ f.principals # Unreadable
                                     /\ f.setup # Unreadable
                                     /\ BlueprintGroups(f.blueprint) # {}
                                     /\ PrincipalGroups(f.principals) # {}
                                     /\ DocumentedGroups(f.setup) # {}
    [] check = "scopes"           -> /\ f.rows # Unreadable /\ f.usernames # Unreadable
                                     /\ f.rows # <<>> /\ f.usernames # {}
    [] check = "prefixes"         -> ~(Cardinality(f.rules) < 2)
    [] check = "endpoints"        ->
         c # None => /\ ~(Cardinality(DocumentedPaths(CoreContent[c])) < 2)
                     /\ \E d \in Followed(f) : Checked(f.docs[d]) # {}

\* The checks that refuse to pass on an empty parse; the two others do not
\* notice that they looked at nothing.
Guarded == Checks \ {"links", "secrets"}

\* What a check must have to say what is wrong.  Four of them ask for the
\* rest of their substance only when they have nothing to report, or report
\* that it is missing.
Input(check, f, c) ==
  CASE check = "hardening"        -> \A l \in {Base, E2E} : f.stacks[l] # Unreadable
    [] check = "stage hardening"  -> f.stacks[Stage] # Unreadable
    [] check = "stage1 hardening" -> f.stacks[Stage1] # Unreadable
    [] check = "config"           -> /\ f.used # {}
                                     /\ \A s \in DOMAIN f.stacks : f.stacks[s] # Unreadable
                                     /\ PublishedPorts(f) # {}
    [] check = "artifacts"        -> /\ ~(Cardinality(DOMAIN f.tracked) < 2)
                                     /\ \E p \in DOMAIN f.tracked : f.tracked[p].kind = "file"
                                     /\ DefaultBuildOutputs(f) # {}
    [] check = "endpoints"        ->
         c # None => ~(Cardinality(DocumentedPaths(CoreContent[c])) < 2)
    [] OTHER                      -> Substance(check, f, c)

\* There is something to compare with: for three of the checks, the Core
\* beside the repository, and what two of them compare in its migrations.
Comparable(check, c) ==
  CASE check = "endpoints" -> c # None
    [] check = "prefixes"  -> c # None /\ \E i \in DOMAIN CoreContent[c].migrations :
                                           /\ CoreContent[c].migrations[i].counters
                                           /\ CoreContent[c].migrations[i].prefixes # {}
    [] check = "groups"    -> c # None /\ \E i \in DOMAIN CoreContent[c].migrations :
                                SeededGroups(CoreContent[c].migrations[i]) # {}
    [] OTHER               -> TRUE

(***************************************************************************)
(* Properties.                                                             *)
(***************************************************************************)
TypeOK ==
  /\ DOMAIN edited \subseteq DOMAIN Values
  /\ \A field \in DOMAIN edited : edited[field] \in Values[field]
  /\ moves \in 0 .. MaxMoves
  /\ job \in DOMAIN Steps \cup {None} /\ asked \in Asked \cup {None}
  /\ outcome \in {"running", "passed", "failed"}
  /\ job = None => outcome = "running"
  /\ pc \in 1 .. IF job = None THEN 1
                 ELSE IF outcome = "passed" THEN Len(Steps[job]) + 1 ELSE Len(Steps[job])
  /\ remote \in [Refs -> Cores] /\ named \subseteq Refs \X Cores
  /\ inside \in Cores /\ beside \in Cores /\ stack \in Cores /\ tested \in Cores
  /\ DOMAIN ran \subseteq Checks /\ \A check \in DOMAIN ran : ran[check].core \in Cores

\* What the checks of a set promise, when the job that ran them passed.
Kept(checks) ==
  outcome = "passed" => \A check \in checks \cap DOMAIN ran :
    Promise(check, repo, ran[check].core)

\* A job that passed: the lists of groups, prefixes, modules and service
\* identities that are written down twice say the same in both places, with
\* the Core's seed too when the Core was there to compare with.
NamesAgree == Kept({"groups", "prefixes", "coverage", "scopes"})

\* A job that passed: no container of any of the four stacks exposes a port
\* on every interface, holds a secret of the administrator that is not its
\* own, or can do more than it has to; and the overlay leaves the HUB out.
StacksContained ==
  Kept({"hardening", "stage hardening", "stage1 hardening", "overlay"})

\* A job that passed: what the documentation names is there, a port, a
\* service, a variable, a file, an endpoint; and nobody can be reached at an
\* address it gives.
DocsLead == Kept({"config", "links", "endpoints"})

\* A job that passed: no program is tracked or about to be; no literal value
\* is written down in a file that was read; and no host but those allowed by
\* name, those kept for documentation, and those that merely look like them
\* (TakenForDocumentation), which check-stage-secrets.py:47-49 does not mean to
\* let pass and its pattern does.
TreeClean == Kept({"artifacts", "secrets"})

\* A check says something.  One that guards against an empty parse (Guarded:
\* not the links, not the secrets) passes only with something to look at, the
\* endpoints only where there is a Core.  One that passes has compared exactly
\* when there was something to compare with: the prefixes, the endpoints and
\* the seeded groups are passed over for want of the Core or of a seed in it,
\* which CoreCompared is about, and for nothing else.  And where the promise is
\* broken, no early return hides it: the check names something that is wrong,
\* unless an input of its own is missing.
SaysSomething ==
  \A check \in DOMAIN ran :
    LET verdict == ran[check].verdict
        c == ran[check].core
    IN  /\ Passes(verdict) /\ check \in Guarded => Substance(check, repo, c)
        /\ Passes(verdict) => (verdict.compared <=> Comparable(check, c))
        /\ Input(check, repo, c) /\ verdict.shown = {} => Promise(check, repo, c)

\* A check fails only when something is wrong: what it promises does not
\* hold, it had nothing to look at, or an endpoint is not written the way it
\* is served.
NoFalseAlarm ==
  \A check \in DOMAIN ran :
       Substance(check, repo, ran[check].core)
    /\ Promise(check, repo, ran[check].core)
    /\ (check = "endpoints" => AsServed(repo, ran[check].core))
      => Passes(ran[check].verdict)

\* The commit was the branch of that name, or the tag, at some time.
NamedSo(short, c, history) ==
  \E kind \in {"heads", "tags"} : <<<<kind>> \o short, c>> \in history

\* A run of the scenarios that passed was recorded as what it was: the
\* manifest names the commit of the Core that ran, however the Core's refs
\* moved while the job went on.
PairRecorded ==
  tested # None => /\ manifest.core = tested
                   /\ manifest.core = inside
                   /\ NamedSo(manifest.ref, tested, named)

\* A ref somebody asked for is what was tested, or the job fails; and main
\* is tested under another name for no one.
RequestHonoured ==
  /\ outcome = "passed" /\ asked # None => /\ manifest.ref = asked
                                           /\ manifest.resolution = "requested explicitly"
  /\ manifest # None /\ manifest.resolution = "fell back to main" => manifest.ref = Main

\* A job ends, and leaves no stack behind, whether it passes or not.
JobEnds == job # None ~> outcome # "running" /\ stack = None

\* The job that has the Core compares with it: the two comparisons that are
\* made nowhere else, and the third list of groups.
CoreCompared ==
  job = "e2e" /\ outcome = "passed" =>
    \A check \in {"prefixes", "endpoints", "groups"} : ran[check].verdict.compared
=============================================================================
