---------------------------- MODULE CiJobsProofs ----------------------------
(* What a job that passed promises, for every repository, every Core and
   every way the Core's refs may move.  First, one lemma for each check: from
   its exit code alone follow what it promises and that it had something to
   look at; from what it shows, that it hides nothing; and from the promise,
   that it passes.  Then the invariant of the job, that it has passed only checks
   that exited 0 on this commit, and what it says of the manifest. *)
EXTENDS Promises, SequenceTheorems, WellFoundedInduction, TLAPS

(***************************************************************************)
(* The checks.                                                             *)
(***************************************************************************)
\* Two lists that differ in no name are equal.
LEMMA NothingDiffers ==
  ASSUME NEW a, NEW b, NEW X, NEW Y, Compare(a, X, b, Y) = {}
  PROVE  X = Y
<1>1. \A n \in X : n \in Y
  BY DEF Compare
<1>2. \A n \in Y : n \in X
  BY DEF Compare
<1> QED BY <1>1, <1>2

\* A verdict without findings passes, and so does a note; no guard does.
LEMMA ExitCodes ==
  /\ \A found : Passes(Judge(found)) <=> found = {}
  /\ \A found : ~Passes(Refuse(found))
  /\ Passes(Note)
BY DEF Passes, Judge, Refuse, Note

LEMMA CoverageChecked ==
  ASSUME NEW f, Passes(CheckScanCoverage(f))
  PROVE  EveryModuleScanned(f) /\ ~(Cardinality(f.modules) < 2)
<1>1. ~(Cardinality(f.modules) < 2)
  BY ExitCodes DEF CheckScanCoverage
<1>2. UNION {Uncovered(f, k) : k \in ScannedBy} = {}
  BY <1>1, ExitCodes DEF CheckScanCoverage
<1>3. ASSUME NEW j \in ScannedBy PROVE f.matrix[j] = f.modules
  <2>1. Uncovered(f, j) = {}
    BY <1>2
  <2>2. f.matrix[j] # Unreadable
    BY <2>1 DEF Uncovered
  <2>3. /\ \A m \in f.modules : m \in f.matrix[j]
        /\ \A m \in f.matrix[j] : m \in f.modules
    BY <2>1, <2>2 DEF Uncovered
  <2> QED BY <2>3
<1>4. \A j \in ScannedBy : f.matrix[j] # Unreadable
  BY <1>2 DEF Uncovered
<1> QED BY <1>1, <1>3, <1>4 DEF EveryModuleScanned

LEMMA PrefixesChecked ==
  ASSUME NEW f, NEW c \in Cores, Passes(CheckGlobalIds(f, CoreAt(c)))
  PROVE  PrefixesAgree(f, c) /\ ~(Cardinality(f.rules) < 2)
<1>1. ~(Cardinality(f.rules) < 2)
  BY ExitCodes DEF CheckGlobalIds
<1>2. ASSUME c # None PROVE PrefixesAgree(f, c)
  <2> DEFINE m == CoreContent[c].migrations
             seeds == SeededPrefixes(CoreContent[c])
             seeded(p) == \E i \in DOMAIN m : m[i].counters /\ p \in m[i].prefixes
  <2>1. \A p : p \in seeds <=> seeded(p)
    BY DEF SeededPrefixes
  <2>2. CoreAt(c) = CoreContent[c] /\ CoreAt(c) # None
    BY <1>2, CiAssumption DEF CoreAt, Cores
  <2>3. ASSUME seeds # {} PROVE f.rules = seeds
    <3>1. CheckGlobalIds(f, CoreAt(c)) = Judge(Compare("rules", f.rules, "seed", seeds))
      BY <1>1, <2>2, <2>3 DEF CheckGlobalIds
    <3> QED BY <3>1, ExitCodes, NothingDiffers
  <2>4. CASE seeds = {}
    BY <2>1, <2>4 DEF PrefixesAgree
  <2>5. CASE seeds # {}
    BY <2>1, <2>3, <2>5 DEF PrefixesAgree
  <2> QED BY <2>4, <2>5
<1> QED BY <1>1, <1>2 DEF PrefixesAgree

LEMMA GroupsChecked ==
  ASSUME NEW f, NEW c \in Cores, Passes(CheckIdentityGroups(f, CoreAt(c)))
  PROVE  GroupsAgree(f, c) /\ Substance("groups", f, c)
<1> DEFINE blueprint == BlueprintGroups(f.blueprint)
           mock == Compare("blueprint", blueprint, "mock", PrincipalGroups(f.principals))
           setup == Compare("blueprint", blueprint, "setup", DocumentedGroups(f.setup))
           seeded == IF CoreAt(c) = None THEN {} ELSE Seed(CoreAt(c))
           seed == IF seeded = {} THEN {} ELSE Compare("blueprint", blueprint, "seed", seeded)
<1>1. /\ f.blueprint # Unreadable /\ f.principals # Unreadable
      /\ blueprint # {} /\ PrincipalGroups(f.principals) # {}
  BY ExitCodes DEF CheckIdentityGroups
<1>2. f.setup # Unreadable /\ DocumentedGroups(f.setup) # {}
  BY <1>1, ExitCodes DEF CheckIdentityGroups
<1>3. mock \cup setup \cup seed = {}
  <2>1. CheckIdentityGroups(f, CoreAt(c)) =
          [Judge(mock \cup setup \cup seed) EXCEPT !.compared = seeded # {}]
    BY <1>1, <1>2 DEF CheckIdentityGroups
  <2> HIDE DEF mock, setup, seed, seeded
  <2> QED BY <2>1 DEF Passes, Judge
<1>4. mock = {} /\ setup = {} /\ seed = {}
  <2> HIDE DEF mock, setup, seed
  <2> QED BY <1>3
<1>5. /\ BlueprintGroups(f.blueprint) = PrincipalGroups(f.principals)
      /\ BlueprintGroups(f.blueprint) = DocumentedGroups(f.setup)
  BY <1>4, NothingDiffers
<1>6. ASSUME c # None, NEW i \in DOMAIN CoreContent[c].migrations,
             SeededGroups(CoreContent[c].migrations[i]) # {},
             \A j \in DOMAIN CoreContent[c].migrations :
               ~(j < i /\ SeededGroups(CoreContent[c].migrations[j]) # {})
      PROVE  SeededGroups(CoreContent[c].migrations[i]) = BlueprintGroups(f.blueprint)
  <2> DEFINE m == CoreContent[c].migrations
             seeding == {k \in DOMAIN m : SeededGroups(m[k]) # {}}
             first == {k \in seeding : \A j \in seeding : k <= j}
  <2>0. DOMAIN m \subseteq Nat
    BY <1>6, CiAssumption DEF Cores
  <2>1. CoreAt(c) = CoreContent[c] /\ CoreAt(c) # None
    BY <1>6, CiAssumption DEF CoreAt, Cores
  <2>2. first = {i}
    <3>1. i \in first
      BY <1>6, <2>0
    <3>2. ASSUME NEW k \in first PROVE k = i
      <4>1. k <= i /\ i <= k
        BY <3>1, <3>2, <1>6
      <4>2. k \in Nat /\ i \in Nat
        BY <1>6, <2>0, <3>2
      <4> QED BY <4>1, <4>2
    <3> HIDE DEF first
    <3> QED BY <3>1, <3>2
  <2>3. seeded = SeededGroups(m[i])
    <3>1. seeded = UNION {SeededGroups(m[k]) : k \in first}
      BY <2>1 DEF Seed
    <3> HIDE DEF first, seeded, m
    <3> QED BY <3>1, <2>2
  <2>4. Compare("blueprint", blueprint, "seed", seeded) = {}
    <3>1. seeded # {}
      BY <2>3, <1>6
    <3> QED BY <3>1, <1>4
  <2> HIDE DEF seeded
  <2> QED BY <2>3, <2>4, NothingDiffers
<1>7. GroupsAgree(f, c)
  BY <1>5, <1>6 DEF GroupsAgree
<1> QED BY <1>1, <1>2, <1>7 DEF Substance

LEMMA ScopesChecked ==
  ASSUME NEW f, AreRows(f.rows), Passes(CheckServiceIdentityScopes(f))
  PROVE  LeastPrivilege(f) /\ Substance("scopes", f, None)
<1> DEFINE documented == DocumentedPermissions(f.rows)
           readers == ReadOnlyIdentities \cap DOMAIN documented
           writing == {<<id, "writes">> :
                         id \in {r \in readers : "relationships.write" \in documented[r]}}
           blind == {<<id, "cannot read">> :
                       id \in {r \in readers : "relationships.read" \notin documented[r]}}
           differing == Compare("table", DOMAIN documented, "blueprint", f.usernames)
<1>1. /\ f.rows # Unreadable /\ f.usernames # Unreadable
      /\ DOMAIN documented # {} /\ f.usernames # {}
  BY ExitCodes DEF CheckServiceIdentityScopes
<1>2. differing \cup writing \cup blind = {}
  BY <1>1, ExitCodes DEF CheckServiceIdentityScopes
<1>3. differing = {} /\ writing = {} /\ blind = {}
  <2> HIDE DEF differing, writing, blind
  <2> QED BY <1>2
<1>4. DOMAIN documented = {f.rows[i].identity : i \in DOMAIN f.rows}
  BY DEF DocumentedPermissions
<1>5. {f.rows[i].identity : i \in DOMAIN f.rows} = f.usernames
  <2>1. DOMAIN documented = f.usernames
    BY <1>3, NothingDiffers
  <2> QED BY <2>1, <1>4
<1>6. ASSUME NEW i \in DOMAIN f.rows, f.rows[i].identity \in ReadOnlyIdentities,
             ~ \E j \in i + 1 .. Len(f.rows) : f.rows[j].identity = f.rows[i].identity
      PROVE  /\ "relationships.read" \in f.rows[i].permissions
             /\ "relationships.write" \notin f.rows[i].permissions
  <2> DEFINE id == f.rows[i].identity
             Latest(k) == /\ f.rows[k].identity = id
                          /\ \A j \in k + 1 .. Len(f.rows) : f.rows[j].identity # id
             latest == CHOOSE k \in DOMAIN f.rows : Latest(k)
  <2>1. documented[id] = f.rows[latest].permissions
    BY DEF DocumentedPermissions
  <2>2. latest \in DOMAIN f.rows /\ Latest(latest)
    BY <1>6
  <2>3. latest = i
    <3>1. DOMAIN f.rows = 1 .. Len(f.rows) /\ Len(f.rows) \in Nat
      BY <1>1 DEF AreRows
    <3>2. ~(latest < i) /\ ~(i < latest)
      <4> HIDE DEF latest
      <4> QED BY <1>6, <2>2, <3>1
    <3> HIDE DEF latest
    <3> QED BY <2>2, <3>1, <3>2
  <2>4. id \in readers
    BY <1>4, <1>6
  <2>5. "relationships.write" \notin documented[id] /\ "relationships.read" \in documented[id]
    <3> HIDE DEF documented
    <3> QED BY <1>3, <2>4
  <2> HIDE DEF latest, documented
  <2> QED BY <2>1, <2>3, <2>5
<1>7. f.rows # <<>>
  <2>1. PICK x : x \in DOMAIN documented
    BY <1>1
  <2> QED BY <2>1, <1>4
<1> QED BY <1>1, <1>5, <1>6, <1>7 DEF LeastPrivilege, Substance

\* A service of which nothing is reported is contained.
LEMMA ServiceContained ==
  ASSUME NEW name, NEW s, Failures(name, s) = {}
  PROVE  Contained(name, s)
<1> DEFINE fails ==
      [privileges   |-> ~s.no_new_privileges,
       exemption    |-> name \in CapabilityExempt /\ s.cap_drop # {},
       capabilities |-> name \notin CapabilityExempt /\ "ALL" \notin s.cap_drop,
       privileged   |-> s.privileged,
       secret       |-> \E v \in s.environment \cap DOMAIN AdminSecretEnv :
                          name \notin AdminSecretEnv[v],
       filesystem   |-> name \in ReadOnly /\ ~s.read_only,
       socket       |-> \E m \in s.mounts : m.source = DockerSocket,
       bind         |-> \E m \in Binds(s) : /\ m.source \notin WritableBinds
                                            /\ ~m.read_only,
       port         |-> \E p \in s.ports : Exposes(p)]
<1>1. \A k \in DOMAIN fails : ~fails[k]
  BY DEF Failures
<1>2. /\ ~fails.privileges /\ ~fails.exemption /\ ~fails.capabilities
      /\ ~fails.privileged /\ ~fails.secret /\ ~fails.filesystem
      /\ ~fails.socket /\ ~fails.bind /\ ~fails.port
  <2>1. DOMAIN fails = {"privileges", "exemption", "capabilities", "privileged", "secret",
                        "filesystem", "socket", "bind", "port"}
    OBVIOUS
  <2> HIDE DEF fails
  <2> QED BY <1>1, <2>1
<1>3. s.no_new_privileges /\ ~s.privileged
  BY <1>2
<1>4. IF name \in CapabilityExempt THEN s.cap_drop = {} ELSE "ALL" \in s.cap_drop
  BY <1>2
<1>5. name \in ReadOnly => s.read_only
  BY <1>2
<1>6. \A m \in s.mounts : m.source # DockerSocket /\ (m.type = "bind" => m.read_only)
  BY <1>2 DEF Binds, WritableBinds
<1>7. \A p \in s.ports : p.published # None =>
        p.host_ip # None /\ p.host_ip \notin {"", "0.0.0.0", "::"}
  BY <1>2 DEF Exposes, EveryInterface
<1>8. \A v \in DOMAIN AdminSecretEnv \cap s.environment : name \in AdminSecretEnv[v]
  BY <1>2
<1> QED BY <1>3, <1>4, <1>5, <1>6, <1>7, <1>8 DEF Contained

\* Stacks of which nothing is reported run something, and are contained.
LEMMA NothingReported ==
  ASSUME NEW f, NEW labels, UNION {Inspect(l, Render(f.stacks[l])) : l \in labels} = {},
         NEW l \in labels
  PROVE  DOMAIN Render(f.stacks[l]) # {} /\ StackContained(f.stacks[l])
<1> DEFINE st == f.stacks[l]
           rendered == Render(st)
<1>1. Inspect(l, rendered) = {}
  OBVIOUS
<1>2. DOMAIN rendered # {}
  BY <1>1 DEF Inspect
<1>3. ASSUME NEW name \in DOMAIN rendered PROVE Failures(name, rendered[name]) = {}
  <2> DEFINE of(n) == {<<l, n, failure>> : failure \in Failures(n, rendered[n])}
  <2>1. UNION {of(n) : n \in DOMAIN rendered} = {}
    BY <1>1, <1>2 DEF Inspect
  <2>2. of(name) = {}
    <3> HIDE DEF of, rendered
    <3> QED BY <1>3, <2>1
  <2> QED BY <2>2
<1>4. \A name \in DOMAIN st : st[name].profiles = {} =>
        name \in DOMAIN rendered /\ rendered[name] = st[name]
  BY DEF Render, Restrict
<1>5. ASSUME NEW name \in DOMAIN st, st[name].profiles = {} PROVE Contained(name, st[name])
  BY <1>3, <1>4, <1>5, ServiceContained
<1> QED BY <1>2, <1>5 DEF StackContained

LEMMA HardeningChecked ==
  ASSUME NEW f, NEW labels, Passes(CheckHardening(f, labels))
  PROVE  /\ Inspected(f, labels)
         /\ \A l \in labels : StackContained(f.stacks[l])
<1> DEFINE failures == UNION {Inspect(l, Render(f.stacks[l])) : l \in labels}
           binds == UNION {UNION {Binds(f.stacks[l][s]) : s \in DOMAIN Render(f.stacks[l])} :
                             l \in labels}
<1>1. /\ \A l \in labels : f.stacks[l] # Unreadable
      /\ failures = {} /\ binds # {}
  BY ExitCodes DEF CheckHardening
<1>2. \E l \in labels : \E s \in DOMAIN Render(f.stacks[l]) : Binds(f.stacks[l][s]) # {}
  BY <1>1
<1>3. \A l \in labels : DOMAIN Render(f.stacks[l]) # {} /\ StackContained(f.stacks[l])
  BY <1>1, NothingReported
<1> QED BY <1>1, <1>2, <1>3 DEF Inspected

LEMMA OverlayChecked ==
  ASSUME NEW f, Passes(CheckStage1Overlay(f))
  PROVE  HubLeftOut(f.stacks[Stage1]) /\ Substance("overlay", f, None)
<1> DEFINE st == f.stacks[Stage1]
<1>1. st # Unreadable /\ DOMAIN Render(st) # {}
  BY ExitCodes DEF CheckStage1Overlay
<1>2. OverlayFindings(st) = {}
  BY <1>1, ExitCodes DEF CheckStage1Overlay
<1>3. ExcludedService \notin DOMAIN Render(st)
  BY <1>2 DEF OverlayFindings
<1>4. OverlayDeclaresHubProfile(st)
  BY <1>2, <1>3 DEF OverlayFindings
<1>5. \A m \in ExpectedMocks : m \in DOMAIN Render(st)
  BY <1>2 DEF OverlayFindings
<1>6. \A m \in DOMAIN Render(st) : m \in DOMAIN st /\ st[m].profiles = {}
  BY DEF Render, Restrict
<1>7. HubLeftOut(st)
  BY <1>4, <1>5, <1>6
  DEF HubLeftOut, OverlayDeclaresHubProfile, ExcludedService, ExclusionProfile
<1> QED BY <1>1, <1>7 DEF Substance

LEMMA ArtifactsChecked ==
  ASSUME NEW f, Passes(CheckArtifacts(f))
  PROVE  TreeIsSource(f) /\ Substance("artifacts", f, None)
<1> DEFINE files(kind) == {p \in DOMAIN f.tracked : f.tracked[p].kind = kind}
           binaries == {<<"binary", p>> :
                          p \in {q \in files("file") : IsBinary(f.tracked[q].head)}}
           unread == {<<"unreadable", p>> : p \in files("unreadable")}
           exposed == {<<"not ignored", o>> : o \in DefaultBuildOutputs(f) \ f.ignored}
<1>1. /\ ~(Cardinality(DOMAIN f.tracked) < 2) /\ files("file") # {}
      /\ DefaultBuildOutputs(f) # {}
  BY ExitCodes DEF CheckArtifacts
<1>2. binaries \cup unread \cup exposed = {}
  BY <1>1, ExitCodes DEF CheckArtifacts
<1>3. binaries = {} /\ unread = {} /\ exposed = {}
  <2> HIDE DEF binaries, unread, exposed
  <2> QED BY <1>2
<1>4. \A p \in files("file") : ~IsBinary(f.tracked[p].head)
  BY <1>3
<1>5. files("unreadable") = {}
  BY <1>3
<1>6. \A o \in DefaultBuildOutputs(f) : o \in f.ignored
  BY <1>3
<1>7. ASSUME NEW m \in f.gomods, NEW p \in f.mains,
             p = m \/ (IsPrefix(m \o <<"cmd">>, p) /\ Len(p) = Len(m) + 2)
      PROVE  m \o <<Last(p)>> \in f.ignored
  <2> DEFINE own(x) == {x \o <<Last(x)>> : y \in {x} \cap f.mains}
             commands(x) == {x \o <<Last(q)>> : q \in {q \in f.mains :
                               Len(q) = Len(x) + 2 /\ IsPrefix(x \o <<"cmd">>, q)}}
  <2>1. DefaultBuildOutputs(f) = UNION {own(x) \cup commands(x) : x \in f.gomods}
    BY DEF DefaultBuildOutputs
  <2>2. \A o \in own(m) \cup commands(m) : o \in f.ignored
    <3> HIDE DEF own, commands
    <3> QED BY <2>1, <1>6
  <2>3. CASE p = m
    <3>1. m \o <<Last(p)>> \in own(m)
      BY <2>3
    <3> QED BY <3>1, <2>2
  <2>4. CASE IsPrefix(m \o <<"cmd">>, p) /\ Len(p) = Len(m) + 2
    <3>1. m \o <<Last(p)>> \in commands(m)
      BY <2>4
    <3> QED BY <3>1, <2>2
  <2> QED BY <1>7, <2>3, <2>4
<1>8. ASSUME NEW p \in DOMAIN f.tracked, f.tracked[p].kind = "file"
      PROVE  /\ \A m \in Magic : ~IsPrefix(m, f.tracked[p].head)
             /\ ~(/\ Len(f.tracked[p].head) >= 8
                  /\ f.tracked[p].head[3] = CR /\ f.tracked[p].head[4] = LF
                  /\ 0 \in {f.tracked[p].head[i] : i \in 5 .. 8})
  BY <1>4, <1>8 DEF IsBinary, IsPythonBytecode
<1>9. TreeIsSource(f)
  BY <1>7, <1>8 DEF TreeIsSource
<1> QED BY <1>1, <1>5, <1>9 DEF Substance

\* The names the script's pattern takes for reserved, one by one.
LEMMA TakenApart ==
  ASSUME NEW h
  PROVE  Reserved(h) <=> ForDocumentation(h) \/ TakenForDocumentation(h)
BY DEF Reserved, ReservedNames, ForDocumentation, TakenForDocumentation

LEMMA SecretsChecked ==
  ASSUME NEW f, Passes(CheckStageSecrets(f))
  PROVE  NothingLiteral(f) /\ Substance("secrets", f, None)
<1>1. \A p \in DOMAIN f.tracked : f.tracked[p].excluded \/ f.tracked[p].kind # "unreadable"
  BY ExitCodes DEF CheckStageSecrets
<1>2. UNION {SecretFindings(p, f.tracked[p]) : p \in Scanned(f)} = {}
  BY <1>1, ExitCodes DEF CheckStageSecrets
<1>3. ASSUME NEW p \in Scanned(f)
      PROVE  /\ f.tracked[p].assignments \subseteq Harmless
             /\ \A h \in f.tracked[p].urls \cup f.tracked[p].names :
                  \/ h \in AllowedHosts
                  \/ ForDocumentation(h) \/ TakenForDocumentation(h)
                  \/ h \notin f.tracked[p].urls /\ ~(Len(h) > 1 /\ Last(h) \in RealTLDs)
  <2>1. SecretFindings(p, f.tracked[p]) = {}
    BY <1>2
  <2>2. f.tracked[p].assignments \subseteq Harmless
    BY <2>1 DEF SecretFindings
  <2>3. \A h \in HostsOf(f.tracked[p]) : h \in AllowedHosts \/ Reserved(h)
    BY <2>1 DEF SecretFindings
  <2> QED BY <2>2, <2>3, TakenApart DEF HostsOf
<1> QED BY <1>1, <1>3 DEF NothingLiteral, Substance

\* What the bits of an address and its bytes have to do with each other: the
\* script compares bytes, the ranges are given by their bits.
LEMMA BytesWithin ==
  ASSUME NEW a, NEW b, NEW n \in Nat, \A i \in 1 .. n : a[i] = b[i]
  PROVE  Within(a, b, 8 * n)
<1> SUFFICES ASSUME NEW k \in 0 .. 8 * n - 1 PROVE Bit(a, k) = Bit(b, k)
  BY DEF Within
<1>1. k \div 8 + 1 \in 1 .. n
  OBVIOUS
<1> QED BY <1>1 DEF Bit

LEMMA ByteBits ==
  ASSUME NEW x \in 0 .. 255
  PROVE  x = 128 * ((x \div 128) % 2) + 64 * ((x \div 64) % 2) + 32 * ((x \div 32) % 2)
             + 16 * ((x \div 16) % 2) + 8 * ((x \div 8) % 2) + 4 * ((x \div 4) % 2)
             + 2 * ((x \div 2) % 2) + ((x \div 1) % 2)
OBVIOUS

LEMMA BitsOfByte ==
  ASSUME NEW a, NEW n \in Nat
  PROVE  /\ Bit(a, 8 * n) = (a[n + 1] \div 128) % 2 
         /\ Bit(a, 8 * n + 1) = (a[n + 1] \div 64) % 2
         /\ Bit(a, 8 * n + 2) = (a[n + 1] \div 32) % 2 
         /\ Bit(a, 8 * n + 3) = (a[n + 1] \div 16) % 2
         /\ Bit(a, 8 * n + 4) = (a[n + 1] \div 8) % 2 
         /\ Bit(a, 8 * n + 5) = (a[n + 1] \div 4) % 2
         /\ Bit(a, 8 * n + 6) = (a[n + 1] \div 2) % 2 
         /\ Bit(a, 8 * n + 7) = (a[n + 1] \div 1) % 2
BY DEF Bit, Weight

LEMMA SameByte ==
  ASSUME NEW x \in 0 .. 255, NEW y \in 0 .. 255,
         (x \div 128) % 2 = (y \div 128) % 2, (x \div 64) % 2 = (y \div 64) % 2,
         (x \div 32) % 2 = (y \div 32) % 2, (x \div 16) % 2 = (y \div 16) % 2,
         (x \div 8) % 2 = (y \div 8) % 2, (x \div 4) % 2 = (y \div 4) % 2,
         (x \div 2) % 2 = (y \div 2) % 2, (x \div 1) % 2 = (y \div 1) % 2
  PROVE  x = y
<1> DEFINE value(p, q, r, s, t, u, v, w) ==
             128 * p + 64 * q + 32 * r + 16 * s + 8 * t + 4 * u + 2 * v + w
           of(z) == value((z \div 128) % 2, (z \div 64) % 2, (z \div 32) % 2, (z \div 16) % 2,
                          (z \div 8) % 2, (z \div 4) % 2, (z \div 2) % 2, (z \div 1) % 2)
<1>1. x = of(x) /\ y = of(y)
  BY ByteBits
<1>2. of(x) = of(y)
  <2> HIDE DEF value
  <2> QED BY Zenon
<1> HIDE DEF of
<1> QED BY <1>1, <1>2

LEMMA WithinBytes ==
  ASSUME NEW n \in Nat, NEW a \in [1 .. 4 -> 0 .. 255], NEW b \in [1 .. 4 -> 0 .. 255],
         n <= 4, Within(a, b, 8 * n)
  PROVE  \A i \in 1 .. n : a[i] = b[i]
<1> SUFFICES ASSUME NEW i \in 0 .. n - 1 PROVE a[i + 1] = b[i + 1]
  <2>1. \A j \in 1 .. n : j - 1 \in 0 .. n - 1 /\ (j - 1) + 1 = j
    OBVIOUS
  <2> QED BY <2>1
<1>1. a[i + 1] \in 0 .. 255 /\ b[i + 1] \in 0 .. 255
  OBVIOUS
<1>2. \A j \in 0 .. 7 : 8 * i + j \in 0 .. 8 * n - 1
  OBVIOUS
<1>3. \A j \in 0 .. 7 : Bit(a, 8 * i + j) = Bit(b, 8 * i + j)
  BY <1>2 DEF Within
<1>4. /\ Bit(a, 8 * i) = Bit(b, 8 * i)
      /\ Bit(a, 8 * i + 1) = Bit(b, 8 * i + 1)
      /\ Bit(a, 8 * i + 2) = Bit(b, 8 * i + 2)
      /\ Bit(a, 8 * i + 3) = Bit(b, 8 * i + 3)
      /\ Bit(a, 8 * i + 4) = Bit(b, 8 * i + 4)
      /\ Bit(a, 8 * i + 5) = Bit(b, 8 * i + 5)
      /\ Bit(a, 8 * i + 6) = Bit(b, 8 * i + 6)
      /\ Bit(a, 8 * i + 7) = Bit(b, 8 * i + 7)
  BY <1>3
<1>5. i \in Nat
  OBVIOUS
<1> DEFINE x == a[i + 1]
           y == b[i + 1]
<1>6. /\ (x \div 128) % 2 = (y \div 128) % 2
      /\ (x \div 64) % 2 = (y \div 64) % 2
      /\ (x \div 32) % 2 = (y \div 32) % 2
      /\ (x \div 16) % 2 = (y \div 16) % 2
      /\ (x \div 8) % 2 = (y \div 8) % 2
      /\ (x \div 4) % 2 = (y \div 4) % 2
      /\ (x \div 2) % 2 = (y \div 2) % 2
      /\ (x \div 1) % 2 = (y \div 1) % 2
  BY <1>4, <1>5, BitsOfByte
<1>7. x \in 0 .. 255 /\ y \in 0 .. 255
  BY <1>1
<1> HIDE DEF x, y
<1>8. x = y
  BY <1>6, <1>7, SameByte
<1> QED BY <1>8 DEF x, y

LEMMA Leading ==
  ASSUME NEW n \in Nat, NEW a \in [1 .. 4 -> 0 .. 255], NEW b \in [1 .. 4 -> 0 .. 255], n <= 4
  PROVE  Within(a, b, 8 * n) <=> \A i \in 1 .. n : a[i] = b[i]
BY BytesWithin, WithinBytes

LEMMA Eight ==
  ASSUME NEW a \in [1 .. 4 -> 0 .. 255], NEW b \in [1 .. 4 -> 0 .. 255]
  PROVE  Within(a, b, 8) <=> a[1] = b[1]
<1>1. Within(a, b, 8 * 1) <=> \A i \in 1 .. 1 : a[i] = b[i]
  BY Leading
<1>2. 1 .. 1 = {1} /\ 8 * 1 = 8
  OBVIOUS
<1> QED BY <1>1, <1>2

LEMMA Sixteen ==
  ASSUME NEW a \in [1 .. 4 -> 0 .. 255], NEW b \in [1 .. 4 -> 0 .. 255]
  PROVE  Within(a, b, 16) <=> a[1] = b[1] /\ a[2] = b[2]
<1>1. Within(a, b, 8 * 2) <=> \A i \in 1 .. 2 : a[i] = b[i]
  BY Leading
<1>2. 1 .. 2 = {1, 2} /\ 8 * 2 = 16
  OBVIOUS
<1> QED BY <1>1, <1>2

LEMMA TwentyFour ==
  ASSUME NEW a \in [1 .. 4 -> 0 .. 255], NEW b \in [1 .. 4 -> 0 .. 255]
  PROVE  Within(a, b, 24) <=> a[1] = b[1] /\ a[2] = b[2] /\ a[3] = b[3]
<1>1. Within(a, b, 8 * 3) <=> \A i \in 1 .. 3 : a[i] = b[i]
  BY Leading
<1>2. 1 .. 3 = {1, 2, 3} /\ 8 * 3 = 24
  OBVIOUS
<1> QED BY <1>1, <1>2

LEMMA ThirtyTwo ==
  ASSUME NEW a \in [1 .. 4 -> 0 .. 255], NEW b \in [1 .. 4 -> 0 .. 255]
  PROVE  Within(a, b, 32) <=> a[1] = b[1] /\ a[2] = b[2] /\ a[3] = b[3] /\ a[4] = b[4]
<1>1. Within(a, b, 8 * 4) <=> \A i \in 1 .. 4 : a[i] = b[i]
  BY Leading
<1>2. 1 .. 4 = {1, 2, 3, 4} /\ 8 * 4 = 32
  OBVIOUS
<1> QED BY <1>1, <1>2

\* The one range that ends inside a byte: the four bits are 0001 from 16 to
\* 31, and for no other byte.
LEMMA Twelve ==
  ASSUME NEW a \in [1 .. 4 -> 0 .. 255]
  PROVE  Within(a, <<172, 16, 0, 0>>, 12) <=> a[1] = 172 /\ 16 <= a[2] /\ a[2] <= 31
<1> DEFINE b == <<172, 16, 0, 0>>
<1>0. a[1] \in 0 .. 255 /\ a[2] \in 0 .. 255
  OBVIOUS
<1>1. Within(a, b, 12) <=> Within(a, b, 8) /\ \A k \in 8 .. 11 : Bit(a, k) = Bit(b, k)
  BY DEF Within
<1>2. Within(a, b, 8) <=> a[1] = 172
  <2>1. b \in [1 .. 4 -> 0 .. 255] /\ b[1] = 172
    OBVIOUS
  <2>2. Within(a, b, 8 * 1) <=> \A i \in 1 .. 1 : a[i] = b[i]
    <3> HIDE DEF b
    <3> QED BY <2>1, Leading
  <2> QED BY <2>1, <2>2
<1>3. (\A k \in 8 .. 11 : Bit(a, k) = Bit(b, k)) <=> /\ (a[2] \div 128) % 2 = 0
                                                  /\ (a[2] \div 64) % 2 = 0
                                                  /\ (a[2] \div 32) % 2 = 0
                                                  /\ (a[2] \div 16) % 2 = 1
  <2>1. /\ Bit(a, 8) = (a[2] \div 128) % 2 /\ Bit(a, 9) = (a[2] \div 64) % 2
        /\ Bit(a, 10) = (a[2] \div 32) % 2 /\ Bit(a, 11) = (a[2] \div 16) % 2
    BY DEF Bit, Weight
  <2>2. Bit(b, 8) = 0 /\ Bit(b, 9) = 0 /\ Bit(b, 10) = 0 /\ Bit(b, 11) = 1
    BY DEF Bit, Weight
  <2>3. 8 .. 11 = {8, 9, 10, 11}
    OBVIOUS
  <2> QED BY <2>1, <2>2, <2>3
<1>4. ASSUME NEW x \in 0 .. 255
      PROVE  16 <= x /\ x <= 31 <=> /\ (x \div 128) % 2 = 0 /\ (x \div 64) % 2 = 0
                                    /\ (x \div 32) % 2 = 0 /\ (x \div 16) % 2 = 1
  OBVIOUS
<1> QED BY <1>0, <1>1, <1>2, <1>3, <1>4

\* The script passes the addresses nobody can be reached at, and no other.
LEMMA AddressJudged ==
  ASSUME NEW a \in [1 .. 4 -> Nat]
  PROVE  ReservedAddress(a) <=> ~PublicAddress(a)
<1>1. CASE ~ \A i \in 1 .. 4 : a[i] <= 255
  <2>1. \E i \in 1 .. 4 : a[i] > 255
    BY <1>1
  <2> QED BY <1>1, <2>1 DEF ReservedAddress, PublicAddress
<1>2. CASE \A i \in 1 .. 4 : a[i] <= 255
  <2>1. a \in [1 .. 4 -> 0 .. 255]
    BY <1>2
  <2>10. Within(a, <<10, 0, 0, 0>>, 8) <=> a[1] = 10
    <3> DEFINE b == <<10, 0, 0, 0>>
    <3>1. b \in [1 .. 4 -> 0 .. 255] /\ b[1] = 10 /\ b[2] = 0 /\ b[3] = 0 /\ b[4] = 0
      OBVIOUS
    <3> HIDE DEF b
    <3>2. Within(a, b, 8) <=> a[1] = 10
      BY <2>1, <3>1, Eight
    <3> QED BY <3>2 DEF b
  <2>11. Within(a, <<127, 0, 0, 0>>, 8) <=> a[1] = 127
    <3> DEFINE b == <<127, 0, 0, 0>>
    <3>1. b \in [1 .. 4 -> 0 .. 255] /\ b[1] = 127 /\ b[2] = 0 /\ b[3] = 0 /\ b[4] = 0
      OBVIOUS
    <3> HIDE DEF b
    <3>2. Within(a, b, 8) <=> a[1] = 127
      BY <2>1, <3>1, Eight
    <3> QED BY <3>2 DEF b
  <2>12. Within(a, <<192, 168, 0, 0>>, 16) <=> a[1] = 192 /\ a[2] = 168
    <3> DEFINE b == <<192, 168, 0, 0>>
    <3>1. b \in [1 .. 4 -> 0 .. 255] /\ b[1] = 192 /\ b[2] = 168 /\ b[3] = 0 /\ b[4] = 0
      OBVIOUS
    <3> HIDE DEF b
    <3>2. Within(a, b, 16) <=> a[1] = 192 /\ a[2] = 168
      BY <2>1, <3>1, Sixteen
    <3> QED BY <3>2 DEF b
  <2>13. Within(a, <<192, 0, 2, 0>>, 24) <=> a[1] = 192 /\ a[2] = 0 /\ a[3] = 2
    <3> DEFINE b == <<192, 0, 2, 0>>
    <3>1. b \in [1 .. 4 -> 0 .. 255] /\ b[1] = 192 /\ b[2] = 0 /\ b[3] = 2 /\ b[4] = 0
      OBVIOUS
    <3> HIDE DEF b
    <3>2. Within(a, b, 24) <=> a[1] = 192 /\ a[2] = 0 /\ a[3] = 2
      BY <2>1, <3>1, TwentyFour
    <3> QED BY <3>2 DEF b
  <2>14. Within(a, <<198, 51, 100, 0>>, 24) <=> a[1] = 198 /\ a[2] = 51 /\ a[3] = 100
    <3> DEFINE b == <<198, 51, 100, 0>>
    <3>1. b \in [1 .. 4 -> 0 .. 255] /\ b[1] = 198 /\ b[2] = 51 /\ b[3] = 100 /\ b[4] = 0
      OBVIOUS
    <3> HIDE DEF b
    <3>2. Within(a, b, 24) <=> a[1] = 198 /\ a[2] = 51 /\ a[3] = 100
      BY <2>1, <3>1, TwentyFour
    <3> QED BY <3>2 DEF b
  <2>15. Within(a, <<203, 0, 113, 0>>, 24) <=> a[1] = 203 /\ a[2] = 0 /\ a[3] = 113
    <3> DEFINE b == <<203, 0, 113, 0>>
    <3>1. b \in [1 .. 4 -> 0 .. 255] /\ b[1] = 203 /\ b[2] = 0 /\ b[3] = 113 /\ b[4] = 0
      OBVIOUS
    <3> HIDE DEF b
    <3>2. Within(a, b, 24) <=> a[1] = 203 /\ a[2] = 0 /\ a[3] = 113
      BY <2>1, <3>1, TwentyFour
    <3> QED BY <3>2 DEF b
  <2>16. Within(a, <<0, 0, 0, 0>>, 32) <=> a[1] = 0 /\ a[2] = 0 /\ a[3] = 0 /\ a[4] = 0
    <3> DEFINE b == <<0, 0, 0, 0>>
    <3>1. b \in [1 .. 4 -> 0 .. 255] /\ b[1] = 0 /\ b[2] = 0 /\ b[3] = 0 /\ b[4] = 0
      OBVIOUS
    <3> HIDE DEF b
    <3>2. Within(a, b, 32) <=> a[1] = 0 /\ a[2] = 0 /\ a[3] = 0 /\ a[4] = 0
      BY <2>1, <3>1, ThirtyTwo
    <3> QED BY <3>2 DEF b
  <2>4. PublicAddress(a) <=>
          /\ ~Within(a, <<10, 0, 0, 0>>, 8) /\ ~Within(a, <<127, 0, 0, 0>>, 8)
          /\ ~Within(a, <<192, 168, 0, 0>>, 16) /\ ~Within(a, <<172, 16, 0, 0>>, 12)
          /\ ~Within(a, <<192, 0, 2, 0>>, 24) /\ ~Within(a, <<198, 51, 100, 0>>, 24)
          /\ ~Within(a, <<203, 0, 113, 0>>, 24) /\ ~Within(a, <<0, 0, 0, 0>>, 32)
    BY <1>2 DEF PublicAddress, Nowhere
  <2>5. SubSeq(a, 1, 3) \in DocumentationNets <=>
          \/ a[1] = 192 /\ a[2] = 0 /\ a[3] = 2
          \/ a[1] = 198 /\ a[2] = 51 /\ a[3] = 100
          \/ a[1] = 203 /\ a[2] = 0 /\ a[3] = 113
    <3>1. SubSeq(a, 1, 3) = <<a[1], a[2], a[3]>>
      <4> DEFINE s == SubSeq(a, 1, 3)
                 t == <<a[1], a[2], a[3]>>
      <4>1. \A i \in 1 .. 3 : a[i] \in Nat
        OBVIOUS
      <4>2. s \in Seq(Nat) /\ Len(s) = 3 /\ \A i \in 1 .. 3 : s[i] = a[i]
        <5>1. /\ s \in Seq(Nat)
              /\ Len(s) = IF 1 <= 3 THEN 3 - 1 + 1 ELSE 0
              /\ \A i \in 1 .. 3 - 1 + 1 : s[i] = a[1 + i - 1]
          BY <4>1, SubSeqProperties
        <5> QED BY <5>1
      <4>3. t \in Seq(Nat) /\ Len(t) = 3 /\ t[1] = a[1] /\ t[2] = a[2] /\ t[3] = a[3]
        OBVIOUS
      <4> HIDE DEF s, t
      <4>4. Len(s) = Len(t) /\ \A i \in 1 .. Len(s) : s[i] = t[i]
        <5>1. 1 .. 3 = {1, 2, 3}
          OBVIOUS
        <5> QED BY <4>2, <4>3, <5>1
      <4>5. s = t
        BY <4>2, <4>3, <4>4, SeqEqual
      <4> QED BY <4>5 DEF s, t
    <3> QED BY <3>1 DEF DocumentationNets
  <2>6. a = <<0, 0, 0, 0>> <=> a[1] = 0 /\ a[2] = 0 /\ a[3] = 0 /\ a[4] = 0
    OBVIOUS
  <2>7. ~ \E i \in 1 .. 4 : a[i] > 255
    BY <1>2
  <2> QED BY <2>1, <2>4, <2>5, <2>6, <2>7, <2>10, <2>11, <2>12, <2>13, <2>14, <2>15, <2>16, Twelve
        DEF ReservedAddress, Private
<1> QED BY <1>1, <1>2

LEMMA HostJudged ==
  ASSUME NEW h, Len(h) > 1
  PROVE  ReservedHost(h) <=> ~SomebodysHost(h)
<1>1. ReservedDomains = {<<"example", "com">>, <<"example", "org">>, <<"example", "net">>}
  BY DEF ReservedDomains
<1>2. h # <<"localhost">>
  <2>1. Len(<<"localhost">>) = 1
    OBVIOUS
  <2>2. ~(1 > 1)
    OBVIOUS
  <2> QED BY <2>1, <2>2, Zenon
<1> QED BY <1>1, <1>2 DEF ReservedHost, SomebodysHost, ReservedSuffixes

\* Documentation in which nothing is found agrees.
LEMMA NothingFound ==
  ASSUME NEW f, AreDocs(f.docs), VariableFindings(f) = {}, PortFindings(f) = {},
         ServiceFindings(f) = {}, AddressFindings(f) = {}
  PROVE  DocsAgree(f)
<1>1. f.used \subseteq f.declared \cup UndocumentedVariables
  BY DEF VariableFindings
<1>2. ASSUME NEW d \in Followed(f), NEW p \in f.docs[d].ports \ ExternalPorts
      PROVE  \E s \in DOMAIN f.stacks : \E n \in DOMAIN f.stacks[s] :
               \E q \in f.stacks[s][n].ports : q.published = p
  <2>1. p \in PublishedPorts(f)
    <3> DEFINE of(x) == {<<x, "port", q>> :
                          q \in f.docs[x].ports \ (PublishedPorts(f) \cup ExternalPorts)}
    <3>1. UNION {of(x) : x \in Followed(f)} = {}
      BY DEF PortFindings
    <3>2. of(d) = {}
      <4> HIDE DEF of
      <4> QED BY <3>1, <1>2
    <3> QED BY <3>2, <1>2
  <2> QED BY <2>1 DEF PublishedPorts
<1>3. ASSUME NEW d \in Followed(f), NEW n \in f.docs[d].services \ NotAService
      PROVE  \E s \in DOMAIN f.stacks : n \in DOMAIN f.stacks[s]
  <2>1. n \in StackServices(f)
    <3> DEFINE of(x) == {<<x, "service", s>> :
                          s \in f.docs[x].services \ (StackServices(f) \cup NotAService)}
    <3>1. UNION {of(x) : x \in Followed(f)} = {}
      BY DEF ServiceFindings
    <3>2. of(d) = {}
      <4> HIDE DEF of
      <4> QED BY <3>1, <1>3
    <3> QED BY <3>2, <1>3
  <2> QED BY <2>1 DEF StackServices
<1>4. ASSUME NEW d \in Followed(f)
      PROVE  /\ \A a \in f.docs[d].addresses : ReservedAddress(a)
             /\ \A h \in NamedHosts(f.docs[d]) : ReservedHost(h)
  <2> DEFINE hosts(x) == {<<x, "host", h>> :
                            h \in {y \in NamedHosts(f.docs[x]) : ~ReservedHost(y)}}
             addresses(x) == {<<x, "address", a>> :
                                a \in {y \in f.docs[x].addresses : ~ReservedAddress(y)}}
  <2>1. UNION {hosts(x) \cup addresses(x) : x \in Followed(f)} = {}
    BY DEF AddressFindings
  <2>2. hosts(d) = {} /\ addresses(d) = {}
    <3> HIDE DEF hosts, addresses
    <3> QED BY <2>1, <1>4
  <2> QED BY <2>2
<1>5. ASSUME NEW d \in Followed(f)
      PROVE  /\ \A a \in f.docs[d].addresses : ~PublicAddress(a)
             /\ \A h \in NamedHosts(f.docs[d]) : ~SomebodysHost(h)
  <2>1. f.docs[d].addresses \subseteq [1 .. 4 -> Nat]
    BY DEF AreDocs, Followed
  <2>2. \A h \in NamedHosts(f.docs[d]) : Len(h) > 1
    BY DEF NamedHosts
  <2> QED BY <1>4, <2>1, <2>2, AddressJudged, HostJudged
<1> QED BY <1>1, <1>2, <1>3, <1>5 DEF DocsAgree

LEMMA ConfigChecked ==
  ASSUME NEW f, AreDocs(f.docs), Passes(CheckConfigDocs(f))
  PROVE  DocsAgree(f) /\ Substance("config", f, None)
<1> DEFINE all == VariableFindings(f) \cup PortFindings(f)
                  \cup ServiceFindings(f) \cup AddressFindings(f)
<1>1. /\ f.used # {} /\ \A s \in DOMAIN f.stacks : f.stacks[s] # Unreadable
      /\ PublishedPorts(f) # {} /\ StackServices(f) # {}
  BY ExitCodes DEF CheckConfigDocs
<1>2. all = {} /\ AddressesSeen(f)
  <2>1. CheckConfigDocs(f) = IF all = {} /\ ~AddressesSeen(f) THEN Refuse({}) ELSE Judge(all)
    BY <1>1 DEF CheckConfigDocs
  <2> HIDE DEF all
  <2> QED BY <2>1, ExitCodes
<1>3. /\ VariableFindings(f) = {} /\ PortFindings(f) = {}
      /\ ServiceFindings(f) = {} /\ AddressFindings(f) = {}
  BY <1>2
<1>4. \E d \in Followed(f) : NamedHosts(f.docs[d]) # {}
  BY <1>2, <1>3 DEF AddressesSeen
<1>5. DocsAgree(f)
  BY <1>3, NothingFound
<1> QED BY <1>1, <1>4, <1>5 DEF Substance

\* A directory of this repository is no repository beside it.
LEMMA OwnedHere == Siblings \cap OwnedRoots = {}
BY DEF Siblings, OwnedRoots

LEMMA LinksChecked ==
  ASSUME NEW f, NEW c, Passes(CheckDocLinks(f, BesideRepo(c)))
  PROVE  LinksLead(f, c)
<1>1. \A d \in DOMAIN f.docs : LinkFindings(f, d, BesideRepo(c)) = {}
  BY ExitCodes DEF CheckDocLinks
<1>2. ASSUME NEW d \in DOMAIN f.docs, NEW l \in f.docs[d].links
      PROVE  Resolves(l.resolved, f, BesideRepo(c)) \/ SiblingExists(l.target, BesideRepo(c))
  BY <1>1 DEF LinkFindings
<1>3. ASSUME NEW d \in DOMAIN f.docs, NEW s \in f.docs[d].spans,
             Len(Candidate(s)) > 1, Candidate(s)[1] \in OwnedRoots
      PROVE  Candidate(s) \in Known(f)
  <2>1. ~SiblingExists(Candidate(s), BesideRepo(c))
    BY <1>3, OwnedHere DEF SiblingExists
  <2> QED BY <1>1, <1>3, <2>1 DEF LinkFindings
<1> QED BY <1>2, <1>3 DEF LinksLead, Resolves, SiblingExists, Exists, Known

LEMMA EndpointsChecked ==
  ASSUME NEW f, NEW c \in Cores, Passes(CheckDocumentedEndpoints(f, CoreAt(c)))
  PROVE  EndpointsServed(f, c) /\ Substance("endpoints", f, c)
<1> SUFFICES ASSUME c # None
             PROVE  /\ ~(Cardinality(DocumentedPaths(CoreContent[c])) < 2)
                    /\ \E d \in Followed(f) : Checked(f.docs[d]) # {}
                    /\ \A d \in Followed(f) : \A e \in Checked(f.docs[d]) :
                         \E p \in CoreContent[c].served : Instantiates(e, p)
  BY DEF EndpointsServed, Substance
<1> DEFINE served == DocumentedPaths(CoreContent[c])
           findings == UNION {{<<d, e>> : e \in {x \in Checked(f.docs[d]) :
                                                   Candidates(x) \cap served = {}}} :
                                d \in Followed(f)}
<1>1. CoreAt(c) = CoreContent[c] /\ CoreAt(c) # None
  BY CiAssumption DEF CoreAt, Cores
<1>2. ~(Cardinality(served) < 2) /\ \E d \in Followed(f) : Checked(f.docs[d]) # {}
  BY <1>1, ExitCodes DEF CheckDocumentedEndpoints
<1>3. findings = {}
  <2>1. CheckDocumentedEndpoints(f, CoreAt(c)) = Judge(findings)
    BY <1>1, <1>2 DEF CheckDocumentedEndpoints
  <2> QED BY <2>1, ExitCodes
<1>4. ASSUME NEW d \in Followed(f), NEW e \in Checked(f.docs[d])
      PROVE  \E p \in CoreContent[c].served : Instantiates(e, p)
  <2>1. Candidates(e) \cap served # {}
    <3> DEFINE of(x) == {<<x, y>> : y \in {z \in Checked(f.docs[x]) :
                                            Candidates(z) \cap served = {}}}
    <3>1. of(d) = {}
      <4> HIDE DEF of
      <4>1. UNION {of(x) : x \in Followed(f)} = {}
        BY <1>3 DEF of
      <4> QED BY <4>1, <1>4
    <3> QED BY <3>1, <1>4
  <2>2. PICK p \in CoreContent[c].served : Normal(p) \in Candidates(e)
    BY <2>1 DEF DocumentedPaths
  <2>3. CASE Normal(p) = Normal(e)
    <3>1. DOMAIN e = DOMAIN p
      BY <2>3 DEF Normal
    <3>2. ASSUME NEW i \in DOMAIN p PROVE p[i] \in Placeholders \cup {"{}"} \/ e[i] = p[i]
      <4>1. Normal(p)[i] = Normal(e)[i]
        BY <2>3
      <4> QED BY <3>1, <4>1 DEF Normal
    <3> QED BY <3>1, <3>2 DEF Instantiates
  <2>4. CASE Normal(p) = [e EXCEPT ![Len(e)] = "{}"]
    <3>1. DOMAIN e = DOMAIN p
      BY <2>4 DEF Normal
    <3>2. ASSUME NEW i \in DOMAIN p PROVE p[i] \in Placeholders \cup {"{}"} \/ e[i] = p[i]
      <4>1. Normal(p)[i] = IF i = Len(e) THEN "{}" ELSE e[i]
        BY <2>4, <3>1
      <4> QED BY <4>1 DEF Normal
    <3> QED BY <3>1, <3>2 DEF Instantiates
  <2> QED BY <2>2, <2>3, <2>4 DEF Candidates
<1> QED BY <1>2, <1>4

\* The whole of it, check by check.
LEMMA CheckHasSubstance ==
  ASSUME NEW f, AreRows(f.rows), AreDocs(f.docs), NEW c \in Cores, NEW check \in Checks,
         Passes(Verdict(check, f, c))
  PROVE  Substance(check, f, c)
<1>1. CASE check = "hardening"
  BY <1>1, HardeningChecked DEF Verdict, Substance
<1>2. CASE check = "stage hardening"
  BY <1>2, HardeningChecked DEF Verdict, Substance
<1>3. CASE check = "stage1 hardening"
  BY <1>3, HardeningChecked DEF Verdict, Substance
<1>4. CASE check = "overlay"
  BY <1>4, OverlayChecked DEF Verdict, Substance
<1>5. CASE check = "secrets"
  BY <1>5, SecretsChecked DEF Verdict, Substance
<1>6. CASE check = "links"
  BY <1>6 DEF Substance
<1>7. CASE check = "config"
  BY <1>7, ConfigChecked DEF Verdict, Substance
<1>8. CASE check = "coverage"
  BY <1>8, CoverageChecked DEF Verdict, Substance
<1>9. CASE check = "artifacts"
  BY <1>9, ArtifactsChecked DEF Verdict, Substance
<1>10. CASE check = "groups"
  BY <1>10, GroupsChecked DEF Verdict
<1>11. CASE check = "scopes"
  BY <1>11, ScopesChecked DEF Verdict, Substance
<1>12. CASE check = "prefixes"
  BY <1>12, PrefixesChecked DEF Verdict, Substance
<1>13. CASE check = "endpoints"
  BY <1>13, EndpointsChecked DEF Verdict
<1> QED BY <1>1, <1>2, <1>3, <1>4, <1>5, <1>6, <1>7, <1>8, <1>9, <1>10, <1>11, <1>12, <1>13
        DEF Checks

LEMMA CheckKeepsPromise ==
  ASSUME NEW f, AreRows(f.rows), AreDocs(f.docs), NEW c \in Cores,
         NEW check \in Checks,
         Passes(Verdict(check, f, c))
  PROVE  Promise(check, f, c)
<1>1. CASE check = "hardening"
  BY <1>1, HardeningChecked DEF Verdict, Promise
<1>2. CASE check = "stage hardening"
  BY <1>2, HardeningChecked DEF Verdict, Promise
<1>3. CASE check = "stage1 hardening"
  BY <1>3, HardeningChecked DEF Verdict, Promise
<1>4. CASE check = "overlay"
  BY <1>4, OverlayChecked DEF Verdict, Promise
<1>5. CASE check = "secrets"
  BY <1>5, SecretsChecked DEF Verdict, Promise
<1>6. CASE check = "links"
  BY <1>6, LinksChecked DEF Verdict, Promise
<1>7. CASE check = "config"
  BY <1>7, ConfigChecked DEF Verdict, Promise
<1>8. CASE check = "coverage"
  BY <1>8, CoverageChecked DEF Verdict, Promise
<1>9. CASE check = "artifacts"
  BY <1>9, ArtifactsChecked DEF Verdict, Promise
<1>10. CASE check = "groups"
  BY <1>10, GroupsChecked DEF Verdict, Promise
<1>11. CASE check = "scopes"
  BY <1>11, ScopesChecked DEF Verdict, Promise
<1>12. CASE check = "prefixes"
  BY <1>12, PrefixesChecked DEF Verdict, Promise
<1>13. CASE check = "endpoints"
  BY <1>13, EndpointsChecked DEF Verdict, Promise
<1> QED BY <1>1, <1>2, <1>3, <1>4, <1>5, <1>6, <1>7, <1>8, <1>9, <1>10, <1>11, <1>12, <1>13
        DEF Checks

(***************************************************************************)
(* What a check shows.                                                     *)
(***************************************************************************)
LEMMA VerdictFields ==
  /\ \A found : Judge(found).compared /\ Judge(found).shown = found
  /\ \A found : ~Refuse(found).compared /\ Refuse(found).shown = {}
  /\ ~Note.compared
BY DEF Judge, Refuse, Note

\* Of the numbers where something is, there is a first one.
LEMMA LeastNatural ==
  ASSUME NEW T \in SUBSET Nat, T # {}
  PROVE  \E x \in T : \A y \in T : ~(y < x)
<1> DEFINE R == OpToRel(<, Nat)
<1>1. IsWellFoundedOn(R, Nat)
  BY NatLessThanWellFounded
<1>2. \A x, y \in Nat : y < x => <<y, x>> \in R
  BY DEF OpToRel
<1> HIDE DEF R
<1>3. PICK x \in T : \A y \in T : ~(<<y, x>> \in R)
  BY <1>1, WFMin
<1> QED BY <1>2, <1>3

\* The Core seeds groups when any of its migrations does: the first of those
\* counts.
LEMMA SeedThere ==
  ASSUME NEW c \in Cores, c # None
  PROVE  Seed(CoreContent[c]) # {} <=>
           \E i \in DOMAIN CoreContent[c].migrations :
             SeededGroups(CoreContent[c].migrations[i]) # {}
<1> DEFINE m == CoreContent[c].migrations
           seeding == {k \in DOMAIN m : SeededGroups(m[k]) # {}}
           first == {k \in seeding : \A j \in seeding : k <= j}
<1>1. DOMAIN m \subseteq Nat
  BY CiAssumption DEF Cores
<1>2. Seed(CoreContent[c]) = UNION {SeededGroups(m[k]) : k \in first}
  BY DEF Seed
<1>3. ASSUME seeding # {} PROVE Seed(CoreContent[c]) # {}
  <2>1. seeding \in SUBSET Nat
    BY <1>1
  <2>2. PICK x \in seeding : \A y \in seeding : ~(y < x)
    <3> HIDE DEF seeding
    <3> QED BY <1>3, <2>1, LeastNatural
  <2>3. x \in first
    <3>1. \A y \in seeding : x \in Nat /\ y \in Nat
      BY <2>1
    <3> HIDE DEF seeding
    <3> QED BY <2>2, <3>1
  <2>4. SeededGroups(m[x]) # {}
    OBVIOUS
  <2> HIDE DEF first, m
  <2> QED BY <1>2, <2>3, <2>4
<1>4. ASSUME seeding = {} PROVE Seed(CoreContent[c]) = {}
  <2>1. first = {}
    <3> HIDE DEF seeding
    <3> QED BY <1>4
  <2> HIDE DEF first, m
  <2> QED BY <1>2, <2>1
<1> QED BY <1>3, <1>4

\* A table with a row has an identity.
LEMMA RowsNamed ==
  ASSUME NEW rows, AreRows(rows), rows # Unreadable, rows # <<>>
  PROVE  DOMAIN DocumentedPermissions(rows) # {}
<1>1. DOMAIN DocumentedPermissions(rows) = {rows[i].identity : i \in DOMAIN rows}
  BY DEF DocumentedPermissions
<1>2. Len(rows) \in Nat /\ DOMAIN rows = 1 .. Len(rows)
  BY DEF AreRows
<1>3. 1 \in DOMAIN rows
  BY <1>2
<1> QED BY <1>1, <1>3

\* A comparison of the groups that has all its lists and shows nothing passes.
LEMMA GroupsJudged ==
  ASSUME NEW f, NEW c \in Cores, Substance("groups", f, c),
         CheckIdentityGroups(f, CoreAt(c)).shown = {}
  PROVE  Passes(CheckIdentityGroups(f, CoreAt(c)))
<1> DEFINE blueprint == BlueprintGroups(f.blueprint)
           mock == Compare("blueprint", blueprint, "mock", PrincipalGroups(f.principals))
           setup == Compare("blueprint", blueprint, "setup", DocumentedGroups(f.setup))
           seeded == IF CoreAt(c) = None THEN {} ELSE Seed(CoreAt(c))
           seed == IF seeded = {} THEN {} ELSE Compare("blueprint", blueprint, "seed", seeded)
           all == mock \cup setup \cup seed
           there == seeded # {}
<1>1. CheckIdentityGroups(f, CoreAt(c)) = [Judge(all) EXCEPT !.compared = there]
  BY DEF CheckIdentityGroups, Substance
<1> HIDE DEF all, there
<1> QED BY <1>1 DEF Passes, Judge

\* A check that passes has compared, or there was nothing to compare with.
LEMMA ComparedWhenItCould ==
  ASSUME NEW f, NEW c \in Cores, NEW check \in Checks, Passes(Verdict(check, f, c))
  PROVE  Verdict(check, f, c).compared <=> Comparable(check, c)
<1>0. c # None => CoreAt(c) = CoreContent[c] /\ CoreAt(c) # None
  BY CiAssumption DEF CoreAt, Cores
<1>1. \A labels : Passes(CheckHardening(f, labels)) => CheckHardening(f, labels).compared
  BY ExitCodes, VerdictFields DEF CheckHardening
<1>2. Passes(CheckStage1Overlay(f)) => CheckStage1Overlay(f).compared
  BY ExitCodes, VerdictFields DEF CheckStage1Overlay
<1>3. Passes(CheckStageSecrets(f)) => CheckStageSecrets(f).compared
  BY ExitCodes, VerdictFields DEF CheckStageSecrets
<1>4. CheckDocLinks(f, BesideRepo(c)).compared
  BY VerdictFields DEF CheckDocLinks
<1>5. Passes(CheckConfigDocs(f)) => CheckConfigDocs(f).compared
  BY ExitCodes, VerdictFields DEF CheckConfigDocs
<1>6. Passes(CheckScanCoverage(f)) => CheckScanCoverage(f).compared
  BY ExitCodes, VerdictFields DEF CheckScanCoverage
<1>7. Passes(CheckArtifacts(f)) => CheckArtifacts(f).compared
  BY ExitCodes, VerdictFields DEF CheckArtifacts
<1>8. Passes(CheckServiceIdentityScopes(f)) => CheckServiceIdentityScopes(f).compared
  BY ExitCodes, VerdictFields DEF CheckServiceIdentityScopes
<1>9. CASE check = "endpoints"
  <2>1. CASE c = None
    BY <1>9, <2>1, VerdictFields DEF Verdict, Comparable, CheckDocumentedEndpoints, CoreAt
  <2>2. CASE c # None
    <3>1. Passes(CheckDocumentedEndpoints(f, CoreAt(c))) =>
            CheckDocumentedEndpoints(f, CoreAt(c)).compared
      BY <1>0, <2>2, ExitCodes, VerdictFields DEF CheckDocumentedEndpoints
    <3> QED BY <1>9, <2>2, <3>1 DEF Verdict, Comparable
  <2> QED BY <2>1, <2>2
<1>10. CASE check = "prefixes"
  <2> DEFINE seeds == SeededPrefixes(CoreContent[c])
             m == CoreContent[c].migrations
  <2>1. ~(Cardinality(f.rules) < 2)
    BY <1>10, ExitCodes DEF Verdict, CheckGlobalIds
  <2>2. CASE c = None
    BY <1>10, <2>1, <2>2, VerdictFields DEF Verdict, Comparable, CheckGlobalIds, CoreAt
  <2>3. CASE c # None
    <3>1. seeds # {} <=> \E i \in DOMAIN m : m[i].counters /\ m[i].prefixes # {}
      BY DEF SeededPrefixes
    <3>2. CheckGlobalIds(f, CoreAt(c)) =
            IF seeds = {} THEN Note ELSE Judge(Compare("rules", f.rules, "seed", seeds))
      BY <1>0, <2>1, <2>3 DEF CheckGlobalIds
    <3> HIDE DEF seeds
    <3> QED BY <1>10, <2>3, <3>1, <3>2, VerdictFields DEF Verdict, Comparable
  <2> QED BY <2>2, <2>3
<1>11. CASE check = "groups"
  <2> DEFINE blueprint == BlueprintGroups(f.blueprint)
             mock == Compare("blueprint", blueprint, "mock", PrincipalGroups(f.principals))
             setup == Compare("blueprint", blueprint, "setup", DocumentedGroups(f.setup))
             seeded == IF CoreAt(c) = None THEN {} ELSE Seed(CoreAt(c))
             seed == IF seeded = {} THEN {} ELSE Compare("blueprint", blueprint, "seed", seeded)
  <2>1. CheckIdentityGroups(f, CoreAt(c)) =
          [Judge(mock \cup setup \cup seed) EXCEPT !.compared = seeded # {}]
    BY <1>11, GroupsChecked DEF Verdict, Substance, CheckIdentityGroups
  <2>2. CheckIdentityGroups(f, CoreAt(c)).compared <=> seeded # {}
    <3> HIDE DEF mock, setup, seed, seeded
    <3> QED BY <2>1 DEF Judge
  <2>3. seeded # {} <=> Comparable("groups", c)
    <3>1. CASE c = None
      BY <3>1 DEF CoreAt, Comparable
    <3>2. CASE c # None
      BY <1>0, <3>2, SeedThere DEF Comparable
    <3> QED BY <3>1, <3>2
  <2> HIDE DEF seeded
  <2> QED BY <1>11, <2>2, <2>3 DEF Verdict
<1> QED BY <1>1, <1>2, <1>3, <1>4, <1>5, <1>6, <1>7, <1>8, <1>9, <1>10, <1>11
        DEF Verdict, Comparable, Checks

\* A check that has its input and shows nothing found nothing.
LEMMA NothingHidden ==
  ASSUME NEW f, AreRows(f.rows), AreDocs(f.docs), NEW c \in Cores, NEW check \in Checks,
         Input(check, f, c), Verdict(check, f, c).shown = {}
  PROVE  Promise(check, f, c)
<1>0. \A found : Judge(found).shown = {} => Passes(Judge(found))
  BY ExitCodes, VerdictFields
<1>1. ASSUME NEW labels, \A l \in labels : f.stacks[l] # Unreadable,
             CheckHardening(f, labels).shown = {}
      PROVE  \A l \in labels : StackContained(f.stacks[l])
  <2> DEFINE failures == UNION {Inspect(l, Render(f.stacks[l])) : l \in labels}
  <2>1. failures = {}
    <3>1. failures # {} => CheckHardening(f, labels) = Judge(failures)
      BY <1>1 DEF CheckHardening
    <3> HIDE DEF failures
    <3> QED BY <1>1, <3>1, VerdictFields
  <2> QED BY <2>1, NothingReported
<1>2. CASE check = "hardening"
  BY <1>1, <1>2 DEF Verdict, Input, Promise
<1>3. CASE check = "stage hardening"
  BY <1>1, <1>3 DEF Verdict, Input, Promise
<1>4. CASE check = "stage1 hardening"
  BY <1>1, <1>4 DEF Verdict, Input, Promise
<1>5. CASE check = "config"
  <2> DEFINE ports == VariableFindings(f) \cup PortFindings(f)
             all == ports \cup ServiceFindings(f) \cup AddressFindings(f)
  <2>1. /\ f.used # {} /\ \A s \in DOMAIN f.stacks : f.stacks[s] # Unreadable
        /\ PublishedPorts(f) # {}
    BY <1>5 DEF Input
  <2>2. StackServices(f) # {}
    BY <2>1 DEF StackServices, PublishedPorts
  <2>3. all = {}
    <3>1. all # {} => CheckConfigDocs(f) = Judge(all)
      BY <2>1, <2>2 DEF CheckConfigDocs
    <3> HIDE DEF all
    <3> QED BY <1>5, <3>1, VerdictFields DEF Verdict
  <2> QED BY <1>5, <2>3, NothingFound DEF Promise
<1>6. CASE check = "endpoints"
  <2>1. CASE c = None
    BY <1>6, <2>1 DEF Promise, EndpointsServed
  <2>2. CASE \A d \in Followed(f) : Checked(f.docs[d]) = {}
    BY <1>6, <2>2 DEF Promise, EndpointsServed
  <2>3. CASE c # None /\ \E d \in Followed(f) : Checked(f.docs[d]) # {}
    <3>1. CoreAt(c) = CoreContent[c] /\ CoreAt(c) # None
      BY <2>3, CiAssumption DEF CoreAt, Cores
    <3>2. Passes(CheckDocumentedEndpoints(f, CoreAt(c)))
      BY <1>0, <1>6, <2>3, <3>1 DEF Verdict, Input, CheckDocumentedEndpoints
    <3> QED BY <1>6, <3>2, EndpointsChecked DEF Promise
  <2> QED BY <2>1, <2>2, <2>3
<1>7. CASE check \notin {"hardening", "stage hardening", "stage1 hardening", "config", "endpoints"}
  <2>1. Passes(Verdict(check, f, c))
    <3>1. CASE check = "overlay"
      BY <1>0, <3>1 DEF Verdict, Input, Substance, CheckStage1Overlay
    <3>2. CASE check = "secrets"
      BY <1>0, <3>2 DEF Verdict, Input, Substance, CheckStageSecrets
    <3>3. CASE check = "links"
      BY <1>0, <3>3 DEF Verdict, CheckDocLinks
    <3>4. CASE check = "coverage"
      BY <1>0, <3>4 DEF Verdict, Input, Substance, CheckScanCoverage
    <3>5. CASE check = "artifacts"
      <4>1. /\ ~(Cardinality(DOMAIN f.tracked) < 2) /\ DefaultBuildOutputs(f) # {}
            /\ \E p \in DOMAIN f.tracked : f.tracked[p].kind = "file"
        BY <3>5 DEF Input
      <4> QED BY <1>0, <3>5, <4>1 DEF Verdict, CheckArtifacts
    <3>6. CASE check = "groups"
      <4>1. Substance("groups", f, c)
        BY <3>6 DEF Input
      <4> QED BY <3>6, <4>1, GroupsJudged DEF Verdict
    <3>7. CASE check = "scopes"
      BY <1>0, <3>7, RowsNamed DEF Verdict, Input, Substance, CheckServiceIdentityScopes
    <3>8. CASE check = "prefixes"
      BY <1>0, <3>8, ExitCodes DEF Verdict, Input, Substance, CheckGlobalIds
    <3> QED BY <1>7, <3>1, <3>2, <3>3, <3>4, <3>5, <3>6, <3>7, <3>8 DEF Checks
  <2> QED BY <2>1, CheckKeepsPromise
<1> QED BY <1>2, <1>3, <1>4, <1>5, <1>6, <1>7

(***************************************************************************)
(* The other way round: a check that had something to look at, and of      *)
(* which the promise holds, passes.                                        *)
(***************************************************************************)
LEMMA NothingToCompare == ASSUME NEW a, NEW b, NEW X PROVE Compare(a, X, b, X) = {}
BY DEF Compare

LEMMA CoveragePasses ==
  ASSUME NEW f, EveryModuleScanned(f), Substance("coverage", f, None)
  PROVE  Passes(CheckScanCoverage(f))
<1>1. \A j \in ScannedBy : Uncovered(f, j) = {}
  BY DEF EveryModuleScanned, Uncovered
<1>2. UNION {Uncovered(f, j) : j \in ScannedBy} = {}
  BY <1>1
<1> QED BY <1>2, ExitCodes DEF CheckScanCoverage, Substance

LEMMA PrefixesPass ==
  ASSUME NEW f, NEW c \in Cores, PrefixesAgree(f, c), Substance("prefixes", f, c)
  PROVE  Passes(CheckGlobalIds(f, CoreAt(c)))
<1>1. ~(Cardinality(f.rules) < 2)
  BY DEF Substance
<1>2. CASE c = None
  BY <1>1, <1>2, ExitCodes DEF CheckGlobalIds, CoreAt
<1>3. CASE c # None
  <2> DEFINE m == CoreContent[c].migrations
             seeds == SeededPrefixes(CoreContent[c])
             seeded(p) == \E i \in DOMAIN m : m[i].counters /\ p \in m[i].prefixes
  <2>1. CoreAt(c) = CoreContent[c] /\ CoreAt(c) # None
    BY <1>3, CiAssumption DEF CoreAt, Cores
  <2>2. \A p : p \in seeds <=> seeded(p)
    BY DEF SeededPrefixes
  <2>3. CASE seeds = {}
    BY <1>1, <2>1, <2>3, ExitCodes DEF CheckGlobalIds
  <2>4. CASE seeds # {}
    <3>1. \E i \in DOMAIN m : \E p \in m[i].prefixes : seeded(p)
      BY <2>2, <2>4
    <3>2. /\ \A p \in f.rules : seeded(p)
          /\ \A i \in DOMAIN m : \A p \in m[i].prefixes : seeded(p) => p \in f.rules
      BY <1>3, <3>1 DEF PrefixesAgree
    <3>3. \A p : p \in f.rules <=> p \in seeds
      BY <2>2, <3>2
    <3> HIDE DEF seeds
    <3>4. f.rules = seeds
      BY <3>3
    <3>5. Compare("rules", f.rules, "seed", seeds) = {}
      BY <3>4, NothingToCompare
    <3>6. CheckGlobalIds(f, CoreAt(c)) = Judge(Compare("rules", f.rules, "seed", seeds))
      BY <1>1, <2>1, <2>4 DEF CheckGlobalIds, seeds
    <3> QED BY <3>5, <3>6, ExitCodes
  <2> QED BY <2>3, <2>4
<1> QED BY <1>2, <1>3

LEMMA GroupsPass ==
  ASSUME NEW f, NEW c \in Cores, GroupsAgree(f, c), Substance("groups", f, c)
  PROVE  Passes(CheckIdentityGroups(f, CoreAt(c)))
<1> DEFINE blueprint == BlueprintGroups(f.blueprint)
           mock == Compare("blueprint", blueprint, "mock", PrincipalGroups(f.principals))
           setup == Compare("blueprint", blueprint, "setup", DocumentedGroups(f.setup))
           seeded == IF CoreAt(c) = None THEN {} ELSE Seed(CoreAt(c))
           seed == IF seeded = {} THEN {} ELSE Compare("blueprint", blueprint, "seed", seeded)
<1>1. CheckIdentityGroups(f, CoreAt(c)) =
        [Judge(mock \cup setup \cup seed) EXCEPT !.compared = seeded # {}]
  BY DEF CheckIdentityGroups, Substance
<1>2. mock = {} /\ setup = {}
  BY NothingToCompare DEF GroupsAgree
<1>3. seeded = {} \/ seeded = blueprint
  <2>1. CASE c = None
    BY <2>1 DEF CoreAt
  <2>2. CASE c # None
    <3> DEFINE m == CoreContent[c].migrations
               seeding == {k \in DOMAIN m : SeededGroups(m[k]) # {}}
               first == {k \in seeding : \A j \in seeding : k <= j}
    <3>1. CoreAt(c) = CoreContent[c] /\ CoreAt(c) # None /\ DOMAIN m \subseteq Nat
      BY <2>2, CiAssumption DEF CoreAt, Cores
    <3>2. ASSUME NEW k \in first PROVE SeededGroups(m[k]) = blueprint
      <4>1. \A j \in DOMAIN m : ~(j < k /\ SeededGroups(m[j]) # {})
        BY <3>1
      <4> QED BY <2>2, <4>1 DEF GroupsAgree
    <3>3. seeded = UNION {SeededGroups(m[k]) : k \in first}
      BY <3>1 DEF Seed
    <3> HIDE DEF first, seeded, blueprint, m
    <3> QED BY <3>2, <3>3
  <2> QED BY <2>1, <2>2
<1>4. seed = {}
  <2> HIDE DEF seeded, blueprint
  <2> QED BY <1>3, NothingToCompare
<1> HIDE DEF mock, setup, seed, seeded
<1> QED BY <1>1, <1>2, <1>4 DEF Passes, Judge

\* Of the places of a sequence where something is, there is a last one.
LEMMA LastPlace ==
  ASSUME NEW n \in Nat, NEW S \in SUBSET (1 .. n), S # {}
  PROVE  \E x \in S : \A y \in x + 1 .. n : y \notin S
<1> DEFINE T == {n - i : i \in S}
<1>1. T \subseteq Nat /\ T # {}
  <2>1. \A i \in S : n - i \in Nat
    OBVIOUS
  <2> QED BY <2>1
<1>2. PICK t \in T : \A y \in T : ~(y < t)
  BY <1>1, LeastNatural
<1>3. PICK x \in S : t = n - x
  OBVIOUS
<1>4. ASSUME NEW y \in x + 1 .. n PROVE y \notin S
  <2>1. y \in S => n - y \in T
    OBVIOUS
  <2> HIDE DEF T
  <2> QED BY <1>2, <1>3, <2>1
<1> QED BY <1>3, <1>4

LEMMA ScopesPass ==
  ASSUME NEW f, AreRows(f.rows), LeastPrivilege(f), Substance("scopes", f, None)
  PROVE  Passes(CheckServiceIdentityScopes(f))
<1> DEFINE rows == f.rows
           documented == DocumentedPermissions(rows)
           readers == ReadOnlyIdentities \cap DOMAIN documented
           writing == {<<id, "writes">> :
                         id \in {r \in readers : "relationships.write" \in documented[r]}}
           blind == {<<id, "cannot read">> :
                       id \in {r \in readers : "relationships.read" \notin documented[r]}}
           differing == Compare("table", DOMAIN documented, "blueprint", f.usernames)
<1>1. /\ f.rows # Unreadable /\ f.usernames # Unreadable /\ f.usernames # {}
      /\ Len(rows) \in Nat /\ DOMAIN rows = 1 .. Len(rows)
  BY DEF Substance, AreRows
<1>2. DOMAIN documented = {rows[i].identity : i \in DOMAIN rows}
  BY DEF DocumentedPermissions
<1>3. DOMAIN documented = f.usernames
  BY <1>2 DEF LeastPrivilege
<1>4. differing = {}
  <2> HIDE DEF documented
  <2> QED BY <1>3, NothingToCompare
<1>5. ASSUME NEW id \in readers
      PROVE  /\ "relationships.read" \in documented[id]
             /\ "relationships.write" \notin documented[id]
  <2> DEFINE Latest(k) == /\ rows[k].identity = id
                          /\ \A j \in k + 1 .. Len(rows) : rows[j].identity # id
             latest == CHOOSE k \in DOMAIN rows : Latest(k)
             S == {i \in DOMAIN rows : rows[i].identity = id}
  <2>1. documented[id] = rows[latest].permissions
    BY <1>2 DEF DocumentedPermissions
  <2>2. \E k \in DOMAIN rows : Latest(k)
    <3>1. S \in SUBSET (1 .. Len(rows)) /\ S # {}
      <4>1. id \in {rows[i].identity : i \in DOMAIN rows}
        BY <1>2
      <4> QED BY <1>1, <4>1
    <3>2. PICK k \in S : \A y \in k + 1 .. Len(rows) : y \notin S
      <4> HIDE DEF S
      <4> QED BY <1>1, <3>1, LastPlace
    <3>3. k \in DOMAIN rows /\ rows[k].identity = id
      OBVIOUS
    <3>4. \A y \in k + 1 .. Len(rows) : y \in DOMAIN rows
      BY <1>1, <3>3
    <3> QED BY <3>2, <3>3, <3>4
  <2>3. latest \in DOMAIN rows /\ Latest(latest)
    <3> HIDE DEF Latest
    <3> QED BY <2>2
  <2>4. rows[latest].identity \in ReadOnlyIdentities
    <3> HIDE DEF latest
    <3> QED BY <2>3
  <2>5. /\ "relationships.read" \in rows[latest].permissions
        /\ "relationships.write" \notin rows[latest].permissions
    <3> HIDE DEF latest
    <3> QED BY <2>3, <2>4 DEF LeastPrivilege
  <2> HIDE DEF latest, documented
  <2> QED BY <2>1, <2>5
<1>6. writing = {} /\ blind = {}
  <2> HIDE DEF documented
  <2> QED BY <1>5
<1>7. CheckServiceIdentityScopes(f) = Judge(differing \cup writing \cup blind)
  BY <1>1, <1>3 DEF CheckServiceIdentityScopes
<1> HIDE DEF differing, writing, blind
<1> QED BY <1>4, <1>6, <1>7, ExitCodes

LEMMA ContainedIsEnough ==
  ASSUME NEW name, NEW s, Contained(name, s)
  PROVE  Failures(name, s) = {}
<1> DEFINE fails ==
      [privileges   |-> ~s.no_new_privileges,
       exemption    |-> name \in CapabilityExempt /\ s.cap_drop # {},
       capabilities |-> name \notin CapabilityExempt /\ "ALL" \notin s.cap_drop,
       privileged   |-> s.privileged,
       secret       |-> \E v \in s.environment \cap DOMAIN AdminSecretEnv :
                          name \notin AdminSecretEnv[v],
       filesystem   |-> name \in ReadOnly /\ ~s.read_only,
       socket       |-> \E m \in s.mounts : m.source = DockerSocket,
       bind         |-> \E m \in Binds(s) : /\ m.source \notin WritableBinds
                                            /\ ~m.read_only,
       port         |-> \E p \in s.ports : Exposes(p)]
<1>1. s.no_new_privileges /\ ~s.privileged
  BY DEF Contained
<1>2. ~(name \in CapabilityExempt /\ s.cap_drop # {})
  BY DEF Contained
<1>3. ~(name \notin CapabilityExempt /\ "ALL" \notin s.cap_drop)
  BY DEF Contained
<1>4. ~ \E v \in s.environment \cap DOMAIN AdminSecretEnv : name \notin AdminSecretEnv[v]
  BY DEF Contained
<1>5. ~(name \in ReadOnly /\ ~s.read_only)
  BY DEF Contained
<1>6. ~ \E m \in s.mounts : m.source = DockerSocket
  BY DEF Contained
<1>7. ~ \E m \in Binds(s) : m.source \notin WritableBinds /\ ~m.read_only
  BY DEF Contained, Binds
<1>8. ~ \E p \in s.ports : Exposes(p)
  BY DEF Contained, Exposes, EveryInterface
<1>9. Failures(name, s) = {k \in DOMAIN fails : fails[k]}
  BY DEF Failures
<1>10. /\ ~fails.privileges /\ ~fails.exemption /\ ~fails.capabilities
       /\ ~fails.privileged /\ ~fails.secret /\ ~fails.filesystem
       /\ ~fails.socket /\ ~fails.bind /\ ~fails.port
  BY <1>1, <1>2, <1>3, <1>4, <1>5, <1>6, <1>7, <1>8
<1>11. DOMAIN fails = {"privileges", "exemption", "capabilities", "privileged", "secret",
                       "filesystem", "socket", "bind", "port"}
  OBVIOUS
<1> HIDE DEF fails
<1> QED BY <1>9, <1>10, <1>11

LEMMA HardeningPasses ==
  ASSUME NEW f, NEW labels, Inspected(f, labels), \A l \in labels : StackContained(f.stacks[l])
  PROVE  Passes(CheckHardening(f, labels))
<1> DEFINE failures == UNION {Inspect(l, Render(f.stacks[l])) : l \in labels}
           binds == UNION {UNION {Binds(f.stacks[l][s]) : s \in DOMAIN Render(f.stacks[l])} :
                             l \in labels}
<1>1. ASSUME NEW l \in labels PROVE Inspect(l, Render(f.stacks[l])) = {}
  <2> DEFINE st == f.stacks[l]
             rendered == Render(st)
  <2>1. DOMAIN rendered # {}
    BY DEF Inspected
  <2>2. ASSUME NEW name \in DOMAIN rendered PROVE Failures(name, rendered[name]) = {}
    <3>1. name \in DOMAIN st /\ st[name].profiles = {} /\ rendered[name] = st[name]
      BY DEF Render, Restrict
    <3> QED BY <3>1, ContainedIsEnough DEF StackContained
  <2> DEFINE of(n) == {<<l, n, failure>> : failure \in Failures(n, rendered[n])}
  <2>3. \A n \in DOMAIN rendered : of(n) = {}
    <3> HIDE DEF rendered
    <3> QED BY <2>2
  <2>4. Inspect(l, rendered) = UNION {of(n) : n \in DOMAIN rendered}
    BY <2>1 DEF Inspect
  <2> HIDE DEF of, rendered
  <2>5. UNION {of(n) : n \in DOMAIN rendered} = {}
    BY <2>3
  <2> QED BY <2>4, <2>5 DEF rendered
<1>2. failures = {}
  BY <1>1
<1>3. binds # {}
  BY DEF Inspected
<1>4. \A l \in labels : f.stacks[l] # Unreadable
  BY DEF Inspected
<1>5. CheckHardening(f, labels) = Judge(failures)
  BY <1>3, <1>4 DEF CheckHardening
<1> QED BY <1>2, <1>5, ExitCodes

LEMMA OverlayPasses ==
  ASSUME NEW f, HubLeftOut(f.stacks[Stage1]), Substance("overlay", f, None)
  PROVE  Passes(CheckStage1Overlay(f))
<1> DEFINE st == f.stacks[Stage1]
<1>1. \A m : m \in DOMAIN Render(st) <=> m \in DOMAIN st /\ st[m].profiles = {}
  BY DEF Render, Restrict
<1>2. ExcludedService \notin DOMAIN Render(st) /\ OverlayDeclaresHubProfile(st)
  BY <1>1 DEF HubLeftOut, OverlayDeclaresHubProfile, ExcludedService, ExclusionProfile
<1>3. \A m \in ExpectedMocks : m \in DOMAIN Render(st)
  BY <1>1 DEF HubLeftOut
<1>4. OverlayFindings(st) = {}
  BY <1>2, <1>3 DEF OverlayFindings
<1> QED BY <1>4, ExitCodes DEF CheckStage1Overlay, Substance

LEMMA ArtifactsPass ==
  ASSUME NEW f, TreeIsSource(f), Substance("artifacts", f, None)
  PROVE  Passes(CheckArtifacts(f))
<1> DEFINE files(kind) == {p \in DOMAIN f.tracked : f.tracked[p].kind = kind}
           binaries == {<<"binary", p>> :
                          p \in {q \in files("file") : IsBinary(f.tracked[q].head)}}
           unread == {<<"unreadable", p>> : p \in files("unreadable")}
           exposed == {<<"not ignored", o>> : o \in DefaultBuildOutputs(f) \ f.ignored}
<1>1. binaries = {}
  BY DEF TreeIsSource, IsBinary, IsPythonBytecode
<1>2. unread = {}
  BY DEF Substance
<1>3. ASSUME NEW o \in DefaultBuildOutputs(f) PROVE o \in f.ignored
  <2> DEFINE own(x) == {x \o <<Last(x)>> : y \in {x} \cap f.mains}
             commands(x) == {x \o <<Last(q)>> : q \in {q \in f.mains :
                               Len(q) = Len(x) + 2 /\ IsPrefix(x \o <<"cmd">>, q)}}
  <2>1. DefaultBuildOutputs(f) = UNION {own(x) \cup commands(x) : x \in f.gomods}
    BY DEF DefaultBuildOutputs
  <2>2. PICK m \in f.gomods : o \in own(m) \cup commands(m)
    <3> HIDE DEF own, commands
    <3> QED BY <1>3, <2>1
  <2>3. CASE o \in own(m)
    BY <2>3 DEF TreeIsSource
  <2>4. CASE o \in commands(m)
    BY <2>4 DEF TreeIsSource
  <2> QED BY <2>2, <2>3, <2>4
<1>4. exposed = {}
  BY <1>3
<1>5. CheckArtifacts(f) = Judge(binaries \cup unread \cup exposed)
  BY DEF CheckArtifacts, Substance
<1> HIDE DEF binaries, unread, exposed
<1> QED BY <1>1, <1>2, <1>4, <1>5, ExitCodes

LEMMA SecretsPass ==
  ASSUME NEW f, NothingLiteral(f), Substance("secrets", f, None)
  PROVE  Passes(CheckStageSecrets(f))
<1>1. \A p \in Scanned(f) : SecretFindings(p, f.tracked[p]) = {}
  <2> SUFFICES ASSUME NEW p \in Scanned(f) PROVE SecretFindings(p, f.tracked[p]) = {}
    OBVIOUS
  <2>1. \A h \in HostsOf(f.tracked[p]) : h \in AllowedHosts \/ Reserved(h)
    BY TakenApart DEF NothingLiteral, HostsOf
  <2>2. f.tracked[p].assignments \subseteq Harmless
    BY DEF NothingLiteral
  <2> QED BY <2>1, <2>2 DEF SecretFindings
<1>2. UNION {SecretFindings(p, f.tracked[p]) : p \in Scanned(f)} = {}
  BY <1>1
<1> QED BY <1>2, ExitCodes DEF CheckStageSecrets, Substance

LEMMA ConfigPasses ==
  ASSUME NEW f, AreDocs(f.docs), DocsAgree(f), Substance("config", f, None)
  PROVE  Passes(CheckConfigDocs(f))
<1> DEFINE all == VariableFindings(f) \cup PortFindings(f)
                  \cup ServiceFindings(f) \cup AddressFindings(f)
<1>1. VariableFindings(f) = {}
  BY DEF VariableFindings, DocsAgree
<1>2. PortFindings(f) = {}
  <2>1. ASSUME NEW d \in Followed(f), NEW p \in f.docs[d].ports \ ExternalPorts
        PROVE  p \in PublishedPorts(f)
    <3>1. p \in Nat
      BY DEF AreDocs, Followed
    <3> DEFINE numbers(s, n) == {q.published : q \in f.stacks[s][n].ports}
               of(s) == UNION {numbers(s, n) : n \in DOMAIN f.stacks[s]}
    <3>2. PICK s \in DOMAIN f.stacks :
            \E n \in DOMAIN f.stacks[s] : \E q \in f.stacks[s][n].ports : q.published = p
      BY DEF DocsAgree
    <3>3. PICK n \in DOMAIN f.stacks[s] : p \in numbers(s, n)
      BY <3>2
    <3>4. p \in of(s)
      <4> HIDE DEF numbers
      <4> QED BY <3>3
    <3>5. p \in UNION {of(x) : x \in DOMAIN f.stacks}
      <4> HIDE DEF of
      <4> QED BY <3>4
    <3>6. PublishedPorts(f) = Nat \cap UNION {of(x) : x \in DOMAIN f.stacks}
      BY Zenon DEF PublishedPorts
    <3> HIDE DEF of
    <3> QED BY <3>1, <3>5, <3>6
  <2> QED BY <2>1 DEF PortFindings
<1>3. ServiceFindings(f) = {}
  <2>1. ASSUME NEW d \in Followed(f), NEW n \in f.docs[d].services \ NotAService
        PROVE  n \in StackServices(f)
    BY DEF DocsAgree, StackServices
  <2> QED BY <2>1 DEF ServiceFindings
<1>4. AddressFindings(f) = {}
  <2>1. ASSUME NEW d \in Followed(f)
        PROVE  /\ \A a \in f.docs[d].addresses : ReservedAddress(a)
               /\ \A h \in NamedHosts(f.docs[d]) : ReservedHost(h)
    <3>1. f.docs[d].addresses \subseteq [1 .. 4 -> Nat]
      BY DEF AreDocs, Followed
    <3>2. \A h \in NamedHosts(f.docs[d]) : Len(h) > 1
      BY DEF NamedHosts
    <3>3. /\ \A a \in f.docs[d].addresses : ~PublicAddress(a)
          /\ \A h \in NamedHosts(f.docs[d]) : ~SomebodysHost(h)
      BY DEF DocsAgree
    <3> QED BY <3>1, <3>2, <3>3, AddressJudged, HostJudged
  <2> QED BY <2>1 DEF AddressFindings
<1>5. AddressesSeen(f)
  BY DEF AddressesSeen, Substance
<1>6. StackServices(f) # {}
  BY DEF Substance, PublishedPorts, StackServices
<1>7. CheckConfigDocs(f) = Judge(all)
  BY <1>5, <1>6 DEF CheckConfigDocs, Substance
<1>8. all = {}
  BY <1>1, <1>2, <1>3, <1>4
<1> QED BY <1>7, <1>8, ExitCodes

LEMMA LinksPass ==
  ASSUME NEW f, NEW c, LinksLead(f, c)
  PROVE  Passes(CheckDocLinks(f, BesideRepo(c)))
<1>1. ASSUME NEW d \in DOMAIN f.docs PROVE LinkFindings(f, d, BesideRepo(c)) = {}
  <2>1. \A l \in f.docs[d].links :
          Resolves(l.resolved, f, BesideRepo(c)) \/ SiblingExists(l.target, BesideRepo(c))
    BY DEF LinksLead, Resolves, SiblingExists, Exists
  <2>2. \A s \in f.docs[d].spans :
          Len(Candidate(s)) > 1 /\ Candidate(s)[1] \in OwnedRoots => Candidate(s) \in Known(f)
    BY DEF LinksLead, Known
  <2> QED BY <2>1, <2>2 DEF LinkFindings
<1>2. UNION {LinkFindings(f, d, BesideRepo(c)) : d \in DOMAIN f.docs} = {}
  BY <1>1
<1> QED BY <1>2, ExitCodes DEF CheckDocLinks

LEMMA EndpointsPass ==
  ASSUME NEW f, NEW c \in Cores, AsServed(f, c), Substance("endpoints", f, c)
  PROVE  Passes(CheckDocumentedEndpoints(f, CoreAt(c)))
<1>1. CASE c = None
  BY <1>1, ExitCodes DEF CheckDocumentedEndpoints, CoreAt
<1>2. CASE c # None
  <2> DEFINE served == DocumentedPaths(CoreContent[c])
             of(d) == {<<d, e>> : e \in {x \in Checked(f.docs[d]) :
                                           Candidates(x) \cap served = {}}}
  <2>1. CoreAt(c) = CoreContent[c] /\ CoreAt(c) # None
    BY <1>2, CiAssumption DEF CoreAt, Cores
  <2>2. ASSUME NEW d \in Followed(f), NEW e \in Checked(f.docs[d])
        PROVE  Candidates(e) \cap served # {}
    <3>1. PICK p \in CoreContent[c].served :
            /\ DOMAIN e = DOMAIN p
            /\ \A i \in DOMAIN p : e[i] = p[i] \/ {e[i], p[i]} \subseteq Placeholders
      BY <1>2 DEF AsServed
    <3>2. Normal(e) = Normal(p)
      BY <3>1 DEF Normal
    <3> QED BY <3>2 DEF Candidates, DocumentedPaths
  <2>3. \A d \in Followed(f) : of(d) = {}
    BY <2>2
  <2>4. UNION {of(d) : d \in Followed(f)} = {}
    <3> HIDE DEF of
    <3> QED BY <2>3
  <2>5. CheckDocumentedEndpoints(f, CoreAt(c)) = Judge(UNION {of(d) : d \in Followed(f)})
    BY <1>2, <2>1 DEF CheckDocumentedEndpoints, Substance
  <2> QED BY <2>4, <2>5, ExitCodes
<1> QED BY <1>1, <1>2

LEMMA PromiseIsEnough ==
  ASSUME NEW f, AreRows(f.rows), AreDocs(f.docs), NEW c \in Cores, NEW check \in Checks,
         Substance(check, f, c), Promise(check, f, c), check = "endpoints" => AsServed(f, c)
  PROVE  Passes(Verdict(check, f, c))
<1>1. CASE check = "hardening"
  <2>1. Inspected(f, {Base, E2E}) /\ \A l \in {Base, E2E} : StackContained(f.stacks[l])
    BY <1>1 DEF Substance, Promise
  <2> QED BY <1>1, <2>1, HardeningPasses DEF Verdict
<1>2. CASE check = "stage hardening"
  <2>1. Inspected(f, {Stage}) /\ \A l \in {Stage} : StackContained(f.stacks[l])
    BY <1>2 DEF Substance, Promise
  <2> QED BY <1>2, <2>1, HardeningPasses DEF Verdict
<1>3. CASE check = "stage1 hardening"
  <2>1. Inspected(f, {Stage1}) /\ \A l \in {Stage1} : StackContained(f.stacks[l])
    BY <1>3 DEF Substance, Promise
  <2> QED BY <1>3, <2>1, HardeningPasses DEF Verdict
<1>4. CASE check = "overlay"
  BY <1>4, OverlayPasses DEF Verdict, Substance, Promise
<1>5. CASE check = "secrets"
  BY <1>5, SecretsPass DEF Verdict, Substance, Promise
<1>6. CASE check = "links"
  BY <1>6, LinksPass DEF Verdict, Promise
<1>7. CASE check = "config"
  BY <1>7, ConfigPasses DEF Verdict, Substance, Promise
<1>8. CASE check = "coverage"
  BY <1>8, CoveragePasses DEF Verdict, Substance, Promise
<1>9. CASE check = "artifacts"
  BY <1>9, ArtifactsPass DEF Verdict, Substance, Promise
<1>10. CASE check = "groups"
  BY <1>10, GroupsPass DEF Verdict, Promise
<1>11. CASE check = "scopes"
  BY <1>11, ScopesPass DEF Verdict, Substance, Promise
<1>12. CASE check = "prefixes"
  BY <1>12, PrefixesPass DEF Verdict, Promise
<1>13. CASE check = "endpoints"
  BY <1>13, EndpointsPass DEF Verdict
<1> QED BY <1>1, <1>2, <1>3, <1>4, <1>5, <1>6, <1>7, <1>8, <1>9, <1>10, <1>11, <1>12, <1>13
        DEF Checks

(***************************************************************************)
(* The job.                                                                *)
(***************************************************************************)
\* Which step comes when.
LEMMA StepsLong ==
  /\ Len(Steps["compose"]) = 4 /\ Len(Steps["stage_assets"]) = 7
  /\ Len(Steps["e2e"]) = 9 /\ Len(Steps["local"]) = 4
  /\ DOMAIN Steps = {"compose", "stage_assets", "e2e", "local"}
BY DEF Steps

LEMMA StepsExist ==
  ASSUME NEW j \in DOMAIN Steps
  PROVE  Len(Steps[j]) \in Nat /\ Len(Steps[j]) > 0
<1>1. j \in {"compose", "stage_assets", "e2e", "local"}
  BY StepsLong
<1> QED BY <1>1, StepsLong

LEMMA StepAt ==
  ASSUME NEW j \in DOMAIN Steps, NEW p \in 1 .. Len(Steps[j])
  PROVE  /\ Steps[j][p] = "resolve" => j = "e2e" /\ p = 1
         /\ Steps[j][p] = "checkout" => j = "e2e" /\ p = 2
         /\ Steps[j][p] = "record" => j = "e2e" /\ p = 3
         /\ Steps[j][p] = "publish" => j = "e2e" /\ p = 4
         /\ Steps[j][p] = "start" => j = "e2e" /\ p = 8
         /\ Steps[j][p] = "scenarios" => j = "e2e" /\ p = 9
         /\ Steps[j][p] \in Checks /\ j = "e2e" => p \in 5 .. 7
<1>1. CASE j = "compose"
  <2>1. Steps[j][p] \in {"hardening", "stage hardening", "stage1 hardening", "overlay"}
    <3>1. p \in 1 .. 4 /\ Steps[j] = Steps["compose"]
      BY <1>1, StepsLong
    <3>2. /\ Steps["compose"][1] = "hardening" /\ Steps["compose"][2] = "stage hardening"
          /\ Steps["compose"][3] = "stage1 hardening" /\ Steps["compose"][4] = "overlay"
      BY DEF Steps
    <3>3. p = 1 \/ p = 2 \/ p = 3 \/ p = 4
      BY <3>1
    <3> QED BY <3>1, <3>2, <3>3
  <2> QED BY <1>1, <2>1
<1>2. CASE j = "stage_assets"
  <2>1. Steps[j][p] \in {"secrets", "links", "config", "coverage", "artifacts", "groups",
                         "scopes"}
    <3>1. p \in 1 .. 7 /\ Steps[j] = Steps["stage_assets"]
      BY <1>2, StepsLong
    <3>2. /\ Steps["stage_assets"][1] = "secrets" /\ Steps["stage_assets"][2] = "links"
          /\ Steps["stage_assets"][3] = "config" /\ Steps["stage_assets"][4] = "coverage"
          /\ Steps["stage_assets"][5] = "artifacts" /\ Steps["stage_assets"][6] = "groups"
          /\ Steps["stage_assets"][7] = "scopes"
      BY DEF Steps
    <3> QED BY <3>1, <3>2
  <2> QED BY <1>2, <2>1
<1>3. CASE j = "e2e"
  <2>1. p \in 1 .. 9
    BY <1>3, StepsLong
  <2>2. /\ Steps[j][1] = "resolve" /\ Steps[j][2] = "checkout" /\ Steps[j][3] = "record"
        /\ Steps[j][4] = "publish" /\ Steps[j][5] = "prefixes"
        /\ Steps[j][6] = "endpoints" /\ Steps[j][7] = "groups"
        /\ Steps[j][8] = "start" /\ Steps[j][9] = "scenarios"
    BY <1>3 DEF Steps
  <2>3. p = 1 \/ p = 2 \/ p = 3 \/ p = 4 \/ p = 5 \/ p = 6 \/ p = 7 \/ p = 8 \/ p = 9
    BY <2>1
  <2>4. \A x \in {1, 2, 3, 4, 8, 9} : Steps[j][x] \notin Checks
    BY <2>2 DEF Checks
  <2> QED BY <1>3, <2>2, <2>3, <2>4
<1>4. CASE j = "local"
  <2>1. Steps[j][p] \in {"prefixes", "endpoints", "groups", "links"}
    BY <1>4 DEF Steps
  <2> QED BY <1>4, <2>1
<1> QED BY <1>1, <1>2, <1>3, <1>4, StepsLong

\* A check that ran said what it says of this commit and of the Core it saw,
\* and a job that goes on has passed it.
Honest ==
  /\ job = None => DOMAIN ran = {}
  /\ \A check \in DOMAIN ran :
       /\ ran[check].verdict = Verdict(check, repo, ran[check].core)
       /\ outcome # "failed" => Passes(ran[check].verdict)

\* What the steps of the e2e job have done so far; no other job does any.
Paired ==
  /\ job # None => Held(remote) \subseteq named
  /\ outcome = "passed" => pc = Len(Steps[job]) + 1
  /\ job # "e2e" => inside = None /\ manifest = None /\ stack = None /\ tested = None
                    /\ asked = None
  /\ job = "e2e" =>
       /\ pc > 1 => /\ asked # None => ref = asked /\ reason = "requested explicitly"
                    /\ reason = "fell back to main" => ref = Main
       /\ pc > 2 => /\ inside # None
                    /\ NamedSo(ref, inside, named)
       /\ pc <= 3 => manifest = None
       /\ pc > 3 => manifest = [ref |-> ref, resolution |-> reason, core |-> inside]
       /\ pc > 8 /\ outcome = "running" => stack = inside
       /\ pc <= 9 => tested = None
       /\ pc > 9 => tested = inside

IndInv == TypeOK /\ Honest /\ Paired

LEMMA Start0 == Init => IndInv
<1> SUFFICES ASSUME Init PROVE IndInv
  OBVIOUS
<1> USE DEF Init
<1>1. TypeOK
  BY CiAssumption DEF TypeOK, Cores, Trunk
<1>2. Honest
  BY DEF Honest
<1>3. Paired
  BY CiAssumption DEF Paired
<1> QED BY <1>1, <1>2, <1>3 DEF IndInv

LEMMA EditKeeps == IndInv /\ Edit => IndInv'
<1> SUFFICES ASSUME IndInv, Edit PROVE IndInv'
  OBVIOUS
<1> USE DEF core, e2e
<1>1. TypeOK'
  <2>1. /\ DOMAIN edited' \subseteq DOMAIN Values
        /\ \A field \in DOMAIN edited' : edited'[field] \in Values[field]
    BY DEF IndInv, TypeOK, Edit, With
  <2> QED BY <2>1 DEF IndInv, TypeOK, Edit, Cores
<1>2. Honest'
  BY DEF IndInv, Honest, Edit
<1>3. Paired'
  BY DEF IndInv, Paired, Edit, Held
<1> QED BY <1>1, <1>2, <1>3 DEF IndInv

LEMMA PushKeeps == IndInv /\ Push => IndInv'
<1> SUFFICES ASSUME IndInv, Push PROVE IndInv'
  OBVIOUS
<1> USE DEF core, e2e
<1>1. PICK j \in DOMAIN Steps, a \in Asked, b \in Cores :
        /\ j # "e2e" => a = None
        /\ job' = j /\ asked' = a /\ beside' = b
        /\ IF j = "e2e" THEN remote' \in {r \in [Refs -> Cores] : r[Trunk] # None}
           ELSE UNCHANGED remote
  BY DEF Push
<1>2. job = None /\ pc = 1 /\ outcome = "running"
  BY DEF IndInv, TypeOK, Push
<1>3. remote' \in [Refs -> Cores]
  BY <1>1 DEF IndInv, TypeOK
<1>4. TypeOK'
  <2>1. Len(Steps[job']) \in Nat /\ Len(Steps[job']) > 0 /\ job' # None
    <3>1. j # None /\ Len(Steps[j]) \in Nat /\ Len(Steps[j]) > 0
      BY StepsExist, CiAssumption
    <3> QED BY <1>1, <3>1
  <2>2. named' \subseteq Refs \X Cores
    BY <1>3 DEF Push, Held
  <2>3. pc' \in 1 .. IF job' = None THEN 1
                     ELSE IF outcome' = "passed" THEN Len(Steps[job']) + 1
                     ELSE Len(Steps[job'])
    BY <1>2, <2>1 DEF Push
  <2>4. job' \in DOMAIN Steps /\ asked' \in Asked /\ beside' \in Cores /\ outcome' = "running"
    BY <1>1, <1>2 DEF Push
  <2>5. UNCHANGED <<edited, moves, ran, inside, stack, tested>>
    BY DEF Push
  <2> QED BY <1>3, <2>1, <2>2, <2>3, <2>4, <2>5 DEF IndInv, TypeOK, Cores
<1>5. Honest'
  <2>1. DOMAIN ran' = {} /\ job' # None
    BY <1>1, <1>2, CiAssumption DEF IndInv, Honest, Push
  <2> QED BY <2>1 DEF Honest
<1>6. Paired'
  <2>1. job # "e2e"
    <3>1. "e2e" \in DOMAIN Steps
      BY StepsLong
    <3> QED BY <3>1, <1>2, CiAssumption
  <2>2. inside = None /\ manifest = None /\ stack = None /\ tested = None
    BY <2>1 DEF IndInv, Paired
  <2>3. /\ inside' = None /\ manifest' = None /\ stack' = None /\ tested' = None
        /\ pc' = 1 /\ outcome' = "running" /\ named' = Held(remote')
        /\ job' # "e2e" => asked' = None
    BY <1>1, <1>2, <2>2 DEF Push
  <2>4. Held(remote)' = Held(remote')
    BY DEF Held
  <2> QED BY <2>3, <2>4 DEF Paired
<1> QED BY <1>4, <1>5, <1>6 DEF IndInv

\* A step of the job changes the job's own variables only, and these facts
\* are all that the invariant needs to know of it.
LEMMA StepKeepsType ==
  ASSUME TypeOK, job # None, UNCHANGED <<commit, core>>,
         (outcome = "running" /\ (Advance \/ Fail)) \/ UNCHANGED <<pc, outcome>>,
         DOMAIN ran' \subseteq Checks, \A check \in DOMAIN ran' : ran'[check].core \in Cores,
         inside' \in Cores, stack' \in Cores, tested' \in Cores
  PROVE  TypeOK'
<1>1. job \in DOMAIN Steps /\ Len(Steps[job]) \in Nat /\ Len(Steps[job]) > 0
  BY StepsExist DEF TypeOK
<1>2. /\ outcome' \in {"running", "passed", "failed"}
      /\ pc' \in 1 .. IF outcome' = "passed" THEN Len(Steps[job]) + 1 ELSE Len(Steps[job])
  <2>1. pc \in 1 .. IF outcome = "passed" THEN Len(Steps[job]) + 1 ELSE Len(Steps[job])
    BY DEF TypeOK
  <2>2. CASE outcome = "running" /\ Advance
    BY <1>1, <2>1, <2>2 DEF Advance
  <2>3. CASE outcome = "running" /\ Fail
    BY <1>1, <2>1, <2>3 DEF Fail
  <2>4. CASE UNCHANGED <<pc, outcome>>
    BY <2>1, <2>4 DEF TypeOK
  <2> QED BY <2>2, <2>3, <2>4
<1>3. UNCHANGED <<edited, job, asked, remote, moves, named, beside>>
  BY DEF commit, core
<1> QED BY <1>1, <1>2, <1>3 DEF TypeOK, Cores

LEMMA HonestStays ==
  ASSUME Honest, UNCHANGED <<edited, job, ran>>, outcome' # "failed" => outcome # "failed"
  PROVE  Honest'
<1>1. repo' = repo
  BY DEF repo
<1> QED BY <1>1 DEF Honest

\* Where a running e2e job is, and what follows from Paired there.
LEMMA AtStep ==
  ASSUME TypeOK, NEW step, At(step)
  PROVE  /\ job \in DOMAIN Steps /\ job # None /\ outcome = "running"
         /\ pc \in 1 .. Len(Steps[job]) /\ Len(Steps[job]) \in Nat
         /\ step = "resolve" => job = "e2e" /\ pc = 1
         /\ step = "checkout" => job = "e2e" /\ pc = 2
         /\ step = "record" => job = "e2e" /\ pc = 3
         /\ step = "publish" => job = "e2e" /\ pc = 4
         /\ step = "start" => job = "e2e" /\ pc = 8
         /\ step = "scenarios" => job = "e2e" /\ pc = 9
         /\ step \in Checks /\ job = "e2e" => pc \in 5 .. 7
<1>1. /\ job \in DOMAIN Steps /\ job # None /\ outcome = "running"
      /\ pc \in 1 .. Len(Steps[job]) /\ Steps[job][pc] = step
  BY DEF TypeOK, At
<1> QED BY <1>1, StepAt, StepsExist

LEMMA RunCheckKeeps == IndInv /\ RunCheck => IndInv'
<1> SUFFICES ASSUME IndInv, RunCheck PROVE IndInv'
  OBVIOUS
<1> DEFINE verdict(check) == Verdict(check, repo, beside)
<1>1. PICK check \in Checks :
        /\ At(check)
        /\ ran' = With(ran, check, [verdict |-> verdict(check), core |-> beside])
        /\ IF Passes(verdict(check)) THEN Advance ELSE Fail
        /\ UNCHANGED <<commit, core, e2e>>
  BY DEF RunCheck
<1>2. /\ job # None /\ outcome = "running" /\ pc \in 1 .. Len(Steps[job])
      /\ job = "e2e" => pc \in 5 .. 7
  BY <1>1, AtStep DEF IndInv
<1>3. /\ DOMAIN ran' = DOMAIN ran \cup {check}
      /\ ran'[check] = [verdict |-> verdict(check), core |-> beside]
      /\ \A x \in DOMAIN ran \ {check} : ran'[x] = ran[x]
  BY <1>1 DEF With
<1>4. TypeOK'
  <2>1. DOMAIN ran' \subseteq Checks /\ \A x \in DOMAIN ran' : ran'[x].core \in Cores
    BY <1>3 DEF IndInv, TypeOK
  <2>2. inside' \in Cores /\ stack' \in Cores /\ tested' \in Cores
    BY <1>1 DEF IndInv, TypeOK, e2e
  <2>3. outcome = "running" /\ (Advance \/ Fail)
    BY <1>1, <1>2
  <2> HIDE DEF verdict
  <2> QED BY <1>1, <1>2, <2>1, <2>2, <2>3, StepKeepsType DEF IndInv
<1>5. Honest'
  <2>1. repo' = repo /\ job' = job
    BY <1>1 DEF repo, commit
  <2>2. ASSUME NEW x \in DOMAIN ran'
        PROVE  /\ ran'[x].verdict = Verdict(x, repo, ran'[x].core)
               /\ outcome' # "failed" => Passes(ran'[x].verdict)
    <3>1. CASE x = check
      <4>1. ran'[x].verdict = verdict(check) /\ ran'[x].core = beside
        BY <1>3, <3>1
      <4>2. outcome' # "failed" => Passes(verdict(check))
        BY <1>1 DEF Fail
      <4> QED BY <3>1, <4>1, <4>2
    <3>2. CASE x # check
      BY <1>2, <1>3, <2>2, <3>2 DEF IndInv, Honest
    <3> QED BY <3>1, <3>2
  <2> QED BY <1>2, <2>1, <2>2 DEF Honest
<1>6. Paired'
  <2>1. UNCHANGED <<commit, core, e2e>>
    BY <1>1
  <2> HIDE DEF verdict
  <2>0. Advance \/ Fail
    BY <1>1
  <2>2. job = "e2e" => /\ pc' \in {pc, pc + 1} /\ outcome' # "passed"
    <3>1. ASSUME job = "e2e" PROVE pc # Len(Steps[job]) /\ pc \in Nat
      <4>1. pc \in 5 .. 7
        BY <1>2, <3>1
      <4>2. Len(Steps[job]) = 9
        BY <3>1, StepsLong
      <4> QED BY <4>1, <4>2
    <3> QED BY <2>0, <3>1 DEF Advance, Fail
  <2>3. outcome' = "passed" => pc' = Len(Steps[job]) + 1
    BY <1>2, <2>0 DEF Advance, Fail
  <2>4. Held(remote)' = Held(remote)
    BY <2>1 DEF Held, core
  <2>5. CASE job # "e2e"
    BY <2>1, <2>3, <2>4, <2>5 DEF IndInv, Paired, commit, core, e2e
  <2>6. CASE job = "e2e"
    <3>1. pc \in 5 .. 7 /\ pc' \in 5 .. 8
      BY <1>2, <2>2, <2>6
    <3>2. UNCHANGED <<job, asked, ref, reason, inside, manifest, stack, tested, named>>
      BY <2>1 DEF commit, core, e2e
    <3>3. /\ Held(remote) \subseteq named
          /\ asked # None => ref = asked /\ reason = "requested explicitly"
          /\ reason = "fell back to main" => ref = Main
          /\ inside # None
          /\ NamedSo(ref, inside, named)
          /\ manifest = [ref |-> ref, resolution |-> reason, core |-> inside]
          /\ tested = None
      <4>1. pc > 1 /\ pc > 2 /\ pc > 3 /\ pc <= 9
        BY <3>1
      <4>2. job # None
        BY <1>2
      <4> HIDE <1>2
      <4> QED BY <4>1, <4>2, <2>6, Zenon DEF IndInv, Paired
    <3>4. /\ pc' > 1 /\ pc' > 2 /\ ~(pc' <= 3) /\ pc' > 3 /\ ~(pc' > 8)
          /\ pc' <= 9 /\ ~(pc' > 9)
      BY <3>1
    <3>5. outcome' # "passed" /\ job' = "e2e"
      BY <2>2, <2>6, <3>2
    <3>6. NamedSo(ref, inside, named)'
      BY <3>2, <3>3 DEF NamedSo
    <3> QED BY <2>4, <3>2, <3>3, <3>4, <3>5, <3>6, Zenon DEF Paired
  <2> QED BY <2>5, <2>6
<1> QED BY <1>4, <1>5, <1>6 DEF IndInv

\* A step of the e2e job but the last.
LEMMA NotTheLast ==
  ASSUME job = "e2e", pc \in 1 .. 8, Advance \/ Fail
  PROVE  pc' \in {pc, pc + 1} /\ outcome' # "passed"
<1>1. Len(Steps[job]) = 9
  BY StepsLong
<1> QED BY <1>1 DEF Advance, Fail

LEMMA ResolveKeeps == IndInv /\ Resolve => IndInv'
<1> SUFFICES ASSUME IndInv, Resolve PROVE IndInv'
  OBVIOUS
<1>1. /\ job = "e2e" /\ pc = 1 /\ outcome = "running" /\ job # None
      /\ Advance \/ Fail
      /\ UNCHANGED <<commit, ran, core, inside, manifest, stack, tested>>
  BY AtStep DEF IndInv, Resolve
<1>2. UNCHANGED <<edited, job, asked, ran, remote, named, inside, manifest, stack, tested>>
  BY <1>1 DEF commit, core
<1>3. TypeOK'
  <2>1. DOMAIN ran' \subseteq Checks /\ \A x \in DOMAIN ran' : ran'[x].core \in Cores
    BY <1>2 DEF IndInv, TypeOK
  <2>2. inside' \in Cores /\ stack' \in Cores /\ tested' \in Cores
    BY <1>2 DEF IndInv, TypeOK
  <2> QED BY <1>1, <2>1, <2>2, StepKeepsType DEF IndInv
<1>4. Honest'
  BY <1>1, <1>2, HonestStays DEF IndInv
<1>5. Paired'
  <2>1. pc' \in {1, 2} /\ outcome' # "passed"
    BY <1>1, NotTheLast
  <2>2. pc' > 1 => /\ asked # None => ref' = asked /\ reason' = "requested explicitly"
                   /\ reason' = "fell back to main" => ref' = Main
    <3>1. \/ Fail
          \/ asked # None /\ ref' = asked /\ reason' = "requested explicitly"
          \/ asked = None /\ ref' = Branch /\ reason' = "matching branch"
          \/ asked = None /\ ref' = Main /\ reason' = "fell back to main"
      BY Zenon DEF Resolve
    <3>2. Fail => ~(pc' > 1)
      BY <1>1 DEF Fail
    <3> QED BY <3>1, <3>2
  <2>3. Held(remote)' = Held(remote) /\ Held(remote) \subseteq named
    BY <1>1, <1>2 DEF Held, IndInv, Paired
  <2>4. manifest = None /\ tested = None
    BY <1>1 DEF IndInv, Paired
  <2>5. ~(pc' > 2) /\ ~(pc' > 3) /\ ~(pc' > 8) /\ ~(pc' > 9)
    BY <2>1
  <2>6. job' = "e2e" /\ outcome' # "passed"
    BY <1>1, <1>2, <2>1
  <2> QED BY <1>2, <2>2, <2>3, <2>4, <2>5, <2>6 DEF Paired
<1> QED BY <1>3, <1>4, <1>5 DEF IndInv

\* The commit that is checked out is one the refs had.
LEMMA NamedIsHeld ==
  ASSUME remote \in [Refs -> Cores], NEW short, Named(remote, short) # None
  PROVE  /\ Named(remote, short) \in Cores
         /\ NamedSo(short, Named(remote, short), Held(remote))
<1> DEFINE full == {n \in {<<"heads">> \o short, <<"tags">> \o short} \cap Refs :
                      remote[n] # None}
<1>1. Named(remote, short) =
        IF <<"heads">> \o short \in full THEN remote[<<"heads">> \o short]
        ELSE IF full # {} THEN remote[<<"tags">> \o short] ELSE None
  BY DEF Named
<1>2. CASE <<"heads">> \o short \in full
  <2>1. <<"heads">> \o short \in Refs /\ Named(remote, short) = remote[<<"heads">> \o short]
    BY <1>1, <1>2
  <2> HIDE DEF full
  <2> QED BY <2>1 DEF NamedSo, Held
<1>3. CASE <<"heads">> \o short \notin full
  <2>1. full # {} /\ Named(remote, short) = remote[<<"tags">> \o short]
    BY <1>1, <1>3
  <2>2. <<"tags">> \o short \in Refs
    BY <1>3, <2>1
  <2> HIDE DEF full
  <2> QED BY <2>1, <2>2 DEF NamedSo, Held
<1> QED BY <1>2, <1>3

LEMMA CheckoutKeeps == IndInv /\ Checkout => IndInv'
<1> SUFFICES ASSUME IndInv, Checkout PROVE IndInv'
  OBVIOUS
<1>1. /\ job = "e2e" /\ pc = 2 /\ outcome = "running" /\ job # None
      /\ inside' = Named(remote, ref)
      /\ IF inside' = None THEN Fail ELSE Advance
      /\ UNCHANGED <<commit, ran, core, ref, reason, manifest, stack, tested>>
  BY AtStep DEF IndInv, Checkout
<1>2. UNCHANGED <<edited, job, asked, ran, remote, named, ref, reason, manifest, stack, tested>>
  BY <1>1 DEF commit, core
<1>3. remote \in [Refs -> Cores] /\ None \in Cores
  BY DEF IndInv, TypeOK, Cores
<1>4. inside' \in Cores /\ (inside' # None => NamedSo(ref, inside', Held(remote)))
  BY <1>1, <1>3, NamedIsHeld
<1>5. TypeOK'
  <2>1. DOMAIN ran' \subseteq Checks /\ \A x \in DOMAIN ran' : ran'[x].core \in Cores
    BY <1>2 DEF IndInv, TypeOK
  <2>2. stack' \in Cores /\ tested' \in Cores
    BY <1>2 DEF IndInv, TypeOK
  <2> QED BY <1>1, <1>4, <2>1, <2>2, StepKeepsType DEF IndInv
<1>6. Honest'
  BY <1>1, <1>2, HonestStays DEF IndInv
<1>7. Paired'
  <2>1. pc' \in {2, 3} /\ outcome' # "passed"
    BY <1>1, NotTheLast
  <2>2. pc' > 2 => inside' # None
    BY <1>1 DEF Fail
  <2>3. Held(remote)' = Held(remote) /\ Held(remote) \subseteq named
    BY <1>1, <1>2 DEF Held, IndInv, Paired
  <2>4. pc' > 2 => NamedSo(ref, inside', named)
    BY <1>4, <2>2, <2>3 DEF NamedSo
  <2>5. /\ manifest = None /\ tested = None
        /\ asked # None => ref = asked /\ reason = "requested explicitly"
        /\ reason = "fell back to main" => ref = Main
    <3>1. pc > 1 /\ pc <= 3 /\ pc <= 9
      BY <1>1
    <3>2. job = "e2e"
      BY <1>1
    <3> QED BY <3>1, <3>2, Zenon DEF IndInv, Paired
  <2>6. ~(pc' > 3) /\ ~(pc' > 8) /\ ~(pc' > 9)
    BY <2>1
  <2>7. job' = "e2e" /\ outcome' # "passed"
    BY <1>1, <1>2, <2>1
  <2>8. NamedSo(ref, inside, named)' = NamedSo(ref, inside', named)
    BY <1>2 DEF NamedSo
  <2> QED BY <1>2, <2>2, <2>3, <2>4, <2>5, <2>6, <2>7, <2>8 DEF Paired
<1> QED BY <1>5, <1>6, <1>7 DEF IndInv

LEMMA RecordKeeps == IndInv /\ Record => IndInv'
<1> SUFFICES ASSUME IndInv, Record PROVE IndInv'
  OBVIOUS
<1>1. /\ job = "e2e" /\ pc = 3 /\ outcome = "running" /\ job # None
      /\ UNCHANGED <<commit, ran, core, ref, reason, inside, stack, tested>>
  BY AtStep DEF IndInv, Record
<1>2. UNCHANGED <<edited, job, asked, ran, remote, named, ref, reason, inside, stack, tested>>
  BY <1>1 DEF commit, core
<1>3. /\ inside # None /\ NamedSo(ref, inside, named) /\ tested = None
      /\ asked # None => ref = asked /\ reason = "requested explicitly"
      /\ reason = "fell back to main" => ref = Main
      /\ Held(remote) \subseteq named
  <2>1. pc > 1 /\ pc > 2 /\ pc <= 9
    BY <1>1
  <2>2. job = "e2e" /\ job # None
    BY <1>1
  <2> QED BY <2>1, <2>2, Zenon DEF IndInv, Paired
<1>4. Advance /\ manifest' = [ref |-> ref, resolution |-> reason, core |-> inside]
  BY <1>3 DEF Record
<1>5. TypeOK'
  <2>1. DOMAIN ran' \subseteq Checks /\ \A x \in DOMAIN ran' : ran'[x].core \in Cores
    BY <1>2 DEF IndInv, TypeOK
  <2>2. inside' \in Cores /\ stack' \in Cores /\ tested' \in Cores
    BY <1>2 DEF IndInv, TypeOK
  <2> QED BY <1>1, <1>4, <2>1, <2>2, StepKeepsType DEF IndInv
<1>6. Honest'
  BY <1>1, <1>2, HonestStays DEF IndInv
<1>7. Paired'
  <2>1. pc' = 4 /\ outcome' # "passed"
    BY <1>1, <1>4, NotTheLast DEF Advance
  <2>2. Held(remote)' = Held(remote) /\ NamedSo(ref, inside, named)' = NamedSo(ref, inside, named)
    BY <1>2 DEF Held, NamedSo
  <2>3. ~(pc' <= 3) /\ ~(pc' > 8) /\ ~(pc' > 9)
    BY <2>1
  <2>4. job' = "e2e" /\ outcome' # "passed"
    BY <1>1, <1>2, <2>1
  <2> QED BY <1>2, <1>3, <1>4, <2>2, <2>3, <2>4 DEF Paired
<1> QED BY <1>5, <1>6, <1>7 DEF IndInv

\* What Paired says of an e2e job once the pair is recorded.
LEMMA Recorded ==
  ASSUME IndInv, job = "e2e", pc \in 4 .. 9
  PROVE  /\ Held(remote) \subseteq named
         /\ asked # None => ref = asked /\ reason = "requested explicitly"
         /\ reason = "fell back to main" => ref = Main
         /\ inside # None
         /\ NamedSo(ref, inside, named)
         /\ manifest = [ref |-> ref, resolution |-> reason, core |-> inside]
         /\ tested = None
<1>1. pc > 1 /\ pc > 2 /\ pc > 3 /\ pc <= 9
  OBVIOUS
<1>2. "e2e" \in DOMAIN Steps
  BY StepsLong
<1>3. job # None
  BY <1>2, CiAssumption
<1> QED BY <1>1, <1>3, Zenon DEF IndInv, Paired

LEMMA PublishKeeps == IndInv /\ Publish => IndInv'
<1> SUFFICES ASSUME IndInv, Publish PROVE IndInv'
  OBVIOUS
<1>1. /\ job = "e2e" /\ pc = 4 /\ outcome = "running" /\ job # None
      /\ Advance
      /\ UNCHANGED <<commit, ran, core, e2e>>
  BY AtStep DEF IndInv, Publish
<1>2. UNCHANGED <<edited, job, asked, ran, remote, named, ref, reason, inside, manifest,
                  stack, tested>>
  BY <1>1 DEF commit, core, e2e
<1>3. TypeOK'
  <2>1. DOMAIN ran' \subseteq Checks /\ \A x \in DOMAIN ran' : ran'[x].core \in Cores
    BY <1>2 DEF IndInv, TypeOK
  <2>2. inside' \in Cores /\ stack' \in Cores /\ tested' \in Cores
    BY <1>2 DEF IndInv, TypeOK
  <2> QED BY <1>1, <2>1, <2>2, StepKeepsType DEF IndInv
<1>4. Honest'
  BY <1>1, <1>2, HonestStays DEF IndInv
<1>5. Paired'
  <2>1. pc' = 5 /\ outcome' # "passed" /\ job' = "e2e"
    BY <1>1, <1>2, NotTheLast DEF Advance
  <2>2. Held(remote)' = Held(remote) /\ NamedSo(ref, inside, named)' = NamedSo(ref, inside, named)
    BY <1>2 DEF Held, NamedSo
  <2>3. ~(pc' <= 3) /\ ~(pc' > 8) /\ ~(pc' > 9)
    BY <2>1
  <2>4. /\ Held(remote) \subseteq named
        /\ asked # None => ref = asked /\ reason = "requested explicitly"
        /\ reason = "fell back to main" => ref = Main
        /\ inside # None
        /\ NamedSo(ref, inside, named)
        /\ manifest = [ref |-> ref, resolution |-> reason, core |-> inside]
        /\ tested = None
    <3>1. pc \in 4 .. 9
      BY <1>1
    <3> QED BY <1>1, <3>1, Recorded
  <2> QED BY <1>1, <1>2, <2>1, <2>2, <2>3, <2>4 DEF Paired
<1> QED BY <1>3, <1>4, <1>5 DEF IndInv

LEMMA StartKeeps == IndInv /\ Start => IndInv'
<1> SUFFICES ASSUME IndInv, Start PROVE IndInv'
  OBVIOUS
<1>1. /\ job = "e2e" /\ pc = 8 /\ outcome = "running" /\ job # None
      /\ Advance /\ stack' = inside
      /\ UNCHANGED <<commit, ran, core, ref, reason, inside, manifest, tested>>
  BY AtStep DEF IndInv, Start
<1>2. UNCHANGED <<edited, job, asked, ran, remote, named, ref, reason, inside, manifest, tested>>
  BY <1>1 DEF commit, core
<1>3. TypeOK'
  <2>1. DOMAIN ran' \subseteq Checks /\ \A x \in DOMAIN ran' : ran'[x].core \in Cores
    BY <1>2 DEF IndInv, TypeOK
  <2>2. inside' \in Cores /\ stack' \in Cores /\ tested' \in Cores
    BY <1>1, <1>2 DEF IndInv, TypeOK
  <2> QED BY <1>1, <2>1, <2>2, StepKeepsType DEF IndInv
<1>4. Honest'
  BY <1>1, <1>2, HonestStays DEF IndInv
<1>5. Paired'
  <2>1. pc' = 9 /\ outcome' # "passed" /\ job' = "e2e"
    BY <1>1, <1>2, NotTheLast DEF Advance
  <2>2. Held(remote)' = Held(remote) /\ NamedSo(ref, inside, named)' = NamedSo(ref, inside, named)
    BY <1>2 DEF Held, NamedSo
  <2>3. ~(pc' <= 3) /\ pc' <= 9 /\ ~(pc' > 9)
    BY <2>1
  <2>4. /\ Held(remote) \subseteq named
        /\ asked # None => ref = asked /\ reason = "requested explicitly"
        /\ reason = "fell back to main" => ref = Main
        /\ inside # None
        /\ NamedSo(ref, inside, named)
        /\ manifest = [ref |-> ref, resolution |-> reason, core |-> inside]
        /\ tested = None
    <3>1. pc \in 4 .. 9
      BY <1>1
    <3> QED BY <1>1, <3>1, Recorded
  <2> QED BY <1>1, <1>2, <2>1, <2>2, <2>3, <2>4 DEF Paired
<1> QED BY <1>3, <1>4, <1>5 DEF IndInv

LEMMA RunScenariosKeeps == IndInv /\ RunScenarios => IndInv'
<1> SUFFICES ASSUME IndInv, RunScenarios PROVE IndInv'
  OBVIOUS
<1>1. /\ job = "e2e" /\ pc = 9 /\ outcome = "running" /\ job # None
      /\ Advance /\ tested' = stack
      /\ UNCHANGED <<commit, ran, core, ref, reason, inside, manifest, stack>>
  BY AtStep DEF IndInv, RunScenarios
<1>2. UNCHANGED <<edited, job, asked, ran, remote, named, ref, reason, inside, manifest, stack>>
  BY <1>1 DEF commit, core
<1>3. TypeOK'
  <2>1. DOMAIN ran' \subseteq Checks /\ \A x \in DOMAIN ran' : ran'[x].core \in Cores
    BY <1>2 DEF IndInv, TypeOK
  <2>2. inside' \in Cores /\ stack' \in Cores /\ tested' \in Cores
    BY <1>1, <1>2 DEF IndInv, TypeOK
  <2> QED BY <1>1, <2>1, <2>2, StepKeepsType DEF IndInv
<1>4. Honest'
  BY <1>1, <1>2, HonestStays DEF IndInv
<1>5. Paired'
  <2>1. Len(Steps["e2e"]) = 9
    BY StepsLong
  <2>2. /\ pc' = 10 /\ outcome' = "passed" /\ job' = "e2e"
        /\ pc' = Len(Steps[job']) + 1
    BY <1>1, <1>2, <2>1 DEF Advance
  <2>3. Held(remote)' = Held(remote) /\ NamedSo(ref, inside, named)' = NamedSo(ref, inside, named)
    BY <1>2 DEF Held, NamedSo
  <2>4. stack = inside
    <3>1. pc > 8
      BY <1>1
    <3> QED BY <1>1, <3>1, Zenon DEF IndInv, Paired
  <2>5. /\ Held(remote) \subseteq named
        /\ asked # None => ref = asked /\ reason = "requested explicitly"
        /\ reason = "fell back to main" => ref = Main
        /\ inside # None
        /\ NamedSo(ref, inside, named)
        /\ manifest = [ref |-> ref, resolution |-> reason, core |-> inside]
        /\ tested = None
    <3>1. pc \in 4 .. 9
      BY <1>1
    <3> QED BY <1>1, <3>1, Recorded
  <2>6. /\ ~(pc' <= 3) /\ ~(pc' <= 9) /\ outcome' # "running"
        /\ tested' = inside' /\ inside' # None /\ NamedSo(ref, inside, named)'
        /\ manifest' = [ref |-> ref', resolution |-> reason', core |-> inside']
    <3>1. ~(pc' <= 3) /\ ~(pc' <= 9) /\ outcome' # "running"
      BY <2>2
    <3>2. tested' = inside' /\ inside' # None
      BY <1>1, <1>2, <2>4, <2>5
    <3>3. NamedSo(ref, inside, named)'
      BY <2>3, <2>5
    <3>4. manifest' = [ref |-> ref', resolution |-> reason', core |-> inside']
      BY <1>2, <2>5
    <3> QED BY <3>1, <3>2, <3>3, <3>4
  <2> QED BY <1>1, <1>2, <2>2, <2>3, <2>4, <2>6, <2>5 DEF Paired
<1> QED BY <1>3, <1>4, <1>5 DEF IndInv

LEMMA BreakKeeps == IndInv /\ Break => IndInv'
<1> SUFFICES ASSUME IndInv, Break PROVE IndInv'
  OBVIOUS
<1>1. /\ job = "e2e" /\ outcome = "running" /\ job # None
      /\ Fail /\ stack' \in {stack, inside}
      /\ UNCHANGED <<commit, ran, core, ref, reason, inside, manifest, tested>>
  BY AtStep DEF IndInv, Break
<1>2. UNCHANGED <<edited, job, asked, ran, remote, named, ref, reason, inside, manifest, tested>>
  BY <1>1 DEF commit, core
<1>3. TypeOK'
  <2>1. DOMAIN ran' \subseteq Checks /\ \A x \in DOMAIN ran' : ran'[x].core \in Cores
    BY <1>2 DEF IndInv, TypeOK
  <2>2. inside' \in Cores /\ stack' \in Cores /\ tested' \in Cores
    BY <1>1, <1>2 DEF IndInv, TypeOK
  <2> QED BY <1>1, <2>1, <2>2, StepKeepsType DEF IndInv
<1>4. Honest'
  BY <1>1, <1>2, HonestStays DEF IndInv, Fail
<1>5. Paired'
  <2>1. pc' = pc /\ outcome' = "failed" /\ job' = "e2e"
    BY <1>1, <1>2 DEF Fail
  <2>2. Held(remote)' = Held(remote) /\ NamedSo(ref, inside, named)' = NamedSo(ref, inside, named)
    BY <1>2 DEF Held, NamedSo
  <2> QED BY <1>1, <1>2, <2>1, <2>2 DEF IndInv, Paired
<1> QED BY <1>3, <1>4, <1>5 DEF IndInv

LEMMA TearDownKeeps == IndInv /\ TearDown => IndInv'
<1> SUFFICES ASSUME IndInv, TearDown PROVE IndInv'
  OBVIOUS
<1>1. /\ job = "e2e" /\ outcome # "running" /\ job # None
      /\ stack' = None
      /\ UNCHANGED <<commit, pc, outcome, ran, core, ref, reason, inside, manifest, tested>>
  <2>1. "e2e" \in DOMAIN Steps
    BY StepsLong
  <2> QED BY <2>1, CiAssumption DEF TearDown
<1>2. UNCHANGED <<edited, job, asked, pc, outcome, ran, remote, named, ref, reason, inside,
                  manifest, tested>>
  BY <1>1 DEF commit, core
<1>3. TypeOK'
  <2>1. DOMAIN ran' \subseteq Checks /\ \A x \in DOMAIN ran' : ran'[x].core \in Cores
    BY <1>2 DEF IndInv, TypeOK
  <2>2. inside' \in Cores /\ stack' \in Cores /\ tested' \in Cores
    BY <1>1, <1>2 DEF IndInv, TypeOK, Cores
  <2> QED BY <1>1, <2>1, <2>2, StepKeepsType DEF IndInv
<1>4. Honest'
  BY <1>1, <1>2, HonestStays DEF IndInv
<1>5. Paired'
  <2>1. Held(remote)' = Held(remote) /\ NamedSo(ref, inside, named)' = NamedSo(ref, inside, named)
    BY <1>2 DEF Held, NamedSo
  <2> QED BY <1>1, <1>2, <2>1 DEF IndInv, Paired
<1> QED BY <1>3, <1>4, <1>5 DEF IndInv

LEMMA MoveCoreKeeps == IndInv /\ MoveCore => IndInv'
<1> SUFFICES ASSUME IndInv, MoveCore PROVE IndInv'
  OBVIOUS
<1>1. /\ job = "e2e" /\ moves < MaxMoves /\ moves' = moves + 1
      /\ named' = named \cup Held(remote')
      /\ UNCHANGED <<commit, pc, outcome, ran, beside, e2e>>
  BY DEF MoveCore
<1>2. UNCHANGED <<edited, job, asked, pc, outcome, ran, beside, ref, reason, inside, manifest,
                  stack, tested>>
  BY <1>1 DEF commit, e2e
<1>3. remote' \in [Refs -> Cores]
  BY DEF IndInv, TypeOK, MoveCore
<1>4. TypeOK'
  <2>1. named' \subseteq Refs \X Cores
    BY <1>1, <1>3 DEF IndInv, TypeOK, Held
  <2>2. moves' \in 0 .. MaxMoves
    BY <1>1, CiAssumption DEF IndInv, TypeOK
  <2> QED BY <1>2, <1>3, <2>1, <2>2 DEF IndInv, TypeOK, Cores
<1>5. Honest'
  BY <1>2, HonestStays DEF IndInv
<1>6. Paired'
  <2>1. Held(remote)' \subseteq named'
    BY <1>1 DEF Held
  <2>2. NamedSo(ref, inside, named) => NamedSo(ref, inside, named)'
    BY <1>1, <1>2 DEF NamedSo
  <2> QED BY <1>2, <2>1, <2>2 DEF IndInv, Paired
<1> QED BY <1>4, <1>5, <1>6 DEF IndInv

LEMMA PullKeeps == IndInv /\ Pull => IndInv'
<1> SUFFICES ASSUME IndInv, Pull PROVE IndInv'
  OBVIOUS
<1>1. UNCHANGED <<edited, job, asked, pc, outcome, ran, remote, named, ref, reason, inside,
                  manifest, stack, tested>>
  BY DEF Pull, commit, e2e
<1>2. TypeOK'
  <2>1. beside' \in Cores /\ moves' \in 0 .. MaxMoves
    BY CiAssumption DEF IndInv, TypeOK, Pull, Cores
  <2> QED BY <1>1, <2>1 DEF IndInv, TypeOK, Cores
<1>3. Honest'
  BY <1>1, HonestStays DEF IndInv
<1>4. Paired'
  <2>1. Held(remote)' = Held(remote) /\ NamedSo(ref, inside, named)' = NamedSo(ref, inside, named)
    BY <1>1 DEF Held, NamedSo
  <2> QED BY <1>1, <2>1 DEF IndInv, Paired
<1> QED BY <1>2, <1>3, <1>4 DEF IndInv

LEMMA NextKeeps == IndInv /\ [Next]_vars => IndInv'
<1> SUFFICES ASSUME IndInv, [Next]_vars PROVE IndInv'
  OBVIOUS
<1>1. CASE UNCHANGED vars
  <2>1. UNCHANGED <<edited, job, asked, pc, outcome, ran, remote, moves, named, beside, ref,
                    reason, inside, manifest, stack, tested>>
    BY <1>1 DEF vars, commit, core, e2e
  <2>2. TypeOK'
    BY <2>1 DEF IndInv, TypeOK, Cores
  <2>3. Honest'
    BY <2>1, HonestStays DEF IndInv
  <2>4. Held(remote)' = Held(remote) /\ NamedSo(ref, inside, named)' = NamedSo(ref, inside, named)
    BY <2>1 DEF Held, NamedSo
  <2>5. Paired'
    BY <2>1, <2>4 DEF IndInv, Paired
  <2> QED BY <2>2, <2>3, <2>5 DEF IndInv
<1>2. CASE Next
  BY <1>2, EditKeeps, PushKeeps, RunCheckKeeps, ResolveKeeps, CheckoutKeeps, RecordKeeps,
     PublishKeeps, StartKeeps, RunScenariosKeeps, BreakKeeps, TearDownKeeps, MoveCoreKeeps,
     PullKeeps DEF Next, JobStep, E2EStep
<1> QED BY <1>1, <1>2

LEMMA Inductive == Spec => []IndInv
BY Start0, NextKeeps, PTL DEF Spec

(***************************************************************************)
(* What follows.                                                           *)
(***************************************************************************)
\* Of the commit, only what its edits may make of it.
LEMMA RepositoryTyped == ASSUME TypeOK PROVE AreRows(repo.rows) /\ AreDocs(repo.docs)
<1>1. /\ repo.rows = IF "rows" \in DOMAIN edited THEN edited["rows"] ELSE Baseline["rows"]
      /\ repo.docs = IF "docs" \in DOMAIN edited THEN edited["docs"] ELSE Baseline["docs"]
  BY CiAssumption DEF repo
<1>2. /\ "rows" \in DOMAIN edited => "rows" \in DOMAIN Values /\ edited["rows"] \in Values["rows"]
      /\ "docs" \in DOMAIN edited => "docs" \in DOMAIN Values /\ edited["docs"] \in Values["docs"]
  BY DEF TypeOK
<1> QED BY <1>1, <1>2, CiAssumption

LEMMA PassedPromises ==
  ASSUME IndInv, outcome = "passed", NEW check \in DOMAIN ran
  PROVE  Promise(check, repo, ran[check].core)
<1>1. check \in Checks /\ ran[check].core \in Cores
  BY DEF IndInv, TypeOK
<1>2. Passes(Verdict(check, repo, ran[check].core))
  BY DEF IndInv, Honest
<1>3. AreRows(repo.rows) /\ AreDocs(repo.docs)
  BY RepositoryTyped DEF IndInv
<1> QED BY <1>1, <1>2, <1>3, CheckKeepsPromise

LEMMA VerdictMeans ==
  ASSUME IndInv, NEW check \in DOMAIN ran
  PROVE  LET verdict == ran[check].verdict
             c == ran[check].core
         IN  /\ Passes(verdict) => Substance(check, repo, c)
             /\ Passes(verdict) => (verdict.compared <=> Comparable(check, c))
             /\ Input(check, repo, c) /\ verdict.shown = {} => Promise(check, repo, c)
<1>1. check \in Checks /\ ran[check].core \in Cores
  BY DEF IndInv, TypeOK
<1>2. ran[check].verdict = Verdict(check, repo, ran[check].core)
  BY DEF IndInv, Honest
<1>3. AreRows(repo.rows) /\ AreDocs(repo.docs)
  BY RepositoryTyped DEF IndInv
<1>4. Passes(ran[check].verdict) => Substance(check, repo, ran[check].core)
  BY <1>1, <1>2, <1>3, CheckHasSubstance
<1>5. Passes(ran[check].verdict) =>
        (ran[check].verdict.compared <=> Comparable(check, ran[check].core))
  BY <1>1, <1>2, ComparedWhenItCould
<1>6. Input(check, repo, ran[check].core) /\ ran[check].verdict.shown = {} =>
        Promise(check, repo, ran[check].core)
  BY <1>1, <1>2, <1>3, NothingHidden
<1> QED BY <1>4, <1>5, <1>6

LEMMA FailedForSomething == IndInv => NoFalseAlarm
<1> SUFFICES ASSUME IndInv, NEW check \in DOMAIN ran,
                    Substance(check, repo, ran[check].core),
                    Promise(check, repo, ran[check].core),
                    check = "endpoints" => AsServed(repo, ran[check].core)
             PROVE  Passes(ran[check].verdict)
  BY DEF NoFalseAlarm
<1>1. check \in Checks /\ ran[check].core \in Cores
  BY DEF IndInv, TypeOK
<1>2. ran[check].verdict = Verdict(check, repo, ran[check].core)
  BY DEF IndInv, Honest
<1>3. AreRows(repo.rows) /\ AreDocs(repo.docs)
  BY RepositoryTyped DEF IndInv
<1>4. Passes(Verdict(check, repo, ran[check].core))
  BY <1>1, <1>3, PromiseIsEnough
<1> QED BY <1>2, <1>4

LEMMA PairFollows == IndInv => PairRecorded
<1> SUFFICES ASSUME IndInv, tested # None
             PROVE  manifest.core = tested /\ manifest.core = inside
                    /\ NamedSo(manifest.ref, tested, named)
  BY DEF PairRecorded
<1>1. job = "e2e"
  BY DEF IndInv, Paired
<1>2. pc \in Int
  <2>1. Len(Steps[job]) = 9 /\ job # None
    <3>1. "e2e" \in DOMAIN Steps
      BY StepsLong
    <3> QED BY <1>1, <3>1, StepsLong, CiAssumption
  <2> QED BY <2>1 DEF IndInv, TypeOK
<1>3. ~(pc <= 9)
  BY <1>1, Zenon DEF IndInv, Paired
<1>4. pc > 9 /\ pc > 3 /\ pc > 2
  BY <1>2, <1>3
<1>5. /\ manifest = [ref |-> ref, resolution |-> reason, core |-> inside]
      /\ tested = inside /\ NamedSo(ref, inside, named)
  BY <1>1, <1>4, Zenon DEF IndInv, Paired
<1> QED BY <1>5

LEMMA RequestFollows == IndInv => RequestHonoured
<1> SUFFICES ASSUME IndInv PROVE RequestHonoured
  OBVIOUS
<1>1. CASE job # "e2e"
  BY <1>1, Zenon DEF IndInv, Paired, RequestHonoured
<1>2. CASE job = "e2e"
  <2>1. Len(Steps[job]) = 9 /\ job # None
    <3>1. "e2e" \in DOMAIN Steps
      BY StepsLong
    <3> QED BY <1>2, <3>1, StepsLong, CiAssumption
  <2>2. pc \in Int
    BY <2>1 DEF IndInv, TypeOK
  <2>3. outcome = "passed" => pc > 3 /\ pc > 1
    <3>1. outcome = "passed" => pc = Len(Steps[job]) + 1
      BY Zenon DEF IndInv, Paired
    <3> QED BY <2>1, <3>1
  <2>4. pc > 3 => manifest.ref = ref /\ manifest.resolution = reason
    <3>1. pc > 3 => manifest = [ref |-> ref, resolution |-> reason, core |-> inside]
      BY <1>2, Zenon DEF IndInv, Paired
    <3> QED BY <3>1
  <2>5. manifest # None => ~(pc <= 3)
    BY <1>2, Zenon DEF IndInv, Paired
  <2>6. pc > 1 => /\ asked # None => ref = asked /\ reason = "requested explicitly"
                  /\ reason = "fell back to main" => ref = Main
    BY <1>2, Zenon DEF IndInv, Paired
  <2>8. ASSUME outcome = "passed", asked # None
        PROVE  manifest.ref = asked /\ manifest.resolution = "requested explicitly"
    <3>1. manifest.ref = ref /\ manifest.resolution = reason
      BY <2>3, <2>4, <2>8, Zenon
    <3>2. ref = asked /\ reason = "requested explicitly"
      BY <2>3, <2>6, <2>8, Zenon
    <3> QED BY <3>1, <3>2, Zenon
  <2>9. ASSUME manifest # None, manifest.resolution = "fell back to main"
        PROVE  manifest.ref = Main
    <3>0. ~(pc <= 3)
      BY <2>5, <2>9, Zenon
    <3>1. pc > 3 /\ pc > 1
      BY <2>2, <3>0
    <3>2. manifest.ref = ref /\ manifest.resolution = reason
      BY <2>4, <3>1, Zenon
    <3>3. reason = "fell back to main"
      BY <2>9, <3>2, Zenon
    <3>4. ref = Main
      BY <2>6, <3>1, <3>3, Zenon
    <3> QED BY <3>2, <3>4, Zenon
  <2> QED BY <2>8, <2>9 DEF RequestHonoured
<1> QED BY <1>1, <1>2

\* Every variable stays in its type: an e2e job looks for a step only where
\* there is one, and the history names refs and commits.
THEOREM TypeCorrect == Spec => []TypeOK
<1>1. IndInv => TypeOK
  BY DEF IndInv
<1> QED BY <1>1, Inductive, PTL

\* The lists that are written down twice agree in a commit that passed
\* (check-identity-groups.py, check-global-ids.py, check-scan-coverage.py,
\* check-service-identity-scopes.py).
THEOREM NamesDoAgree == Spec => []NamesAgree
<1>1. IndInv => NamesAgree
  BY PassedPromises DEF NamesAgree, Kept
<1> QED BY <1>1, Inductive, PTL

\* The four stacks of a commit that passed are contained, for any set of
\* services (check-hardening.py, check-stage1-overlay.py).
THEOREM StacksAreContained == Spec => []StacksContained
<1>1. IndInv => StacksContained
  BY PassedPromises DEF StacksContained, Kept
<1> QED BY <1>1, Inductive, PTL

\* A commit that passed tracks no program, and in the files that were read no
\* literal value and no host but one allowed by name, one that RFC 2606 and
\* RFC 6761 keep, or one of the form test.com and foo.local.net, which the
\* script's pattern takes for kept and nobody keeps (check-artifacts.py,
\* check-stage-secrets.py).
THEOREM TreeIsClean == Spec => []TreeClean
<1>1. IndInv => TreeClean
  BY PassedPromises DEF TreeClean, Kept
<1> QED BY <1>1, Inductive, PTL

\* What the documentation of a commit that passed names is there: its ports,
\* services, variables, files and endpoints; and no address or host in it is
\* one where somebody can be reached, in whatever notation the ranges are
\* given (check-config-docs.py, check-doc-links.py,
\* check-documented-endpoints.py).
THEOREM DocsDoLead == Spec => []DocsLead
<1>1. IndInv => DocsLead
  BY PassedPromises DEF DocsLead, Kept
<1> QED BY <1>1, Inductive, PTL

\* What a verdict is worth (the guards of nine scripts against an empty parse,
\* and where they stand).  A guarded check, which those of the links and of the
\* secrets are not, passes only with something to look at, that of the
\* endpoints only where there is a Core; one that passes has compared exactly
\* when there was something to compare with; and
\* one that shows nothing wrong, its input being there, leaves nothing wrong:
\* no early return hides what was found.
THEOREM VerdictsSaySomething == Spec => []SaysSomething
<1>1. IndInv => SaysSomething
  BY VerdictMeans DEF SaysSomething, Guarded
<1> QED BY <1>1, Inductive, PTL

\* And no check fails for nothing: where there is something to look at and
\* what a check promises holds, it passes.  Only an endpoint has to be written
\* as it is served besides.  With the theorems above, the verdict of a check
\* is its promise, for every repository and every Core.
THEOREM NobodyIsTurnedAway == Spec => []NoFalseAlarm
BY FailedForSomething, Inductive, PTL

\* The manifest names the Core that was tested, however the refs of the Core
\* moved between the steps of the job (ci.yml, compatibility-manifest.py).
THEOREM PairIsRecorded == Spec => []PairRecorded
BY PairFollows, Inductive, PTL

\* A ref that was asked for is the one tested, or the job fails (ci.yml).
THEOREM RequestIsHonoured == Spec => []RequestHonoured
BY RequestFollows, Inductive, PTL
=============================================================================
