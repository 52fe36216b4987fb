----------------------------- MODULE DocChecks ------------------------------
(* The checks of what the documentation names: check-config-docs.py,
   check-doc-links.py and check-documented-endpoints.py.

   Of a repository f this module reads
     f.declared   the variables .env.example assigns, commented out or not
     f.used       the variables the Compose files refer to
     f.stacks     the Compose files, as in StackChecks; what a stack refers
                  to, here, is what its files say literally
     f.docs       for each document, what it names: [ports, services, hosts,
                  addresses, links, spans, endpoints], sets of each.  A link
                  is neither a URL nor an anchor: [target, resolved], as
                  written and from the root ("..": beside the repository);
                  a span is a path in backticks with a known suffix
     f.files      the files on disk
   of the checkouts beside the repository, siblings: for each repository the
   set of its files, or None; and of the Integration Core, core, the paths
   its OpenAPI specification serves.
   A host is the sequence of its labels, an address that of its four
   numbers, a path that of its segments. *)
EXTENDS Integers, Sequences, FiniteSets, SequencesExt, Verdicts

\* Names that look like an identifier in braces: {id}, {clientId}.
CONSTANTS Placeholders

\* TASKS.md is not followed by anybody and is not read.
Followed(f) == DOMAIN f.docs \ {"TASKS.md"}

(***************************************************************************)
(* check-config-docs.py: addresses and hosts nobody can be reached at.     *)
(***************************************************************************)
DocumentationNets == {<<192, 0, 2>>, <<198, 51, 100>>, <<203, 0, 113>>}

\* Mistake: the private range 172.16/12 ends at 172.32.
PrivateWide(a) ==
  \/ a[1] = 10
  \/ a[1] = 192 /\ a[2] = 168
  \/ a[1] = 172 /\ 16 <= a[2] /\ a[2] <= 32

Private(a) ==
  \/ a[1] = 10
  \/ a[1] = 192 /\ a[2] = 168
  \/ a[1] = 172 /\ 16 <= a[2] /\ a[2] <= 31

\* Four numbers of which one exceeds 255 are no address at all.
ReservedAddress(a) ==
  \/ \E i \in 1 .. 4 : a[i] > 255
  \/ a[1] = 127 \/ a = <<0, 0, 0, 0>>
  \/ SubSeq(a, 1, 3) \in DocumentationNets
  \/ Private(a)

ReservedSuffixes == {"example", "invalid", "test", "localhost", "local"}
ReservedDomains == {<<"example", t>> : t \in {"com", "org", "net"}}

ReservedHost(h) ==
  \/ Len(h) > 1 /\ Last(h) \in ReservedSuffixes
  \/ h \in ReservedDomains
  \/ h = <<"localhost">>

\* The pattern for a host asks for a scheme, and a dot in the host.
NamedHosts(doc) == {h \in doc.hosts : Len(h) > 1}

(***************************************************************************)
(* check-config-docs.py: the four comparisons, in the order they are made. *)
(***************************************************************************)
UndocumentedVariables == {"INTEGRATION_CORE_CONTEXT"}
ExternalPorts == {5432, 4222, 18103}
NotAService == {"up", "down", "run", "exec", "logs", "config", "build", "ps", "pull"}

StackServices(f) == UNION {DOMAIN f.stacks[s] : s \in DOMAIN f.stacks}

\* A number: the overlay publishes some ports under a variable.
PublishedPorts(f) ==
  Nat \cap UNION {UNION {{p.published : p \in f.stacks[s][n].ports} : n \in DOMAIN f.stacks[s]} :
                    s \in DOMAIN f.stacks}

VariableFindings(f) ==
  {<<"variable", v>> : v \in f.used \ (f.declared \cup UndocumentedVariables)}

PortFindings(f) ==
  UNION {{<<d, "port", p>> : p \in f.docs[d].ports \ (PublishedPorts(f) \cup ExternalPorts)} :
           d \in Followed(f)}

ServiceFindings(f) ==
  UNION {{<<d, "service", s>> : s \in f.docs[d].services \ (StackServices(f) \cup NotAService)} :
           d \in Followed(f)}

AddressFindings(f) ==
  UNION {     {<<d, "host", h>> : h \in {x \in NamedHosts(f.docs[d]) : ~ReservedHost(x)}}
         \cup {<<d, "address", a>> : a \in {x \in f.docs[d].addresses : ~ReservedAddress(x)}} :
           d \in Followed(f)}

\* Mistake: the documents are counted, not the addresses in them.
DocumentsSeen(f) == Followed(f) # {}

\* Every host counts as an address that was looked at, and of the dotted
\* quads those that are reported.
AddressesSeen(f) ==
  \/ AddressFindings(f) # {}
  \/ \E d \in Followed(f) : NamedHosts(f.docs[d]) # {}

\* The first three guards return before the findings are printed, the last
\* one after.
CheckConfigDocs(f) ==
  LET ports == VariableFindings(f) \cup PortFindings(f)
      all == ports \cup ServiceFindings(f) \cup AddressFindings(f)
  IN  IF f.used = {} THEN Refuse({})
      ELSE IF \E s \in DOMAIN f.stacks : f.stacks[s] = Unreadable
        THEN Refuse(VariableFindings(f))
      ELSE IF PublishedPorts(f) = {} THEN Refuse(VariableFindings(f))
      ELSE IF StackServices(f) = {} THEN Refuse(ports)
      ELSE IF all = {} /\ ~AddressesSeen(f) THEN Refuse({})
      ELSE Judge(all)

(***************************************************************************)
(* check-doc-links.py                                                      *)
(***************************************************************************)
Siblings == {"bsystem-integration-core", "bsystem-hub", "bsystem-design-system"}
OwnedRoots == {"docs", "scripts", ".github", "mocks", "e2e", "loadtest",
               "postgres", "observability", "authentik"}

SkipDirs == {".git", "node_modules", "artifacts", "backups"}

Known(f) == {p \in f.files : \A i \in DOMAIN p : p[i] \notin SkipDirs}

\* A directory exists when a file lies below it.
Exists(path, files) == \E file \in files : IsPrefix(path, file)

\* A link may lead into a repository beside this one.
Resolves(path, f, siblings) ==
  IF path[1] = ".."
  THEN siblings[path[2]] # None /\ Exists(Tail(Tail(path)), siblings[path[2]])
  ELSE Exists(path, f.files)

\* A sibling that is not checked out is not a broken link.
SiblingExists(path, siblings) ==
  /\ Len(path) > 1 /\ path[1] \in Siblings
  /\ siblings[path[1]] # None => Exists(Tail(path), siblings[path[1]])

\* A backticked path may begin with "./"; it is judged only in a directory
\* this repository owns.
Candidate(span) == IF Head(span) = "." THEN Tail(span) ELSE span

LinkFindings(f, d, siblings) ==
       {<<d, "link", l>> : l \in {x \in f.docs[d].links :
            /\ ~Resolves(x.resolved, f, siblings)
            /\ ~SiblingExists(x.target, siblings)}}
  \cup {<<d, "path", s>> : s \in {x \in f.docs[d].spans :
            /\ Candidate(x) \notin Known(f)
            /\ ~SiblingExists(Candidate(x), siblings)
            /\ Len(Candidate(x)) > 1 /\ Candidate(x)[1] \in OwnedRoots}}

\* TASKS.md is read here, and no guard asks whether anything was.
CheckDocLinks(f, siblings) ==
  Judge(UNION {LinkFindings(f, d, siblings) : d \in DOMAIN f.docs})

(***************************************************************************)
(* check-documented-endpoints.py                                           *)
(***************************************************************************)
Normal(path) ==
  [i \in DOMAIN path |-> IF path[i] \in Placeholders THEN "{}" ELSE path[i]]

UpstreamPaths == {<<"v1", "Account">>, <<"v1", "Contact">>, <<"v1", "App", "user">>}

DocumentedPaths(core) == {Normal(path) : path \in core.served}

\* A concrete identifier at the end of a documented path stands for a
\* placeholder; the rest of that candidate is taken as written.
Candidates(endpoint) ==
  {Normal(endpoint), [endpoint EXCEPT ![Len(endpoint)] = "{}"]}

\* A trailing star is the versioning rule, not a path.
Checked(doc) == {e \in doc.endpoints : Last(e) # "*"} \ UpstreamPaths

CheckDocumentedEndpoints(f, core) ==
  LET served == DocumentedPaths(core)
      findings == UNION {{<<d, e>> : e \in {x \in Checked(f.docs[d]) :
                                              Candidates(x) \cap served = {}}} :
                           d \in Followed(f)}
  IN  IF core = None THEN Note
      ELSE IF Cardinality(served) < 2 THEN Refuse({})
      ELSE IF \A d \in Followed(f) : Checked(f.docs[d]) = {} THEN Refuse({})
      ELSE Judge(findings)
=============================================================================
