----------------------------- MODULE TreeChecks -----------------------------
(* The checks of the files Git tracks: check-artifacts.py and
   check-stage-secrets.py.

   Of a repository f this module reads
     f.tracked   for each tracked path, the file: [kind, head, text, excluded,
                 assignments, urls, names].  kind is "file", "symlink",
                 "absent" or "unreadable"; head its first eight bytes; text
                 whether it decodes; excluded whether its path is generated
                 or binary content; assignments the kinds of value its
                 credential-shaped assignments have; urls and names the hosts
                 it mentions with and without a scheme
     f.gomods    the directories with a go.mod
     f.mains     the directories whose Go files declare package main
     f.ignored   the paths .gitignore covers
   A host is the sequence of its labels, a path that of its segments. *)
EXTENDS Integers, Sequences, FiniteSets, SequencesExt, Verdicts

(***************************************************************************)
(* check-artifacts.py                                                      *)
(***************************************************************************)
CR == 13
LF == 10

\* \x7fELF, MZ, the four Mach-O headers, PK, gzip, xz and zstd.
Magic == {<<127, 69, 76, 70>>, <<77, 90>>,
          <<254, 237, 250, 206>>, <<254, 237, 250, 207>>,
          <<207, 250, 237, 254>>, <<202, 254, 186, 190>>,
          <<80, 75, 3, 4>>, <<31, 139>>,
          <<253, 55, 122, 88, 90>>, <<40, 181, 47, 253>>}

\* Mistake: a text whose first line has two characters looks like bytecode.
CarriageReturned(head) == Len(head) >= 8 /\ head[3] = CR /\ head[4] = LF

\* Two version bytes, CR LF, and a NUL in the four bytes that follow.
IsPythonBytecode(head) ==
  /\ Len(head) >= 8
  /\ head[3] = CR /\ head[4] = LF
  /\ \E i \in 5 .. 8 : head[i] = 0

IsBinary(head) == (\E m \in Magic : IsPrefix(m, head)) \/ IsPythonBytecode(head)

\* Mistake: the commands of a module are forgotten.
RootOutputs(f) == {m \o <<Last(m)>> : m \in f.gomods \cap f.mains}

\* Where go build writes when nobody passes -o.
DefaultBuildOutputs(f) ==
  UNION {     {m \o <<Last(m)>> : x \in {m} \cap f.mains}
         \cup {m \o <<Last(p)>> : p \in {q \in f.mains :
                  Len(q) = Len(m) + 2 /\ IsPrefix(m \o <<"cmd">>, q)}} :
           m \in f.gomods}

CheckArtifacts(f) ==
  LET files(kind) == {p \in DOMAIN f.tracked : f.tracked[p].kind = kind}
      binaries == {<<"binary", p>> :
                     p \in {q \in files("file") : IsBinary(f.tracked[q].head)}}
      unread == {<<"unreadable", p>> : p \in files("unreadable")}
      exposed == {<<"not ignored", o>> : o \in DefaultBuildOutputs(f) \ f.ignored}
  IN  IF Cardinality(DOMAIN f.tracked) < 2 THEN Refuse({})
      ELSE IF files("file") = {} THEN Refuse(unread)
      ELSE IF DefaultBuildOutputs(f) = {} THEN Refuse(binaries \cup unread)
      ELSE Judge(binaries \cup unread \cup exposed)

(***************************************************************************)
(* check-stage-secrets.py                                                  *)
(***************************************************************************)
\* What an assignment may hold: nothing, a placeholder, a reference to the
\* environment, or a place inside the braces of one.
Harmless == {"empty", "placeholder", "reference", "inside a reference"}

\* example.com, but test.com and foo.local.net as well.
ReservedNames == {"example", "invalid", "test", "localhost", "local"}

Reserved(h) ==
  \/ Last(h) \in ReservedNames
  \/ /\ Len(h) > 1 /\ Last(h) \in {"com", "org", "net"}
     /\ h[Len(h) - 1] \in ReservedNames

RealTLDs == {"com", "org", "net", "io", "dev", "app", "co", "ai", "biz", "me",
  "uk", "de", "pl", "ua", "fr", "es", "it", "nl", "ru", "cn", "jp", "in", "us",
  "ca", "au", "br", "xyz", "cloud", "tech", "site", "online", "store", "pro",
  "tv", "cc", "gg"}

AllowedHosts == {<<"localhost">>, <<"127", "0", "0", "1">>, <<"0", "0", "0", "0">>,
  <<"postgres">>, <<"nats">>, <<"authentik-server">>, <<"integration-core">>, <<"hub">>,
  <<"mock-redmine">>, <<"mock-outline">>, <<"mock-identity">>, <<"mock-espocrm">>,
  <<"redmine">>, <<"nextcloud">>, <<"spec", "openapis", "org">>,
  <<"www", "rfc-editor", "org">>, <<"tools", "ietf", "org">>, <<"github", "com">>,
  <<"docs", "github", "com">>, <<"opensource", "org">>, <<"goauthentik", "io">>,
  <<"golang", "org">>, <<"gopkg", "in">>, <<"ghcr", "io">>, <<"honnef", "co">>,
  <<"apps", "nextcloud", "com">>, <<"www", "w3", "org">>}

\* A name without a scheme counts when it ends in a real top-level domain.
HostsOf(file) == file.urls \cup {h \in file.names : Len(h) > 1 /\ Last(h) \in RealTLDs}

SecretFindings(path, file) ==
       {<<path, "value", v>> : v \in file.assignments \ Harmless}
  \cup {<<path, "host", h>> : h \in {x \in HostsOf(file) :
                                       x \notin AllowedHosts /\ ~Reserved(x)}}

\* A file that is not there or does not decode is passed over, and no guard
\* asks whether any file was read.
Scanned(f) == {p \in DOMAIN f.tracked : /\ ~f.tracked[p].excluded
                                        /\ f.tracked[p].kind # "absent"
                                        /\ f.tracked[p].text}

CheckStageSecrets(f) ==
  IF \E p \in DOMAIN f.tracked :
       f.tracked[p].kind = "unreadable" /\ ~f.tracked[p].excluded THEN Refuse({})
  ELSE Judge(UNION {SecretFindings(p, f.tracked[p]) : p \in Scanned(f)})
=============================================================================
