------------------------------ MODULE MCCiJobs ------------------------------
(* A small repository that passes every check, what may be edited in it, and
   a Core with two commits of which the second no longer agrees with it. *)
EXTENDS Promises

MCGroups == {"BSYSTEM-Admins", "BSYSTEM-Staff", "BSYSTEM-Guests"}
Two == {"BSYSTEM-Admins", "BSYSTEM-Staff"}

(***************************************************************************)
(* Services, stacks, documents and files.                                  *)
(***************************************************************************)
Port(host, number) == [host_ip |-> host, published |-> number]
Mount(kind, source, ro) == [type |-> kind, source |-> source, read_only |-> ro]

Plain ==
  [profiles |-> {}, no_new_privileges |-> TRUE, privileged |-> FALSE,
   cap_drop |-> {"ALL"}, read_only |-> TRUE, environment |-> {},
   mounts |-> {Mount("bind", "./config", TRUE)}, ports |-> {}]

PlatformCore ==
  [Plain EXCEPT !.environment = {"AUTHENTIK_ADMIN_TOKEN"}, !.ports = {Port("127.0.0.1", 8080)}]
Worker ==
  [Plain EXCEPT !.cap_drop = {}, !.environment = {"BSYSTEM_AUTHENTIK_ADMIN_TOKEN"}]
Hub == [Plain EXCEPT !.ports = {Port("127.0.0.1", 8081)}]
Gated == [Hub EXCEPT !.profiles = {"hub"}]

BaseStack == "integration-core" :> PlatformCore @@ "authentik-worker" :> Worker @@ "hub" :> Hub
E2EStack == "integration-core" :> PlatformCore @@ "mock-identity" :> Plain
Stage1Stack ==
  "integration-core" :> PlatformCore @@ "mock-redmine" :> Plain
  @@ "mock-outline" :> Plain @@ "hub" :> Gated

Stacks == Base :> BaseStack @@ E2E :> E2EStack @@ Stage :> BaseStack @@ Stage1 :> Stage1Stack

\* A service of a stack, replaced.
Serve(where, name, s) == [Stacks EXCEPT ![where] = name :> s @@ @]

Doc ==
  [ports |-> {8080, 5432}, services |-> {"hub", "logs"},
   hosts |-> {<<"hub", "example">>, <<"localhost">>}, addresses |-> {<<10, 0, 0, 7>>},
   links |-> {[target |-> <<"docs", "SETUP.md">>, resolved |-> <<"docs", "SETUP.md">>],
              [target |-> <<"bsystem-hub", "README.md">>,
               resolved |-> <<"bsystem-hub", "README.md">>]},
   spans |-> {<<"docs", "SETUP.md">>, <<".", "scripts", "check.py">>, <<"openapi.yaml">>},
   endpoints |-> {<<"v1", "clients", "{id}">>, <<"v1", "clients", "CL-1">>,
                  <<"v1", "*">>, <<"v1", "Account">>}]

Docs(d) == "README.md" :> d @@ "TASKS.md" :> Doc

Text ==
  [kind |-> "file", head |-> <<35, 32, 66, 83, 89, 83, 84, 69>>, text |-> TRUE,
   excluded |-> FALSE, assignments |-> {"placeholder"}, urls |-> {<<"authentik", "example">>},
   names |-> {<<"github", "com">>, <<"config", "yaml">>}]

Tree(file) == <<"README.md">> :> Text @@ <<"e2e", "e2e_test.go">> :> file

Row(id, permissions) == [identity |-> id, permissions |-> permissions]

MCBaseline ==
  [blueprint |-> Two \cup {"a display name"},
   principals |-> {{"BSYSTEM-Admins", "BSYSTEM-Staff"}, {"BSYSTEM-Staff"}},
   setup |-> [bullets |-> Two, elsewhere |-> MCGroups],
   rules |-> {"CL", "PRJ"}, modules |-> {"mocks", "e2e"},
   matrix |-> [vulnerabilities |-> {"mocks", "e2e"}, staticcheck |-> {"mocks", "e2e"}],
   rows |-> <<Row("svc-redmine", {"relationships.read", "relationships.write"}),
              Row("svc-outline", {"relationships.read"})>>,
   usernames |-> {"svc-redmine", "svc-outline"},
   stacks |-> Stacks, declared |-> {"BIND_ADDRESS"},
   used |-> {"BIND_ADDRESS", "INTEGRATION_CORE_CONTEXT"},
   docs |-> Docs(Doc), files |-> {<<"README.md">>, <<"docs", "SETUP.md">>,
                                  <<"scripts", "check.py">>},
   tracked |-> Tree(Text), gomods |-> {<<"mocks">>, <<"loadtest">>},
   mains |-> {<<"loadtest">>, <<"mocks", "cmd", "mock-redmine">>},
   ignored |-> {<<"loadtest", "loadtest">>, <<"mocks", "mock-redmine">>}]

(***************************************************************************)
(* Edits.                                                                  *)
(***************************************************************************)
Services ==
  {Serve(Base, "hub", [Hub EXCEPT !.ports = {Port(h, 8081)}]) : h \in {None, "0.0.0.0", "10.0.0.1"}}
  \cup {Serve(E2E, "mock-identity", s) :
          s \in {[Plain EXCEPT !.no_new_privileges = FALSE], [Plain EXCEPT !.privileged = TRUE],
                 [Plain EXCEPT !.cap_drop = {"NET_RAW"}], [Plain EXCEPT !.read_only = FALSE],
                 [Plain EXCEPT !.environment = {"AUTHENTIK_ADMIN_TOKEN"}],
                 [Plain EXCEPT !.mounts = {Mount("bind", DockerSocket, TRUE)}],
                 [Plain EXCEPT !.mounts = {Mount("bind", "./config", FALSE)}],
                 [Plain EXCEPT !.mounts = {Mount("volume", "data", FALSE)}]}}
  \cup {Serve(Stage, "authentik-worker", [Worker EXCEPT !.cap_drop = {"ALL"}]),
        Serve(Stage1, "hub", Hub), Serve(Stage1, "hub", [Gated EXCEPT !.profiles = {"ui"}]),
        Serve(Stage1, "mock-outline", [Plain EXCEPT !.profiles = {"later"}]),
        Serve(Stage1, "integration-core", [PlatformCore EXCEPT !.ports = {Port(None, None)}]),
        [Stacks EXCEPT ![Stage] = Unreadable], [Stacks EXCEPT ![Stage1] = <<>>],
        [Stacks EXCEPT ![Base] = [n \in DOMAIN @ |-> [@[n] EXCEPT !.mounts = {}, !.ports = {}]]],
        [Stacks EXCEPT ![Stage] = [n \in DOMAIN @ |-> [@[n] EXCEPT !.mounts = {}]]],
        [Stacks EXCEPT ![Stage] = [n \in DOMAIN @ |-> [@[n] EXCEPT !.mounts = {},
                                                                   !.privileged = TRUE]]]}

Documents ==
  {[Doc EXCEPT !.ports = @ \cup {p}] : p \in {4222, 9999}}
  \cup {[Doc EXCEPT !.services = {"integrationcore"}]}
  \cup {[Doc EXCEPT !.hosts = {h}] :
          h \in {<<"example", "com">>, <<"test", "com">>, <<"auth", "example", "com">>, <<"nats">>}}
  \cup {[Doc EXCEPT !.addresses = {a}] :
          a \in {<<172, 16, 0, 1>>, <<172, 31, 255, 255>>, <<172, 32, 0, 1>>, <<192, 169, 0, 1>>,
                 <<192, 168, 1, 300>>, <<0, 0, 0, 0>>, <<0, 0, 0, 1>>, <<203, 0, 113, 9>>}}
  \cup {[Doc EXCEPT !.links = {[target |-> t, resolved |-> t]}] :
          t \in {<<"docs">>, <<"docs", "GONE.md">>, <<"bsystem-integration-core", "docs", "API.md">>,
                 <<"bsystem-integration-core", "docs", "OLD.md">>}}
  \cup {[Doc EXCEPT !.links = {[target |-> <<"..", "..">> \o p, resolved |-> <<"..">> \o p]}] :
          p \in {<<"bsystem-integration-core", "docs", "API.md">>, <<"bsystem-hub", "README.md">>}}
  \cup {[Doc EXCEPT !.spans = {s}] :
          s \in {<<"docs", "GONE.md">>, <<".", "docs", "GONE.md">>, <<"e2e">>}}
  \cup {[Doc EXCEPT !.endpoints = {e}] :
          e \in {<<"v1", "health">>, <<"v1", "clients", "CL-1", "tasks">>,
                 <<"v1", "clients", "{clientId}", "tasks">>, <<"v1", "projects">>, <<"v1", "*">>}}

Files ==
  {[Text EXCEPT !.head = h] :
     h \in {<<127, 69, 76, 70, 2, 1, 1, 0>>, <<80, 75, 3, 4>>, <<97, 13, 13, 10, 0, 0, 0, 0>>,
            <<35, 33, 13, 10, 69, 70, 71, 72>>, <<203, 13, 13, 10, 0, 0, 0, 0>>,
            <<203, 13, 13>>}}
  \cup {[Text EXCEPT !.assignments = {v}] : v \in {"empty", "literal"}}
  \cup {[Text EXCEPT !.urls = {<<"sso", "corp", "com">>}],
        [Text EXCEPT !.names = {<<"sso", "corp", "com">>}],
        [Text EXCEPT !.urls = {<<"test", "com">>}],
        [Text EXCEPT !.kind = "unreadable"], [Text EXCEPT !.kind = "absent"],
        [Text EXCEPT !.kind = "unreadable", !.excluded = TRUE]}

MCValues ==
  [blueprint |-> {MCGroups, {"BSYSTEM-Admins"}, {"a display name"}, Unreadable},
   principals |-> {{MCGroups}, {{"BSYSTEM-Admins"}}, {{}}},
   setup |-> {[bullets |-> MCGroups, elsewhere |-> {}], [bullets |-> {}, elsewhere |-> Two],
              [bullets |-> {"BSYSTEM-Admins"}, elsewhere |-> {}]},
   rules |-> {{"CL"}, {"CL", "PRJ", "SVC"}, {"CL", "TSK"}},
   modules |-> {{"mocks"}, {"mocks", "e2e", "loadtest"}},
   matrix |-> {[vulnerabilities |-> Unreadable, staticcheck |-> {"mocks", "e2e"}],
               [vulnerabilities |-> {"mocks", "e2e"}, staticcheck |-> {"mocks", "e2e", "old"}],
               [vulnerabilities |-> {"mocks"}, staticcheck |-> {"mocks"}]},
   rows |-> {<<>>, <<Row("svc-outline", {"relationships.write"})>>,
             <<Row("svc-redmine", {}), Row("svc-outline", {"relationships.write"}),
               Row("svc-outline", {"relationships.read"})>>,
             <<Row("svc-redmine", {}), Row("svc-outline", {"relationships.read"}),
               Row("svc-outline", {"relationships.read", "relationships.write"})>>},
   usernames |-> {{}, {"svc-outline"}, {"svc-redmine"}},
   stacks |-> Services, used |-> {{}, {"BIND_ADDRESS", "NEW"}}, declared |-> {{}},
   docs |-> {Docs(d) : d \in Documents} \cup {[d \in {"TASKS.md"} |-> Doc]},
   files |-> {MCBaseline.files \cup {<<"docs", "GONE.md">>},
              {<<"README.md">>, <<"artifacts", "docs", "SETUP.md">>}},
   tracked |-> {Tree(file) : file \in Files},
   mains |-> {{}, {<<"mocks", "cmd", "mock-redmine">>, <<"mocks", "cmd", "mock-new">>}},
   ignored |-> {{<<"loadtest", "loadtest">>}}]

(***************************************************************************)
(* The Core.                                                               *)
(***************************************************************************)
Migration(counters, prefixes, inserts) ==
  [counters |-> counters, prefixes |-> prefixes, inserts |-> inserts]

MCCoreContent ==
  [c1 |-> [migrations |-> <<Migration(TRUE, {"CL"}, <<>>), Migration(FALSE, {"XX"}, <<>>),
                            Migration(TRUE, {"PRJ"}, <<Two>>)>>,
           served |-> {<<"v1", "clients", "{clientId}">>, <<"v1", "health">>,
                       <<"v1", "clients", "{id}", "tasks">>},
           files |-> {<<"docs", "API.md">>}],
   c2 |-> [migrations |-> <<Migration(TRUE, {"CL", "TSK"}, <<MCGroups>>),
                            Migration(TRUE, {"SVC"}, <<Two>>)>>,
           served |-> {<<"v1", "health">>, <<"v1", "projects">>},
           files |-> {<<"docs", "OLD.md">>}],
   c3 |-> [migrations |-> <<>>, served |-> {<<"v1", "health">>}, files |-> {<<"README.md">>}]]

MCMain == <<"main">>
MCRefs == {<<"heads", "main">>, <<"heads", "team", "feature">>, <<"tags", "v1">>}
MCBranch == <<"team", "feature">>
MCAsked == {None, <<"v1">>, <<"feature">>, <<"c1">>}
MCPlaceholders == {"{id}", "{clientId}"}
MCMaxEdits == [compose |-> 2, stage_assets |-> 2, e2e |-> 0, local |-> 1]
=============================================================================
