----------------------------- MODULE MCStartup -----------------------------
(* One setting at a time in every combination of variable and file, and    *)
(* the routing of a few workloads under exclusions, prefixes, path rules   *)
(* and credentials.                                                        *)
EXTENDS Startup

host(h) == <<h, "/">>
tag == <<":", "v1">>

\* Images, several spelled in more than one way.
nginx     == <<"nginx">> \o tag
nginxHub  == host("docker.io") \o <<"library", "/", "nginx">> \o tag
nginxIdx  == host("index.docker.io") \o <<"library", "/", "nginx">> \o tag
nginxFlat == host("docker.io") \o <<"nginx">> \o tag
userTool  == <<"user", "/", "tool">> \o tag
team      == host("ghcr.io") \o <<"team", "/", "app">> \o tag
teamwork  == host("ghcr.io") \o <<"team", "work", "/", "app">> \o tag
corp      == host("eu.corp.io") \o <<"app">> \o tag
loud      == host("EU.corp.io") \o <<"app">> \o tag
gap       == host("ghcr.io") \o <<"team", "/", "/", "app">> \o tag
local     == <<"localhost", "/", "x">> \o tag
pinned    == <<"localhost", ":", "5000", "/", "Old", "/", "x", "@", "sha256">>

work(ns, pod, img) == [namespace |-> ns, name |-> pod, image |-> img, index |-> FALSE, archs |-> <<"amd64">>]
indexed(w) == [w EXCEPT !.index = TRUE, !.archs = <<"unknown", "arm64", "amd64">>]
teamA == <<"team", "-", "a">>
teamB == <<"team", "-", "b">>
web(n) == <<"web", "-", "x", "-", n>>

base == [env |-> <<>>, file |-> [targetKind |-> "Docker", registry |-> "target"],
         dryRunFlag |-> FALSE, dryPullFlag |-> FALSE, workloads |-> {}]
andFile(c, f) == [c EXCEPT !.file = f @@ @]
andEnv(c, e) == [c EXCEPT !.env = e @@ @]
with(ws) == [base EXCEPT !.workloads = ws]

\* One number: not set, not a number, or at a boundary, in either place.
OneNumber ==
  {andEnv(andFile(base, f), e) :
     f \in {<<>>} \cup {(k :> n) : k \in {"registryRetryAttempts", "maxConcurrentReconciles"}, n \in {0, 1}},
     e \in {<<>>} \cup {(v :> n) : v \in {"REGISTRY_RETRY_ATTEMPTS", "MAX_CONCURRENT_RECONCILES"}, n \in {-1, 0, 1, Bad}}}
  \cup
  {andEnv(andFile(base, f), e) :
     f \in {<<>>} \cup {(k :> n) : k \in {"failureCooldownMinutes", "forceReconcileMinutes"}, n \in {-1, 1}},
     e \in {<<>>} \cup {(v :> n) : v \in {"FAILURE_COOLDOWN_MINUTES", "REGISTRY_REQUEST_TIMEOUT", "REGISTRY_RETRY_BACKOFF"},
                                   n \in {-1, 0, Bad}}}

\* Targets, Booleans, lists and the log level.
OneOther ==
  {andEnv(base, e) : e \in {("TARGET_KIND" :> "ecr"), ("TARGET_KIND" :> "Docker"), ("DIGEST_PULL" :> "yes"), ("CHECK_NODE_PLATFORM" :> "on"),
                            ("ALLOW_DIFFERENT_DIGEST_REPUSH" :> "f"), ("WATCH_RESOURCES" :> <<<<<<"Pods">>, <<>>>>>>)}}
  \cup {andFile(base, f) : f \in {("logLevel" :> "loud"), ("watchResources" :> <<<<<<"pod">>>>>>)}}
  \cup {andEnv(andFile(base, ("targetKind" :> "ECR") @@ ("accountID" :> "1")), e) :
          e \in {<<>>, ("AWS_REGION" :> "eu"), ("AWS_REGION" :> "eu") @@ ("ECR_CREATE_REPO" :> "maybe")}}
  \cup {andEnv([with({work(teamA, web("1"), nginx)}) EXCEPT !.dryRunFlag = TRUE], e) :
          e \in {<<>>, ("DRY_RUN" :> "Yes"), ("DRY_RUN" :> "on"), ("DRY_RUN" :> "on") @@ ("DRY_PULL" :> "1")}}

Exclusions ==
  {andFile(with({work(teamA, web("1"), img) : img \in imgs}), "excludeRegistries" :> <<v>>) :
     imgs \in {{nginx, nginxHub, userTool}, {nginxIdx, nginxFlat, team}, {team, teamwork, corp}, {pinned, local, loud}},
     v \in {<<<<"https://", "Docker.io", "/">>>>, <<<<"index.docker.io">>, <<>>>>, <<<<"docker.io", "/", "library">>>>,
            <<<<"ghcr.io", "/", "team">>, <<"eu.corp.io">>>>}}

Repositories ==
  {andFile(with(ws), ("repoPrefix" :> p) @@ ("pathMap" :> r)) :
     ws \in {{work(teamA, <<"web">>, gap)},
             {work(teamA, web("1"), nginx), work(teamA, web("2"), nginxHub), work(teamB, web("1"), nginxIdx)},
             {indexed(work(teamA, <<"web">>, pinned)), work(teamB, <<"web">>, userTool), work(teamA, <<"web">>, nginx)}},
     p \in {<<>>, <<"$namespace", "/", "$podname">>, <<"/", "$arch", "/", "/", "$registry", "/">>},
     r \in {<<>>,
            <<[regex |-> TRUE, valid |-> FALSE],
              [regex |-> FALSE, from |-> <<"library", "/">>, to |-> <<"hub", "/">>],
              [regex |-> FALSE, from |-> <<"user">>, to |-> <<"own">>]>>,
            <<[regex |-> TRUE, valid |-> TRUE, rewrites |-> (<<"library", "/", "nginx">> :> <<"!">>)],
              [regex |-> FALSE, from |-> <<"library", "/">>, to |-> <<"never">>]>>}}

cred(r, as, user, token) ==
  [registry |-> r, aliases |-> as, username |-> <<user, "">>, password |-> <<"", "">>, token |-> <<"", token>>]

Credentials ==
  {andFile(with({work(teamA, web("1"), corp), work(teamA, web("1"), nginx)}), "registryCredentials" :> cs) :
     cs \in {<<cred(<<"EU.corp.io">>, {<<"*.corp.io">>}, "u", ""), cred(<<"eu.*">>, {<<"index.docker.io">>}, "", "t")>>,
             <<cred(<<"*.corp.io">>, {}, "u", ""), cred(<<"eu.*">>, {}, "", "t"), cred(<<"eu.*">>, {}, "", "")>>,
             <<cred(<<"docker.io">>, {}, "u", ""), cred(<<>>, {<<"eu.corp.io">>}, "u", "")>>}}

AllConfigurations == OneNumber \cup OneOther \cup Exclusions \cup Repositories \cup Credentials

FileOnly == {andFile(base, "requestTimeout" :> n) : n \in {0, 60}}

Lowered == ("Docker.io" :> "docker.io") @@ ("EU.corp.io" :> "eu.corp.io") @@ ("Docker" :> "docker")
             @@ ("ECR" :> "ecr") @@ ("Pods" :> "pods") @@ ("Yes" :> "yes") @@ ("Old" :> "old")
Matches == {<<<<"*.corp.io">>, <<"eu.corp.io">>>>, <<<<"eu.*">>, <<"eu.corp.io">>>>}
Architectures == <<"amd64", "arm64">>
Hash(s) == ToString(s)
=============================================================================
