------------------------------ MODULE Startup ------------------------------
(***************************************************************************)
(* The program from its configuration to its work: cmd/manager (main.go,   *)
(* runtime_config.go, http_handlers.go) and internal/config, for several   *)
(* instances of one Deployment under leader election, with crashes and     *)
(* restarts, and the routing of images by what was configured.             *)
(*                                                                         *)
(* A configuration is a record [env, file, flags]: what variables, keys of *)
(* the file and flags are set.  A number given as text may be Bad, a       *)
(* Boolean is text.  Which workloads exist is part of it.                  *)
(***************************************************************************)
EXTENDS Routing

CONSTANTS
  Instances, None, Bad,
  Configurations,
  ArchOrder,       \* all architectures as sort.Strings orders them
  Kinds,           \* resource types ParseWatchResources knows
  MaxCrashes       \* bound: crashes and failed starts

ASSUME CrashAssumption == MaxCrashes \in Nat

NumberFields == {"registryRetryAttempts", "maxConcurrentReconciles", "registryRetryBackoffSeconds",
                 "requestTimeoutSeconds", "failureCooldownMinutes", "forceReconcileMinutes"}
NumberVariables == {"REGISTRY_RETRY_ATTEMPTS", "MAX_CONCURRENT_RECONCILES", "REGISTRY_RETRY_BACKOFF",
                    "REGISTRY_REQUEST_TIMEOUT", "FAILURE_COOLDOWN_MINUTES", "FORCE_RECONCILE_MINUTES"}

\* The YAML decoder gives fields their types; images are valid references.
ASSUME ConfigurationAssumption ==
  /\ Bad \notin Int
  /\ \A c \in Configurations :
       /\ \A v \in NumberVariables \cap DOMAIN c.env : c.env[v] \in Int \cup {Bad}
       /\ \A k \in NumberFields \cap DOMAIN c.file : c.file[k] \in Int
       /\ \A w \in c.workloads : isReference(w.image)
       /\ "registryCredentials" \in DOMAIN c.file =>
            LET creds == c.file["registryCredentials"] IN
            isSequence(creds) /\ \A n \in DOMAIN creds : IsFiniteSet(creds[n].aliases)

VARIABLES
  conf,       \* the configuration, the same for every start
  runtime,    \* what loadRuntimeConfig makes of it, None for an error
  routes,     \* [workloads of conf -> what Mirror makes of their images]
  pc,         \* how far main has come: down, configured, prepared, wired, serving
  settings,   \* [Instances -> runtimeConfig or None]
  order,      \* [Instances -> order of the keychain's wildcards]
  handlers,   \* [Instances -> handlers that were given their service]
  lease,      \* the leader, or None
  answer,     \* the last answer of an endpoint
  mirrored,   \* history: <<repository, workload>>
  pulled,     \* history: <<registry, authenticator>>
  counted,    \* history: <<image, label of its pull counter>>
  crashes

vars == <<conf, runtime, routes, pc, settings, order, handlers, lease, answer, mirrored, pulled, counted, crashes>>

-----------------------------------------------------------------------------
(* The file.  sigs.k8s.io/yaml goes through JSON, so the yaml tags of      *)
(* Config mean nothing to it: a key sets the field of that name, and a key *)
(* that is no field's name is dropped.  Fields has the ones modelled here. *)

Fields == {"targetKind", "logLevel", "accountID", "region", "registry", "createRepo", "repoPrefix",
           "digestPull", "checkNodePlatform", "allowDifferentDigestRepush", "excludeRegistries",
           "watchResources", "dryRun", "dryPull", "requestTimeoutSeconds", "registryRetryAttempts",
           "registryRetryBackoffSeconds", "failureCooldownMinutes", "forceReconcileMinutes",
           "maxConcurrentReconciles", "registryCredentials", "pathMap"}

Load(file) == [k \in DOMAIN file \cap Fields |-> file[k]]

-----------------------------------------------------------------------------
(* loadRuntimeConfig: the variable, else the field, else the default. *)

isSet(c, v) == v \in DOMAIN c.env

fromFile(c, k, default) == IF k \in DOMAIN Load(c.file) THEN Load(c.file)[k] ELSE default

setting(c, v, k, default) == IF isSet(c, v) THEN c.env[v] ELSE fromFile(c, k, default)

\* Blank entries go, entries with commas are split; an entry is the list of its parts.
sanitizeStringList(values) == SelectSeq(FlattenSeq(values), LAMBDA v : v # <<>>)

resolveList(c, v, k) == sanitizeStringList(setting(c, v, k, <<>>))

parsed(text) == CASE text \in {"true", "1", "t"} -> TRUE [] text \in {"false", "0", "f"} -> FALSE [] OTHER -> Bad

resolveBool(c, v, k, default) == IF isSet(c, v) THEN parsed(c.env[v]) ELSE fromFile(c, k, default)

\* Any other text in the variable is FALSE, whatever flag and file say.
resolveDry(c, v, k, flag) ==
  IF isSet(c, v) THEN lower(<<c.env[v]>>)[1] \in {"1", "true", "yes"} ELSE flag \/ fromFile(c, k, FALSE)

\* Text in the variable is taken as it is, text of the file in lower case.
targetKind(c) ==
  IF isSet(c, "TARGET_KIND") THEN c.env["TARGET_KIND"] ELSE lower(<<fromFile(c, "targetKind", "ecr")>>)[1]

targetComplete(c) ==
  \/ /\ targetKind(c) = "ecr"
     /\ setting(c, "ECR_ACCOUNT_ID", "accountID", "") # "" /\ setting(c, "AWS_REGION", "region", "") # ""
     /\ resolveBool(c, "ECR_CREATE_REPO", "createRepo", TRUE) # Bad
  \/ /\ targetKind(c) = "docker"
     /\ setting(c, "TARGET_REGISTRY", "registry", "") # ""

repoPrefix(c) ==
  setting(c, IF targetKind(c) = "ecr" THEN "ECR_REPO_PREFIX" ELSE "TARGET_REPO_PREFIX", "repoPrefix", <<>>)

durationFrom(n) == IF n <= 0 THEN 0 ELSE n

\* REGISTRY_RETRY_ATTEMPTS and MAX_CONCURRENT_RECONCILES refuse 0, the back-off does not;
\* for the other numbers everything up to 0 means none.
numbers(c) ==
  [attempts |-> setting(c, "REGISTRY_RETRY_ATTEMPTS", "registryRetryAttempts", 3),
   workers  |-> setting(c, "MAX_CONCURRENT_RECONCILES", "maxConcurrentReconciles", 2),
   backoff  |-> setting(c, "REGISTRY_RETRY_BACKOFF", "registryRetryBackoffSeconds", 10),
   timeout  |-> setting(c, "REGISTRY_REQUEST_TIMEOUT", "requestTimeoutSeconds", 300),
   cooldown |-> setting(c, "FAILURE_COOLDOWN_MINUTES", "failureCooldownMinutes", 60),
   resync   |-> setting(c, "FORCE_RECONCILE_MINUTES", "forceReconcileMinutes", 0)]

validNumbersMutant(n) == /\ \A k \in DOMAIN n : n[k] # Bad
                         /\ n.attempts >= 0 /\ n.workers > 0 /\ n.backoff >= 0
validNumbers(n) == /\ \A k \in DOMAIN n : n[k] # Bad
                   /\ n.attempts > 0 /\ n.workers > 0 /\ n.backoff >= 0

readable(c) ==
  lower(<<fromFile(c, "logLevel", "info")>>)[1] \in {"debug", "info", "warn", "error", "dpanic", "panic", "fatal"}

accepted(c) ==
  /\ readable(c)
  /\ {lower(v) : v \in ToSet(resolveList(c, "WATCH_RESOURCES", "watchResources"))} \subseteq {<<k>> : k \in Kinds}
  /\ targetComplete(c)
  /\ validNumbers(numbers(c))
  /\ resolveBool(c, "DIGEST_PULL", "digestPull", FALSE) # Bad
  /\ resolveBool(c, "CHECK_NODE_PLATFORM", "checkNodePlatform", FALSE) # Bad
  /\ resolveBool(c, "ALLOW_DIFFERENT_DIGEST_REPUSH", "allowDifferentDigestRepush", TRUE) # Bad

loadRuntimeConfig(c) ==
  LET n == numbers(c) IN
  [attempts |-> n.attempts, workers |-> n.workers, backoff |-> n.backoff,
   timeout |-> durationFrom(n.timeout), cooldown |-> durationFrom(n.cooldown), resync |-> durationFrom(n.resync),
   kind |-> targetKind(c),
   dryRun |-> resolveDry(c, "DRY_RUN", "dryRun", c.dryRunFlag),
   dryPull |-> resolveDry(c, "DRY_PULL", "dryPull", c.dryPullFlag),
   prefix |-> repoPrefix(c),
   excluded |-> normalizeExcludedRegistries(resolveList(c, "EXCLUDE_REGISTRIES", "excludeRegistries")),
   mappings |-> fromFile(c, "pathMap", <<>>),
   auths |-> buildKeychainFromConfig(fromFile(c, "registryCredentials", <<>>))]

meta(w) ==
  [n \in {"$namespace", "$podname", "$container_name", "$arch", "$registry"} |->
    CASE n = "$namespace" -> w.namespace [] n = "$podname" -> w.name [] n = "$container_name" -> <<"main">>
      [] n = "$arch" -> resolveArchitecture(w.index, w.archs, ArchOrder) [] n = "$registry" -> metaRegistry(w.image)]

\* What Mirror makes of a workload's image.
route(s, w) ==
  [excluded |-> matchExcludedRegistry(w.image, s.excluded),
   registry |-> registryStr(w.image),
   label |-> registryLabel(w.image),
   repository |-> resolveRepoPath(s.mappings, s.prefix, repositoryStr(w.image), meta(w))]

\* Namespaces and objects have DNS names.
isName(s) ==
  /\ isSequence(s) /\ s # <<>>
  /\ ToSet(s) \cap ({"/"} \cup Unusual \cup DOMAIN LowerCase) = {}
  /\ {s[1], Last(s)} \cap Separators = {}

isRule(m) ==
  /\ m.regex \in BOOLEAN
  /\ IF m.regex THEN m.valid => \A p \in DOMAIN m.rewrites : isSequence(m.rewrites[p])
     ELSE isSequence(m.from) /\ isSequence(m.to)

ASSUME RouteAssumption ==
  /\ isSequence(ArchOrder)
  /\ \A c \in Configurations :
       /\ \A w \in c.workloads :
            isName(w.namespace) /\ isName(w.name) /\ w.index \in BOOLEAN /\ isSequence(w.archs)
       /\ isSequence(repoPrefix(c))
       /\ LET rules == fromFile(c, "pathMap", <<>>) IN isSequence(rules) /\ \A n \in DOMAIN rules : isRule(rules[n])

\* The names CleanRepoName gets for a configuration: of the source, and with the prefix.
sourceNames(c) == {spelled(mapped(fromFile(c, "pathMap", <<>>), repositoryStr(w.image))) : w \in c.workloads}

prefixedNames(c) ==
  {LET cleaned == NewRepoPathTransformer(fromFile(c, "pathMap", <<>>), repositoryStr(w.image))
   IN  spelled(combined(repoPrefix(c), cleaned, meta(w))) : w \in c.workloads}

\* Hashes of these names do not collide, and look like no token of a source's name.
ASSUME DigestAssumption ==
  \A c \in Configurations :
    LET names == sourceNames(c) \cup prefixedNames(c) IN
    /\ \A s, t \in names : Digest(s) = Digest(t) => s = t
    /\ \A s \in names :
         /\ Digest(s) \notin Separators \cup Unusual \cup DOMAIN LowerCase \cup {"unknown"}
         /\ \A t \in sourceNames(c) : Digest(s) \notin ToSet(t)

-----------------------------------------------------------------------------
Init ==
  /\ conf \in Configurations
  /\ runtime = IF accepted(conf) THEN loadRuntimeConfig(conf) ELSE None
  /\ routes = [w \in conf.workloads |-> route(runtime, w)]
  /\ pc = [i \in Instances |-> "down"]
  /\ settings = [i \in Instances |-> None]
  /\ order = [i \in Instances |-> <<>>]
  /\ handlers = [i \in Instances |-> {}]
  /\ lease = None
  /\ answer = "none"
  /\ mirrored = {}
  /\ pulled = {}
  /\ counted = {}
  /\ crashes = 0

goes(i, stage) == pc' = [pc EXCEPT ![i] = stage]

\* The process ends; the kubelet starts it again.
exits(i) ==
  /\ goes(i, "down")
  /\ settings' = [settings EXCEPT ![i] = None]
  /\ order' = [order EXCEPT ![i] = <<>>]
  /\ handlers' = [handlers EXCEPT ![i] = {}]
  /\ UNCHANGED <<conf, runtime, routes, answer, mirrored, pulled, counted>>

\* Something in the file or the environment is invalid: os.Exit(1).
Refuse(i) ==
  /\ pc[i] = "down" /\ runtime = None
  /\ exits(i)
  /\ UNCHANGED <<lease, crashes>>

Configure(i) ==
  /\ pc[i] = "down" /\ runtime # None
  /\ goes(i, "configured")
  /\ settings' = [settings EXCEPT ![i] = runtime]
  /\ \E o \in wildcardOrders(runtime.auths) : order' = [order EXCEPT ![i] = o]
  /\ UNCHANGED <<conf, runtime, routes, handlers, lease, answer, mirrored, pulled, counted, crashes>>

\* Client, namespaces, manager and controllers.
Prepare(i) ==
  /\ pc[i] = "configured"
  /\ goes(i, "prepared")
  /\ UNCHANGED <<conf, runtime, routes, settings, order, handlers, lease, answer, mirrored, pulled, counted, crashes>>

\* SetResetter and SetReconciler.
Wire(i) ==
  /\ pc[i] = "prepared"
  /\ goes(i, "wired")
  /\ handlers' = [handlers EXCEPT ![i] = {"cooldown", "force"}]
  /\ UNCHANGED <<conf, runtime, routes, settings, order, lease, answer, mirrored, pulled, counted, crashes>>

\* mgr.Start: servers and caches run whether this instance leads or not.
ServeMutant(i) ==
  /\ pc[i] \in {"prepared", "wired"}
  /\ goes(i, "serving")
  /\ UNCHANGED <<conf, runtime, routes, settings, order, handlers, lease, answer, mirrored, pulled, counted, crashes>>
Serve(i) ==
  /\ pc[i] = "wired"
  /\ goes(i, "serving")
  /\ UNCHANGED <<conf, runtime, routes, settings, order, handlers, lease, answer, mirrored, pulled, counted, crashes>>

\* The controllers start with the lease.
Lead(i) ==
  /\ pc[i] = "serving" /\ lease = None
  /\ lease' = i
  /\ UNCHANGED <<conf, runtime, routes, pc, settings, order, handlers, answer, mirrored, pulled, counted, crashes>>

\* A failed step of main, a lost lease or a kill.
Crash(i) ==
  /\ pc[i] # "down" /\ crashes < MaxCrashes
  /\ exits(i)
  /\ lease' = IF lease = i THEN None ELSE lease
  /\ crashes' = crashes + 1

\* ServeHTTP of either handler.
Request(i, h) ==
  /\ pc[i] = "serving"
  /\ answer' = IF h \in handlers[i] THEN "done" ELSE "not ready"
  /\ UNCHANGED <<conf, runtime, routes, pc, settings, order, handlers, lease, mirrored, pulled, counted, crashes>>

\* A reconcile of the leader, or a forced one, which every serving instance does.
Mirror(i, w) ==
  LET r == routes[w] IN
  /\ pc[i] = "serving"
  /\ lease = i \/ "force" \in handlers[i]
  /\ ~r.excluded
  /\ mirrored' = IF settings[i].dryRun \/ settings[i].dryPull THEN mirrored ELSE mirrored \cup {<<r.repository, w>>}
  /\ pulled' = pulled \cup {<<r.registry, Resolve(settings[i].auths, order[i], r.registry)>>}
  /\ counted' = counted \cup {<<w.image, r.label>>}
  /\ UNCHANGED <<conf, runtime, routes, pc, settings, order, handlers, lease, answer, crashes>>

Next ==
  \E i \in Instances :
    \/ Refuse(i) \/ Configure(i) \/ Prepare(i) \/ Wire(i) \/ Serve(i) \/ Lead(i) \/ Crash(i)
    \/ \E h \in {"cooldown", "force"} : Request(i, h)
    \/ \E w \in conf.workloads : Mirror(i, w)

\* The leader's controllers; the queue holds every object until it was reconciled.
Reconcile(i) == lease = i /\ \E w \in conf.workloads : Mirror(i, w)

\* main goes on, the lease is handed out, the controllers work.
Fairness ==
  \A i \in Instances :
    /\ WF_vars(Configure(i) \/ Prepare(i) \/ Wire(i) \/ Serve(i))
    /\ WF_vars(Lead(i))
    /\ WF_vars(Reconcile(i))

Spec == Init /\ [][Next]_vars /\ Fairness

-----------------------------------------------------------------------------
(* Whatever the environment and the file say, in whichever combination: an *)
(* instance that was not refused has settings the Pusher and Controllers   *)
(* modules assume, at least one attempt and one worker, no negative time,  *)
(* and a kind of target there is.                                          *)
SoundSettings ==
  \A i \in Instances : pc[i] # "down" =>
    LET s == settings[i] IN
    /\ {s.attempts, s.workers} \subseteq Nat \ {0}
    /\ {s.backoff, s.timeout, s.cooldown, s.resync} \subseteq Nat
    /\ s.kind \in {"ecr", "docker"}

(* No endpoint ever answers that its service is not ready: main gives the  *)
(* handlers their services before the manager starts the servers, on every *)
(* start of every instance.                                                *)
AnswersReady == answer # "not ready"

\* v is nothing but the host h, with a scheme and a slash perhaps.
isRegistry(v, h) ==
  \E scheme \in {<<>>} \cup {<<t>> : t \in Schemes}, slash \in {<<>>, <<"/">>} :
    lower(v) = scheme \o <<h>> \o slash

(* What is pulled from an excluded registry is never mirrored, however the *)
(* exclusion and the image are spelled: a scheme, capitals, a slash at the *)
(* end, the two names of Docker Hub, or an image that names no registry.   *)
ExcludedNeverMirrored ==
  \A m \in mirrored, v \in ToSet(resolveList(conf, "EXCLUDE_REGISTRIES", "excludeRegistries")), h \in Dotted :
    isRegistry(v, h) =>
      LET registry == lower(registryStr(m[2].image)) IN
      registry # <<h>> /\ ~(registry = hub /\ h = "docker.io")

(* README.md:178: a prefix of namespace and pod name keeps repositories of *)
(* different workloads apart, also where a name is too long and is cut.    *)
WorkloadsSeparate ==
  \A m, n \in mirrored :
    m[1] = n[1] /\ repoPrefix(conf) = <<"$namespace", "/", "$podname">>
      => <<m[2].namespace, m[2].name>> = <<n[2].namespace, n[2].name>>

\* A rule that writes an empty segment, or leaves the slash of what follows to be doubled.
doublesSlash(m) ==
  IF m.regex THEN m.valid /\ \E p \in DOMAIN m.rewrites : doubled(m.rewrites[p])
  ELSE m.to # <<>> /\ (doubled(m.to) \/ (m.from # <<>> /\ Last(m.from) # "/"))

(* A repository has a name the target can accept after rules, prefix and   *)
(* cutting: not empty, not too long, no separator at an end, nothing but   *)
(* small letters, and no empty segment unless the image has one or a rule  *)
(* of pathMap makes one.                                                   *)
RepositoriesClean ==
  \A m \in mirrored :
    LET r == m[1] IN
    /\ Len(r) \in 1..MaxRepoName
    /\ {r[1], Last(r)} \cap Separators = {}
    /\ ToSet(r) \cap (Unusual \cup DOMAIN LowerCase) = {}
    /\ doubled(r) => doubled(m[2].image) \/ \E rule \in ToSet(fromFile(conf, "pathMap", <<>>)) : doublesSlash(rule)

\* Wildcards alone decide, and differ.
ambiguous(auths, registry) ==
  /\ registry \notin DOMAIN auths \ patterns(auths)
  /\ \E a, b \in patterns(auths) : {<<a, registry>>, <<b, registry>>} \subseteq Matching /\ auths[a] # auths[b]

(* A registry is asked with one and the same credential by every instance  *)
(* and after every restart, although Go's map gives the wildcards another  *)
(* order each time, unless two wildcards match it and no exact name does.  *)
CredentialStable ==
  \A p, q \in pulled :
    p[1] = q[1] /\ p[2] # q[2] =>
      ambiguous(buildKeychainFromConfig(fromFile(conf, "registryCredentials", <<>>)), lower(p[1]))

(* A pull counts for the registry the image is pulled from, and the images *)
(* of Docker Hub for one and the same, although the label is read from the *)
(* text of the image and not from the parsed reference; two spellings are  *)
(* told apart all the same: index.docker.io/x, and localhost/x, which the  *)
(* pull takes for a repository of Docker Hub.                              *)
LabelNamesRegistry ==
  \A c \in counted : c[2] = lower(metaRegistry(c[1])) \/ lower(c[1])[1] \in {"index.docker.io", "localhost"}

\* The repository and the groups it lies in.
underneath(r) == {SubSeq(r, 1, n) : n \in {k \in DOMAIN r : k = Len(r) \/ r[k + 1] = "/"}}

\* The image lies under what an exclusion names, a registry or a part of it.
covered(w) ==
  \E v \in ToSet(resolveList(conf, "EXCLUDE_REGISTRIES", "excludeRegistries")) :
    LET p == stripScheme(lower(v))
        registry == lower(registryStr(w.image))
    IN  /\ p[1] = registry[1] \/ (registry = hub /\ p[1] = "docker.io")
        /\ (\E h \in Dotted : isRegistry(v, h)) \/ Tail(Tail(p)) \in underneath(lower(repositoryStr(w.image)))

(* With a configuration that is accepted, whatever crashes: an instance    *)
(* comes to lead and every workload is mirrored that no exclusion covers;  *)
(* an exclusion of ghcr.io/team does not keep back ghcr.io/teamwork.       *)
Arrives ==
  runtime # None /\ ~runtime.dryRun /\ ~runtime.dryPull
    ~> \A w \in conf.workloads : (\E m \in mirrored : m[2] = w) \/ covered(w)

(* README.md:267, "requestTimeout: 300  # seconds": a key of the example   *)
(* configuration that no variable overrides is the value in use.           *)
FileSettingsUsed ==
  \A i \in Instances :
    pc[i] # "down" /\ "requestTimeout" \in DOMAIN conf.file /\ ~isSet(conf, "REGISTRY_REQUEST_TIMEOUT")
      => settings[i].timeout = durationFrom(conf.file["requestTimeout"])
=============================================================================
