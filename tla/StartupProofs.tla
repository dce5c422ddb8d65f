--------------------------- MODULE StartupProofs ---------------------------
(***************************************************************************)
(* Proofs about Startup and Routing, for any number of instances, crashes  *)
(* and configurations.  The invariant ties what every instance works with  *)
(* to the configuration all of them read; what is left to prove then is    *)
(* about pure functions of it.                                             *)
(***************************************************************************)
EXTENDS Startup, RoutingProofs

-----------------------------------------------------------------------------
(* The invariant. *)

\* What is fixed by the configuration.
Derived ==
  /\ conf \in Configurations
  /\ runtime = IF accepted(conf) THEN loadRuntimeConfig(conf) ELSE None
  /\ routes = [w \in conf.workloads |-> route(runtime, w)]

Domains == {DOMAIN pc, DOMAIN settings, DOMAIN order, DOMAIN handlers} = {Instances}

\* An instance that runs has what the configuration says.
Configured(i) ==
  pc[i] # "down" => runtime # None /\ settings[i] = runtime /\ order[i] \in wildcardOrders(runtime.auths)

\* The handlers have their services before they are served.
Wired(i) == pc[i] \in {"wired", "serving"} => handlers[i] = {"cooldown", "force"}

\* The histories hold what routing makes of the workloads.
MirroredFrom ==
  \A m \in mirrored :
    runtime # None /\ m[2] \in conf.workloads /\ ~routes[m[2]].excluded /\ m[1] = routes[m[2]].repository

PulledFrom ==
  \A p \in pulled :
    runtime # None /\ \E o \in wildcardOrders(runtime.auths) : p[2] = Resolve(runtime.auths, o, p[1])

CountedFrom == \A c \in counted : \E w \in conf.workloads : c = <<w.image, routes[w].label>>

StartInv ==
  /\ Derived /\ Domains
  /\ \A i \in Instances : Configured(i) /\ Wired(i)
  /\ AnswersReady
  /\ MirroredFrom /\ PulledFrom /\ CountedFrom

LEMMA StartInit == Init => StartInv
<1> SUFFICES ASSUME Init PROVE StartInv
  OBVIOUS
<1>1. Derived /\ Domains
  BY DEF Init, Derived, Domains
<1>2. \A i \in Instances : Configured(i) /\ Wired(i)
  BY DEF Init, Configured, Wired
<1>3. AnswersReady /\ MirroredFrom /\ PulledFrom /\ CountedFrom
  BY DEF Init, AnswersReady, MirroredFrom, PulledFrom, CountedFrom
<1> QED BY <1>1, <1>2, <1>3 DEF StartInv

\* Nothing that the histories depend on changes, and they do not either.
LEMMA HistoriesKept ==
  ASSUME StartInv, UNCHANGED <<conf, runtime, routes, mirrored, pulled, counted>>
  PROVE  Derived' /\ MirroredFrom' /\ PulledFrom' /\ CountedFrom'
BY DEF StartInv, Derived, MirroredFrom, PulledFrom, CountedFrom

LEMMA StartNext == StartInv /\ [Next]_vars => StartInv'
<1> SUFFICES ASSUME StartInv, [Next]_vars PROVE StartInv'
  OBVIOUS
<1>0. /\ DOMAIN pc = Instances /\ DOMAIN settings = Instances
      /\ DOMAIN order = Instances /\ DOMAIN handlers = Instances
  BY DEF StartInv, Domains
<1>1. ASSUME NEW i \in Instances, exits(i) PROVE StartInv'
  <2>1. Derived' /\ MirroredFrom' /\ PulledFrom' /\ CountedFrom'
    BY <1>1, HistoriesKept DEF exits
  <2>2. Domains' /\ AnswersReady'
    BY <1>0, <1>1 DEF exits, goes, Domains, AnswersReady, StartInv
  <2>3. ASSUME NEW j \in Instances PROVE Configured(j)' /\ Wired(j)'
    <3>1. pc'[i] = "down"
      BY <1>0, <1>1 DEF exits, goes
    <3>2. j # i => /\ pc'[j] = pc[j] /\ settings'[j] = settings[j]
                   /\ order'[j] = order[j] /\ handlers'[j] = handlers[j]
      BY <1>0, <1>1 DEF exits, goes
    <3>3. UNCHANGED runtime
      BY <1>1 DEF exits
    <3> QED BY <3>1, <3>2, <3>3 DEF StartInv, Configured, Wired
  <2> QED BY <2>1, <2>2, <2>3 DEF StartInv
<1>2. ASSUME NEW i \in Instances, Configure(i) PROVE StartInv'
  <2>1. Derived' /\ MirroredFrom' /\ PulledFrom' /\ CountedFrom'
    BY <1>2, HistoriesKept DEF Configure
  <2>2. Domains' /\ AnswersReady'
    BY <1>0, <1>2 DEF Configure, goes, Domains, AnswersReady, StartInv
  <2>3. ASSUME NEW j \in Instances PROVE Configured(j)' /\ Wired(j)'
    <3>1. PICK o \in wildcardOrders(runtime.auths) : order' = [order EXCEPT ![i] = o]
      BY <1>2 DEF Configure
    <3>2. /\ pc'[i] = "configured" /\ settings'[i] = runtime /\ order'[i] = o
          /\ runtime # None /\ UNCHANGED <<runtime, handlers>>
      BY <1>0, <1>2, <3>1 DEF Configure, goes
    <3>3. j # i => pc'[j] = pc[j] /\ settings'[j] = settings[j] /\ order'[j] = order[j]
      BY <1>0, <1>2, <3>1 DEF Configure, goes
    <3> QED BY <3>1, <3>2, <3>3 DEF StartInv, Configured, Wired
  <2> QED BY <2>1, <2>2, <2>3 DEF StartInv
<1>3. ASSUME NEW i \in Instances, Prepare(i) \/ Wire(i) \/ Serve(i) PROVE StartInv'
  <2>1. Derived' /\ MirroredFrom' /\ PulledFrom' /\ CountedFrom'
    BY <1>3, HistoriesKept DEF Prepare, Wire, Serve
  <2>2. Domains' /\ AnswersReady'
    BY <1>0, <1>3 DEF Prepare, Wire, Serve, goes, Domains, AnswersReady, StartInv
  <2>3. ASSUME NEW j \in Instances PROVE Configured(j)' /\ Wired(j)'
    <3>1. UNCHANGED <<runtime, settings, order>> /\ pc[i] # "down"
      BY <1>3 DEF Prepare, Wire, Serve
    <3>2. j # i => pc'[j] = pc[j] /\ handlers'[j] = handlers[j]
      BY <1>0, <1>3 DEF Prepare, Wire, Serve, goes
    <3>3. Configured(j)'
      BY <3>1, <3>2 DEF StartInv, Configured
    <3>4. Wired(i)'
      BY <1>0, <1>3 DEF Prepare, Wire, Serve, goes, StartInv, Wired
    <3>5. j # i => Wired(j)'
      BY <3>2 DEF StartInv, Wired
    <3> QED BY <3>3, <3>4, <3>5
  <2> QED BY <2>1, <2>2, <2>3 DEF StartInv
<1>4. ASSUME NEW i \in Instances, Lead(i) PROVE StartInv'
  <2>1. Derived' /\ MirroredFrom' /\ PulledFrom' /\ CountedFrom'
    BY <1>4, HistoriesKept DEF Lead
  <2> QED BY <1>4, <2>1 DEF Lead, StartInv, Domains, Configured, Wired, AnswersReady
<1>5. ASSUME NEW i \in Instances, NEW h \in {"cooldown", "force"}, Request(i, h) PROVE StartInv'
  <2>1. Derived' /\ MirroredFrom' /\ PulledFrom' /\ CountedFrom'
    BY <1>5, HistoriesKept DEF Request
  <2>2. AnswersReady'
    BY <1>5 DEF Request, StartInv, Wired, AnswersReady
  <2> QED BY <1>5, <2>1, <2>2 DEF Request, StartInv, Domains, Configured, Wired
<1>6. ASSUME NEW i \in Instances, NEW w \in conf.workloads, Mirror(i, w) PROVE StartInv'
  <2> DEFINE r == routes[w]
  <2>1. /\ UNCHANGED <<conf, runtime, routes, pc, settings, order, handlers, answer>>
        /\ pc[i] # "down" /\ ~r.excluded
        /\ mirrored' \in {mirrored, mirrored \cup {<<r.repository, w>>}}
        /\ pulled' = pulled \cup {<<r.registry, Resolve(settings[i].auths, order[i], r.registry)>>}
        /\ counted' = counted \cup {<<w.image, r.label>>}
    BY <1>6 DEF Mirror
  <2>2. runtime # None /\ settings[i] = runtime /\ order[i] \in wildcardOrders(runtime.auths)
    BY <2>1 DEF StartInv, Configured
  <2>3. MirroredFrom'
    BY <2>1, <2>2 DEF StartInv, MirroredFrom
  <2>4. PulledFrom'
    <3> DEFINE x == <<r.registry, Resolve(runtime.auths, order[i], r.registry)>>
    <3>1. pulled' = pulled \cup {x}
      BY <2>1, <2>2
    <3>2. x[2] = Resolve(runtime.auths, order[i], x[1])
      OBVIOUS
    <3> HIDE DEF x
    <3> QED BY <2>1, <2>2, <3>1, <3>2 DEF StartInv, PulledFrom
  <2>5. CountedFrom'
    BY <2>1 DEF StartInv, CountedFrom
  <2>6. Derived' /\ Domains' /\ AnswersReady'
    BY <2>1 DEF StartInv, Derived, Domains, AnswersReady
  <2>7. \A j \in Instances : Configured(j)' /\ Wired(j)'
    BY <2>1 DEF StartInv, Configured, Wired
  <2> QED BY <2>3, <2>4, <2>5, <2>6, <2>7 DEF StartInv
<1>7. CASE UNCHANGED vars
  <2>1. Derived' /\ MirroredFrom' /\ PulledFrom' /\ CountedFrom'
    BY <1>7, HistoriesKept DEF vars
  <2> QED BY <1>7, <2>1 DEF vars, StartInv, Domains, Configured, Wired, AnswersReady
<1> QED BY <1>1, <1>2, <1>3, <1>4, <1>5, <1>6, <1>7 DEF Next, Refuse, Crash

LEMMA StartCorrect == Spec => []StartInv
BY StartInit, StartNext, PTL DEF Spec

(* No endpoint answers that its service is not ready, on any start of any  *)
(* number of instances.                                                    *)
THEOREM EndpointsReady == Spec => []AnswersReady
<1>1. StartInv => AnswersReady
  BY DEF StartInv
<1> QED BY StartCorrect, <1>1, PTL

-----------------------------------------------------------------------------
(* Settings. *)

LEMMA SettingIsNumber ==
  ASSUME NEW c \in Configurations, NEW v \in NumberVariables, NEW k \in NumberFields, NEW default \in Int
  PROVE  setting(c, v, k, default) \in Int \cup {Bad}
<1>1. CASE isSet(c, v)
  BY <1>1, ConfigurationAssumption DEF setting, isSet
<1>2. CASE ~isSet(c, v)
  <2>1. k \in DOMAIN Load(c.file) => Load(c.file)[k] = c.file[k] /\ k \in DOMAIN c.file
    BY DEF Load
  <2>2. fromFile(c, k, default) \in Int
    BY <2>1, ConfigurationAssumption DEF fromFile
  <2> QED BY <1>2, <2>2 DEF setting
<1> QED BY <1>1, <1>2

LEMMA NumbersAreNumbers ==
  ASSUME NEW c \in Configurations
  PROVE  \A k \in {"attempts", "workers", "backoff", "timeout", "cooldown", "resync"} :
           k \in DOMAIN numbers(c) /\ numbers(c)[k] \in Int \cup {Bad}
<1>1. /\ setting(c, "REGISTRY_RETRY_ATTEMPTS", "registryRetryAttempts", 3) \in Int \cup {Bad}
      /\ setting(c, "MAX_CONCURRENT_RECONCILES", "maxConcurrentReconciles", 2) \in Int \cup {Bad}
      /\ setting(c, "REGISTRY_RETRY_BACKOFF", "registryRetryBackoffSeconds", 10) \in Int \cup {Bad}
      /\ setting(c, "REGISTRY_REQUEST_TIMEOUT", "requestTimeoutSeconds", 300) \in Int \cup {Bad}
      /\ setting(c, "FAILURE_COOLDOWN_MINUTES", "failureCooldownMinutes", 60) \in Int \cup {Bad}
      /\ setting(c, "FORCE_RECONCILE_MINUTES", "forceReconcileMinutes", 0) \in Int \cup {Bad}
  BY SettingIsNumber DEF NumberVariables, NumberFields
<1> QED BY <1>1 DEF numbers

\* Accepted numbers are the ones the other modules assume.
LEMMA AcceptedIsSound ==
  ASSUME NEW c \in Configurations, accepted(c)
  PROVE  LET s == loadRuntimeConfig(c) IN
         /\ {s.attempts, s.workers} \subseteq Nat \ {0}
         /\ {s.backoff, s.timeout, s.cooldown, s.resync} \subseteq Nat
         /\ s.kind \in {"ecr", "docker"}
<1> DEFINE n == numbers(c)
           s == loadRuntimeConfig(c)
<1>1. \A k \in {"attempts", "workers", "backoff", "timeout", "cooldown", "resync"} : n[k] \in Int
  BY NumbersAreNumbers DEF accepted, validNumbers
<1>2. n.attempts > 0 /\ n.workers > 0 /\ n.backoff >= 0
  BY DEF accepted, validNumbers
<1>3. targetKind(c) \in {"ecr", "docker"}
  BY DEF accepted, targetComplete
<1>4. /\ s.attempts = n.attempts /\ s.workers = n.workers /\ s.backoff = n.backoff
      /\ s.timeout = durationFrom(n.timeout) /\ s.cooldown = durationFrom(n.cooldown)
      /\ s.resync = durationFrom(n.resync) /\ s.kind = targetKind(c)
  BY DEF loadRuntimeConfig
<1>5. \A x \in Int : durationFrom(x) \in Nat
  BY DEF durationFrom
<1> HIDE DEF n, s
<1> QED BY <1>1, <1>2, <1>3, <1>4, <1>5 DEF s

(* Whatever variables and file say, an instance that was not refused has   *)
(* at least one attempt and one worker, no negative time and a target kind *)
(* there is, after every restart.                                          *)
THEOREM SettingsAreSound == Spec => []SoundSettings
<1>1. ASSUME StartInv, NEW i \in Instances, pc[i] # "down"
      PROVE  conf \in Configurations /\ accepted(conf) /\ settings[i] = loadRuntimeConfig(conf)
  BY <1>1 DEF StartInv, Derived, Configured
<1>2. StartInv => SoundSettings
  BY <1>1, AcceptedIsSound DEF SoundSettings
<1> QED BY StartCorrect, <1>2, PTL

-----------------------------------------------------------------------------
(* Credentials. *)

\* Two orders of the wildcards disagree only where wildcards differ.
LEMMA OrdersAgree ==
  ASSUME NEW auths, IsFiniteSet(patterns(auths)), NEW o \in wildcardOrders(auths), NEW q \in wildcardOrders(auths),
         NEW registry, Resolve(auths, o, registry) # Resolve(auths, q, registry)
  PROVE  ambiguous(auths, lower(registry))
<1> DEFINE host == lower(registry)
           P == patterns(auths)
           n(x) == SelectInSeq(x, LAMBDA a : <<a, host>> \in Matching)
           exact == host \in DOMAIN auths \ P
<1>1. ASSUME NEW x \in wildcardOrders(auths)
      PROVE  x \in Seq(P) /\ \A a \in P : \E k \in 1..Len(x) : x[k] = a
  BY <1>1, OrderIsComplete DEF wildcardOrders
<1>2. ASSUME NEW x \in wildcardOrders(auths)
      PROVE  \/ exact /\ Resolve(auths, x, registry) = auths[host]
             \/ /\ ~exact /\ n(x) \in 1..Len(x) /\ <<x[n(x)], host>> \in Matching
                /\ Resolve(auths, x, registry) = auths[x[n(x)]]
             \/ /\ ~exact /\ \A k \in 1..Len(x) : <<x[k], host>> \notin Matching
                /\ Resolve(auths, x, registry) = anonymous
  <2> HIDE DEF host, P
  <2>1. \/ n(x) = 0 /\ \A k \in 1..Len(x) : <<x[k], host>> \notin Matching
        \/ n(x) \in 1..Len(x) /\ n(x) # 0 /\ <<x[n(x)], host>> \in Matching
    <3>1. x \in Seq(P)
      BY <1>1
    <3>2. \/ n(x) = 0 /\ \A k \in 1..Len(x) : <<x[k], host>> \notin Matching
          \/ n(x) \in 1..Len(x) /\ <<x[n(x)], host>> \in Matching
      BY <3>1, FirstMatch
    <3> HIDE DEF n
    <3> QED BY <3>1, <3>2
  <2>2. CASE exact
    BY <2>2 DEF Resolve, host, P
  <2>3. CASE ~exact /\ n(x) # 0
    <3>1. Resolve(auths, x, registry) = auths[x[n(x)]]
      BY <2>3 DEF Resolve, host, P
    <3> HIDE DEF n
    <3> QED BY <2>1, <2>3, <3>1
  <2>4. CASE ~exact /\ n(x) = 0
    <3>1. Resolve(auths, x, registry) = anonymous
      BY <2>4 DEF Resolve, host, P
    <3> HIDE DEF n
    <3> QED BY <2>1, <2>4, <3>1
  <2> QED BY <2>2, <2>3, <2>4
<1> HIDE DEF n, P, host
<1>3. ~exact
  BY <1>2
<1> DEFINE some(x) == \E k \in 1..Len(x) : <<x[k], host>> \in Matching
<1>4. ASSUME NEW x \in wildcardOrders(auths), NEW y \in wildcardOrders(auths), some(y) PROVE some(x)
  <2>1. PICK k \in 1..Len(y) : <<y[k], host>> \in Matching
    BY <1>4
  <2>2. y[k] \in P
    BY <1>1, ElementOfSeq
  <2>3. PICK j \in 1..Len(x) : x[j] = y[k]
    BY <1>1, <2>2
  <2> QED BY <2>1, <2>3
<1>5. some(o) /\ some(q)
  <2>1. ASSUME NEW x \in wildcardOrders(auths), ~some(x) PROVE Resolve(auths, x, registry) = anonymous
    BY <1>2, <1>3, <2>1
  <2> HIDE DEF some
  <2> QED BY <1>4, <2>1
<1>6. /\ Resolve(auths, o, registry) = auths[o[n(o)]] /\ o[n(o)] \in P /\ <<o[n(o)], host>> \in Matching
      /\ Resolve(auths, q, registry) = auths[q[n(q)]] /\ q[n(q)] \in P /\ <<q[n(q)], host>> \in Matching
  BY <1>1, <1>2, <1>3, <1>5, ElementOfSeq
<1> QED BY <1>3, <1>6 DEF ambiguous, P, host

(* Every instance, after every restart, asks a registry with the same      *)
(* credential, whatever order Go's map gives the wildcards, unless two     *)
(* wildcards with different credentials match and no exact name does.      *)
THEOREM CredentialsAreStable == Spec => []CredentialStable
<1> DEFINE creds == fromFile(conf, "registryCredentials", <<>>)
           auths == buildKeychainFromConfig(creds)
<1>1. ASSUME StartInv PROVE IsFiniteSet(patterns(auths))
  <2>1. CASE "registryCredentials" \in DOMAIN Load(conf.file)
    <3>1. creds = conf.file["registryCredentials"] /\ "registryCredentials" \in DOMAIN conf.file
      BY <2>1 DEF fromFile, Load
    <3>2. isSequence(creds) /\ \A n \in DOMAIN creds : IsFiniteSet(creds[n].aliases)
      BY <1>1, <3>1, ConfigurationAssumption DEF StartInv, Derived
    <3> HIDE DEF creds
    <3> QED BY <3>2, KeychainIsFinite
  <2>2. CASE "registryCredentials" \notin DOMAIN Load(conf.file)
    <3>1. creds = <<>>
      BY <2>2 DEF fromFile
    <3>2. <<>> \in Seq(ToSet(<<>>))
      BY EmptySeq
    <3>3. isSequence(creds)
      BY <3>1, <3>2 DEF isSequence
    <3>4. DOMAIN creds = {}
      BY <3>1
    <3> HIDE DEF creds
    <3> QED BY <3>3, <3>4, KeychainIsFinite
  <2> QED BY <2>1, <2>2
<1>2. ASSUME StartInv, runtime # None PROVE runtime.auths = auths
  BY <1>2 DEF StartInv, Derived, loadRuntimeConfig
<1>3. ASSUME StartInv, NEW p \in pulled, NEW q \in pulled, p[1] = q[1], p[2] # q[2]
      PROVE  ambiguous(auths, lower(p[1]))
  <2> HIDE DEF auths
  <2>1. PICK o \in wildcardOrders(auths) : p[2] = Resolve(auths, o, p[1])
    BY <1>2, <1>3 DEF StartInv, PulledFrom
  <2>2. PICK r \in wildcardOrders(auths) : q[2] = Resolve(auths, r, p[1])
    BY <1>2, <1>3 DEF StartInv, PulledFrom
  <2> QED BY <1>1, <1>3, <2>1, <2>2, OrdersAgree
<1>4. StartInv => CredentialStable
  BY <1>3 DEF CredentialStable
<1> QED BY StartCorrect, <1>4, PTL

-----------------------------------------------------------------------------
(* References. *)

(* A pull is counted for the registry it is made from, whatever the image  *)
(* looks like, but for the two spellings that LabelNamesRegistry names:    *)
(* registryLabel reads the text, the pull the parsed reference.            *)
THEOREM LabelsNameRegistries == Spec => []LabelNamesRegistry
<1>1. ASSUME StartInv, NEW c \in counted
      PROVE  c[2] = lower(metaRegistry(c[1])) \/ lower(c[1])[1] \in {"index.docker.io", "localhost"}
  <2>1. PICK w \in conf.workloads : c = <<w.image, routes[w].label>>
    BY <1>1 DEF StartInv, CountedFrom
  <2>2. c[1] = w.image /\ c[2] = registryLabel(w.image)
    BY <1>1, <2>1 DEF StartInv, Derived, route
  <2>3. isReference(w.image)
    BY <1>1, ConfigurationAssumption DEF StartInv, Derived
  <2> QED BY <2>2, <2>3, LabelOfReference
<1>2. StartInv => LabelNamesRegistry
  BY <1>1 DEF LabelNamesRegistry
<1> QED BY StartCorrect, <1>2, PTL

-----------------------------------------------------------------------------
(* Exclusions. *)

LEMMA NamedRegistry ==
  ASSUME NEW v, NEW h \in Dotted, isRegistry(v, h)
  PROVE  normalizeRegistryPrefix(v) = <<comparedAs(h)>>
<1>1. h \notin Schemes /\ h # "/"
  BY TokenAssumption
<1>2. PICK scheme \in {<<>>} \cup {<<t>> : t \in Schemes}, slash \in {<<>>, <<"/">>} :
        lower(v) = scheme \o <<h>> \o slash
  BY DEF isRegistry
<1>3. lower(v) \in {<<h>>, <<h, "/">>} \/ \E t \in Schemes : lower(v) \in {<<t, h>>, <<t, h, "/">>}
  <2>1. <<>> \o <<h>> = <<h>> /\ <<h>> \o <<>> = <<h>>
    OBVIOUS
  <2>2. <<h>> \o <<"/">> = <<h, "/">>
    BY ShortLists
  <2>3. ASSUME NEW t
        PROVE  <<t>> \o <<h>> = <<t, h>> /\ <<t, h>> \o <<"/">> = <<t, h, "/">> /\ <<t, h>> \o <<>> = <<t, h>>
    <3>1. <<t, h>> \o <<>> = <<t, h>>
      BY ConcatEmptySeq, <<t, h>> \in Seq({t, h})
    <3>2. <<t>> \o <<h>> = <<t, h>>
      BY ShortLists
    <3> QED BY <3>1, <3>2, PairAndOne, Zenon
  <2>4. CASE scheme = <<>>
    <3>1. lower(v) = <<h>> \o slash
      BY <1>2, <2>1, <2>4, Zenon
    <3> QED BY <2>1, <2>2, <3>1, Zenon
  <2>5. CASE scheme # <<>>
    <3>1. PICK t \in Schemes : scheme = <<t>>
      BY <2>5
    <3>2. lower(v) = <<t, h>> \o slash
      BY <1>2, <2>3, <3>1, Zenon
    <3>3. lower(v) \in {<<t, h>>, <<t, h, "/">>}
      BY <2>3, <3>2, Zenon
    <3> QED BY <3>3
  <2> QED BY <2>4, <2>5
<1>4. stripScheme(lower(v)) \in {<<h>>, <<h, "/">>}
  <2>1. CASE lower(v) \in {<<h>>, <<h, "/">>}
    BY <1>1, <2>1 DEF stripScheme
  <2>2. ASSUME NEW t \in Schemes, lower(v) \in {<<t, h>>, <<t, h, "/">>}
        PROVE  stripScheme(lower(v)) \in {<<h>>, <<h, "/">>}
    <3>1. Tail(<<t, h>>) = <<h>> /\ Tail(<<t, h, "/">>) = <<h, "/">>
      BY ShortLists
    <3>2. stripScheme(lower(v)) = Tail(lower(v))
      BY <2>2 DEF stripScheme
    <3> QED BY <2>2, <3>1, <3>2, Zenon
  <2> QED BY <1>3, <2>1, <2>2
<1>5. trimSlash(<<h>>) = <<h>> /\ trimSlash(<<h, "/">>) = <<h>>
  <2>1. SubSeq(<<h, "/">>, 1, 1) = <<h>>
    BY ShortLists
  <2>2. trimSlash(<<h>>) = <<h>>
    BY <1>1 DEF trimSlash, Last
  <2>3. Len(<<h, "/">>) - 1 = 1 /\ <<h, "/">> # <<>> /\ Last(<<h, "/">>) = "/"
    BY DEF Last
  <2>4. trimSlash(<<h, "/">>) = SubSeq(<<h, "/">>, 1, 1)
    BY <2>3, Zenon DEF trimSlash, Front
  <2> QED BY <2>1, <2>2, <2>4, Zenon
<1>6. trimSlash(stripScheme(lower(v))) = <<h>>
  BY <1>4, <1>5, Zenon
<1>7. ~underHub(<<h>>) /\ <<"docker.io">> \o Tail(<<h>>) = <<"docker.io">>
  BY DEF underHub
<1>8. <<h>> = <<"index.docker.io">> <=> h = "index.docker.io"
  OBVIOUS
<1> QED BY <1>6, <1>7, <1>8, Zenon DEF normalizeRegistryPrefix, comparedAs

(* No image of an excluded registry is mirrored, by any instance and after *)
(* any restart, for every spelling of the exclusion and of the image:      *)
(* normalizeRegistryPrefix and normalizeImageReference bring both to the   *)
(* same first name, and a slash follows it in the image.                   *)
THEOREM ExcludedAreNeverMirrored == Spec => []ExcludedNeverMirrored
<1> DEFINE L == resolveList(conf, "EXCLUDE_REGISTRIES", "excludeRegistries")
<1>1. ASSUME StartInv, NEW m \in mirrored, NEW v \in ToSet(L), NEW h \in Dotted, isRegistry(v, h),
             \/ lower(registryStr(m[2].image)) = <<h>>
             \/ lower(registryStr(m[2].image)) = hub /\ h = "docker.io"
      PROVE  FALSE
  <2> DEFINE image == m[2].image
             r == normalizeImageReference(image)
             p == <<comparedAs(h)>>
  <2>1. isReference(image) /\ runtime # None /\ ~routes[m[2]].excluded
    BY <1>1, ConfigurationAssumption DEF StartInv, Derived, MirroredFrom
  <2>2. ~matchExcludedRegistry(image, runtime.excluded)
    BY <1>1, <2>1 DEF StartInv, Derived, MirroredFrom, route
  <2>3. runtime.excluded = normalizeExcludedRegistries(L)
    BY <1>1, <2>1 DEF StartInv, Derived, loadRuntimeConfig
  <2>4. p \in runtime.excluded
    <3>1. normalizeRegistryPrefix(v) = p
      BY <1>1, NamedRegistry
    <3> QED BY <1>1, <2>3, <3>1 DEF normalizeExcludedRegistries
  <2>5. Len(r) \in Nat /\ Len(r) >= 2 /\ r[1] = comparedAs(h) /\ r[2] = "/"
    BY <1>1, <2>1, PulledImage
  <2>6. IsPrefix(p, r) /\ Len(p) = 1 /\ p # <<>>
    <3> HIDE DEF r
    <3> QED BY <2>5 DEF IsPrefix
  <2>7. hasBoundaryPrefix(r, p)
    BY <2>5, <2>6 DEF hasBoundaryPrefix
  <2> QED BY <2>2, <2>4, <2>7 DEF matchExcludedRegistry
<1>2. StartInv => ExcludedNeverMirrored
  BY <1>1 DEF ExcludedNeverMirrored
<1> QED BY StartCorrect, <1>2, PTL

-----------------------------------------------------------------------------
(* Repositories. *)

LEMMA TrimSlashProperties ==
  ASSUME NEW S, NEW s \in Seq(S), s # <<>>, ~doubled(s)
  PROVE  /\ trimSlash(s) \in Seq(S) /\ ~doubled(trimSlash(s))
         /\ trimSlash(s) # <<>> => Last(trimSlash(s)) # "/"
<1> DEFINE N == Len(s)
           t == SubSeq(s, 1, N - 1)
<1>1. N \in Nat \ {0} /\ \A n \in 2..N : ~(s[n - 1] = "/" /\ s[n] = "/")
  BY EmptySeq DEF doubled
<1>2. t \in Seq(S) /\ Len(t) = N - 1 /\ \A n \in 1..(N - 1) : t[n] = s[n]
  <2> DEFINE M == N - 1
  <2>1. M \in 0..N /\ N \in Nat
    BY <1>1
  <2> HIDE DEF M
  <2>2. SubSeq(s, 1, M) \in Seq(S) /\ Len(SubSeq(s, 1, M)) = M /\ \A n \in 1..M : SubSeq(s, 1, M)[n] = s[n]
    BY <2>1
  <2> QED BY <2>2 DEF M
<1>3. trimSlash(s) = IF s[N] = "/" THEN t ELSE s
  BY DEF trimSlash, Last, Front
<1> HIDE DEF t
<1>4. CASE s[N] = "/"
  <2>1. ~doubled(t)
    <3>1. ASSUME NEW n \in 2..Len(t), t[n - 1] = "/", t[n] = "/" PROVE FALSE
      <4>1. n \in 2..N /\ n \in 1..(N - 1) /\ n - 1 \in 1..(N - 1)
        BY <1>1, <1>2
      <4> QED BY <1>1, <1>2, <3>1, <4>1
    <3> QED BY <3>1 DEF doubled
  <2>2. t # <<>> => Last(t) # "/"
    <3>1. t # <<>> => N - 1 # 0
      BY <1>2, EmptySeq
    <3>2. N - 1 # 0 => t[N - 1] # "/"
      BY <1>1, <1>2, <1>4
    <3> QED BY <1>2, <3>1, <3>2 DEF Last
  <2> QED BY <1>2, <1>3, <1>4, <2>1, <2>2
<1>5. CASE s[N] # "/"
  BY <1>3, <1>5 DEF Last
<1> QED BY <1>4, <1>5

\* What a rule that applies makes of a path.
LEMMA RewriteProperties ==
  ASSUME NEW m, isRule(m), m.regex => m.valid, NEW p, isSequence(p), applies(m, p)
  PROVE  isSequence(rewrite(m, p)) /\ (doubled(rewrite(m, p)) => gapped(p) \/ doublesSlash(m))
<1>1. CASE m.regex
  <2>1. rewrite(m, p) = m.rewrites[p] /\ p \in DOMAIN m.rewrites
    BY <1>1 DEF rewrite, applies
  <2> QED BY <1>1, <2>1 DEF isRule, doublesSlash
<1>2. CASE ~m.regex
  <2> DEFINE from == m.from
             to == m.to
             K == Len(from)
             rest == SubSeq(p, K + 1, Len(p))
             front == trimSlash(to)
             x == (front \o <<"/">>) \o rest
             T == ToSet(p) \cup ToSet(to) \cup {"/"}
  <2>1. isSequence(from) /\ isSequence(to) /\ IsPrefix(from, p)
    BY <1>2 DEF isRule, applies
  <2>2. rewrite(m, p) = IF to = <<>> THEN rest ELSE x
    BY <1>2 DEF rewrite
  <2>3. doublesSlash(m) <=> to # <<>> /\ (doubled(to) \/ (from # <<>> /\ Last(from) # "/"))
    BY <1>2 DEF doublesSlash
  <2>4. p \in Seq(T) /\ to \in Seq(T) /\ "/" \in T
    <3>1. ToSet(p) \subseteq T /\ ToSet(to) \subseteq T /\ "/" \in T
      OBVIOUS
    <3>2. p \in Seq(ToSet(p)) /\ to \in Seq(ToSet(to))
      BY <2>1 DEF isSequence
    <3> HIDE DEF T, to
    <3> QED BY <3>1, <3>2, SeqMonotonic
  <2> HIDE DEF T, from, to
  <2>5. K \in Nat /\ K <= Len(p) /\ Len(p) \in Nat /\ \A n \in 1..K : from[n] = p[n]
    <3>1. from \in Seq(ToSet(from))
      BY <2>1 DEF isSequence
    <3>2. K \in Nat /\ Len(p) \in Nat
      BY <2>4, <3>1
    <3>3. K <= Len(p) /\ from = SubSeq(p, 1, K)
      BY <2>1, <2>4, <3>1, <3>2 DEF IsPrefix
    <3>4. \A n \in 1..K : SubSeq(p, 1, K)[n] = p[n]
      BY <2>4, <3>2, <3>3
    <3> QED BY <3>2, <3>3, <3>4
  <2>6. /\ rest \in Seq(T) /\ Len(rest) \in Nat /\ Len(rest) = Len(p) - K
        /\ \A n \in 1..Len(rest) : rest[n] = p[K + n]
    BY <2>4, <2>5
  <2> HIDE DEF rest
  <2>7. isSequence(rest) /\ (doubled(rest) => doubled(p))
    <3>1. within(rest, p)
      BY <2>5, <2>6 DEF within
    <3> QED BY <2>4, <2>6, <3>1, SeqIsSequence, WithinKeepsSegments
  <2>8. CASE to = <<>>
    BY <2>2, <2>7, <2>8 DEF gapped
  <2>9. CASE to # <<>> /\ doubled(to)
    <3>1. isSequence(x)
      <4>1. front \in Seq(T)
        BY <2>4, <2>9, EmptySeq DEF trimSlash, Last, Front
      <4> HIDE DEF front
      <4>2. x \in Seq(T)
        BY <2>4, <2>6, <4>1
      <4> QED BY <4>2, SeqIsSequence
    <3> HIDE DEF x
    <3> QED BY <2>2, <2>3, <2>9, <3>1
  <2>10. CASE to # <<>> /\ ~doubled(to)
    <3> DEFINE J == Len(front)
    <3>1. front \in Seq(T) /\ ~doubled(front) /\ (front # <<>> => Last(front) # "/")
      BY <2>4, <2>10, TrimSlashProperties
    <3> HIDE DEF front
    <3>2. J \in Nat /\ \A n \in 2..J : ~(front[n - 1] = "/" /\ front[n] = "/")
      BY <3>1 DEF doubled
    <3>3. J # 0 => front[J] # "/"
      BY <3>1, EmptySeq DEF Last
    <3>4. /\ x \in Seq(T) /\ Len(x) = J + 1 + Len(rest) /\ x[J + 1] = "/"
          /\ \A n \in 1..J : x[n] = front[n]
          /\ \A n \in (J + 2)..(J + 1 + Len(rest)) : x[n] = rest[n - (J + 1)]
      <4> DEFINE y == front \o <<"/">>
      <4>1. y \in Seq(T) /\ Len(y) = J + 1 /\ y[J + 1] = "/" /\ \A n \in 1..J : y[n] = front[n]
        BY <2>4, <3>1, <3>2
      <4> HIDE DEF y, J
      <4>2. /\ y \o rest \in Seq(T) /\ Len(y \o rest) = Len(y) + Len(rest)
            /\ \A n \in 1..(Len(y) + Len(rest)) : (y \o rest)[n] = IF n <= Len(y) THEN y[n] ELSE rest[n - Len(y)]
        BY <2>6, <4>1, ConcatProperties, Zenon
      <4>3. x = y \o rest
        BY DEF y
      <4> HIDE DEF x
      <4>4. /\ x \in Seq(T) /\ Len(x) = J + 1 + Len(rest)
            /\ \A n \in 1..(J + 1 + Len(rest)) : x[n] = IF n <= J + 1 THEN y[n] ELSE rest[n - (J + 1)]
        BY <4>1, <4>2, <4>3
      <4> DEFINE L == Len(rest)
      <4>5. J \in Nat /\ L \in Nat
        BY <2>6, <3>2
      <4> HIDE DEF L
      <4>6. \A n \in 1..(J + 1) : n \in 1..(J + 1 + L)
        BY <4>5
      <4>7. \A n \in 1..(J + 1) : x[n] = y[n]
        BY <4>4, <4>5, <4>6 DEF L
      <4>8. J + 1 \in 1..(J + 1) /\ \A n \in 1..J : n \in 1..(J + 1)
        BY <4>5
      <4>9. \A n \in (J + 2)..(J + 1 + L) : n \in 1..(J + 1 + L) /\ ~(n <= J + 1)
        BY <4>5
      <4>10. \A n \in (J + 2)..(J + 1 + L) : x[n] = rest[n - (J + 1)]
        BY <4>4, <4>9 DEF L
      <4> QED BY <4>1, <4>4, <4>7, <4>8, <4>10 DEF L
    <3> HIDE DEF x, J
    <3>5. isSequence(x)
      BY <3>4, SeqIsSequence
    <3>6. ASSUME NEW n \in 2..Len(x), x[n - 1] = "/", x[n] = "/" PROVE gapped(p) \/ doublesSlash(m)
      <4>1. n > J + 1
        BY <3>2, <3>3, <3>4, <3>6
      <4>2. CASE n = J + 2
        <5>1. Len(rest) # 0 /\ rest[1] = "/"
          BY <2>6, <3>2, <3>4, <3>6, <4>2
        <5>2. K + 1 \in 1..Len(p) /\ p[K + 1] = "/"
          BY <2>5, <2>6, <5>1
        <5>3. CASE K = 0
          BY <2>4, <5>2, <5>3, EmptySeq DEF gapped
        <5>4. CASE K # 0
          <6>1. from # <<>>
            BY <5>4
          <6>2. CASE Last(from) # "/"
            BY <2>3, <2>10, <6>1, <6>2
          <6>3. CASE Last(from) = "/"
            <7>1. p[K] = "/" /\ K + 1 \in 2..Len(p) /\ (K + 1) - 1 = K
              BY <2>5, <5>2, <5>4, <6>3 DEF Last
            <7> QED BY <5>2, <7>1 DEF gapped, doubled
          <6> QED BY <6>2, <6>3
        <5> QED BY <5>3, <5>4
      <4>3. CASE n # J + 2
        <5> DEFINE k == n - (J + 1)
        <5>1. n \in (J + 2)..(J + 1 + Len(rest)) /\ n - 1 \in (J + 2)..(J + 1 + Len(rest)) /\ (n - 1) - (J + 1) = k - 1
          BY <2>6, <3>2, <3>4, <4>1, <4>3
        <5>2. k \in 2..Len(rest)
          BY <2>6, <3>2, <5>1
        <5>3. rest[k - 1] = "/" /\ rest[k] = "/"
          BY <3>4, <3>6, <5>1
        <5> QED BY <2>7, <5>2, <5>3 DEF doubled, gapped
      <4> QED BY <4>2, <4>3
    <3> QED BY <2>2, <2>10, <3>5, <3>6 DEF doubled
  <2> QED BY <2>8, <2>9, <2>10
<1> QED BY <1>1, <1>2

LEMMA MappedProperties ==
  ASSUME NEW rules, isSequence(rules), \A n \in DOMAIN rules : isRule(rules[n]), NEW p, isSequence(p)
  PROVE  /\ isSequence(mapped(rules, p))
         /\ doubled(mapped(rules, p)) => gapped(p) \/ \E rule \in ToSet(rules) : doublesSlash(rule)
<1> DEFINE V == {m \in ToSet(rules) : ~m.regex \/ m.valid}
           c == compiled(rules)
           I == {k \in 1..Len(c) : applies(c[k], p)}
           n == SelectInSeq(c, LAMBDA m : applies(m, p))
<1>1. c \in Seq(ToSet(rules)) /\ ToSet(c) = ToSet(rules) \cap V
  BY KeepProperties DEF isSequence, compiled
<1>2. mapped(rules, p) = IF n = 0 THEN p ELSE rewrite(c[n], p)
  BY DEF mapped
<1>3. \A m \in ToSet(c) : m \in ToSet(rules) /\ (m.regex => m.valid) /\ isRule(m)
  BY <1>1 DEF ToSet
<1> HIDE DEF c
<1>4. n = 0 \/ n \in I
  <2>1. I \in SUBSET Nat
    OBVIOUS
  <2>2. n = IF I # {} THEN Min(I) ELSE 0
    BY DEF SelectInSeq
  <2> HIDE DEF I, n
  <2>3. I # {} => Min(I) \in I
    <3>1. I # {} => \E x \in I : \A y \in I : x <= y
      BY <2>1, LeastElement
    <3> QED BY <3>1 DEF Min
  <2> QED BY <2>2, <2>3
<1> HIDE DEF n
<1>5. CASE n = 0
  BY <1>2, <1>5 DEF gapped
<1>6. CASE n # 0
  <2>1. n \in 1..Len(c) /\ applies(c[n], p)
    BY <1>4, <1>6
  <2>2. c[n] \in ToSet(c)
    BY <1>1, <2>1, InToSet
  <2>3. c[n] \in ToSet(rules) /\ (c[n].regex => c[n].valid) /\ isRule(c[n])
    BY <1>3, <2>2
  <2>4. isSequence(rewrite(c[n], p)) /\ (doubled(rewrite(c[n], p)) => gapped(p) \/ doublesSlash(c[n]))
    BY <2>1, <2>3, RewriteProperties
  <2> QED BY <1>2, <1>6, <2>3, <2>4
<1> QED BY <1>5, <1>6

\* The rules of a configuration, and what they and CleanRepoName make of a workload's image.
rules(c) == fromFile(c, "pathMap", <<>>)

inner(c, w) == mapped(rules(c), repositoryStr(w.image))

cleanedName(c, w) == CleanRepoName(inner(c, w))

mayDouble(c, w) == doubled(w.image) \/ \E rule \in ToSet(rules(c)) : doublesSlash(rule)

LEMMA InnerProperties ==
  ASSUME NEW c \in Configurations, NEW w \in c.workloads
  PROVE  isSequence(inner(c, w)) /\ (doubled(inner(c, w)) => mayDouble(c, w))
<1>1. isReference(w.image)
  BY ConfigurationAssumption
<1>2. isSequence(repositoryStr(w.image)) /\ (gapped(repositoryStr(w.image)) => doubled(w.image))
  BY <1>1, RepositoryProperties
<1>3. isSequence(rules(c)) /\ \A n \in DOMAIN rules(c) : isRule(rules(c)[n])
  BY RouteAssumption DEF rules
<1> QED BY <1>2, <1>3, MappedProperties DEF inner, mayDouble

LEMMA CleanedProperties ==
  ASSUME NEW c \in Configurations, NEW w \in c.workloads
  PROVE  acceptable(cleanedName(c, w)) /\ (doubled(cleanedName(c, w)) => mayDouble(c, w))
<1>1. spelled(inner(c, w)) \in sourceNames(c)
  BY DEF inner, rules, sourceNames
<1>2. Digest(spelled(inner(c, w))) \notin Separators \cup Unusual \cup DOMAIN LowerCase
  BY <1>1, DigestAssumption
<1> QED BY <1>2, InnerProperties, CleanProperties DEF cleanedName

LEMMA MetaProperties ==
  ASSUME NEW c \in Configurations, NEW w \in c.workloads
  PROVE  \A k \in DOMAIN meta(w) : isSequence(meta(w)[k])
<1>1. isReference(w.image) /\ isSequence(ArchOrder)
  BY ConfigurationAssumption, RouteAssumption
<1>2. isSequence(w.namespace) /\ isSequence(w.name) /\ w.index \in BOOLEAN /\ isSequence(w.archs)
  BY RouteAssumption DEF isName
<1>3. isSequence(metaRegistry(w.image))
  BY <1>1, RegistryIsSequence
<1>4. isSequence(resolveArchitecture(w.index, w.archs, ArchOrder))
  BY <1>1, <1>2, ArchitectureIsSequence
<1>5. isSequence(<<"main">>)
  <2>1. <<"main">> \in Seq({"main"})
    OBVIOUS
  <2> QED BY <2>1, SeqIsSequence
<1> QED BY <1>2, <1>3, <1>4, <1>5 DEF meta

\* The name with its prefix, before it is cut.
fullName(c, w) == combined(repoPrefix(c), cleanedName(c, w), meta(w))

repositoryOf(c, w) == resolveRepoPath(rules(c), repoPrefix(c), repositoryStr(w.image), meta(w))

LEMMA RepositoryCases ==
  ASSUME NEW c \in Configurations, NEW w \in c.workloads
  PROVE  LET e == expandRepoPrefix(repoPrefix(c), meta(w)) IN
         /\ isSequence(e) /\ segmented(e)
         /\ repositoryOf(c, w) = IF e = <<>> THEN cleanedName(c, w) ELSE CleanRepoName(fullName(c, w))
         /\ fullName(c, w) = (e \o <<"/">>) \o cleanedName(c, w)
         /\ spelled(fullName(c, w)) \in prefixedNames(c)
<1> DEFINE e == expandRepoPrefix(repoPrefix(c), meta(w))
<1>1. isSequence(e) /\ segmented(e)
  BY RouteAssumption, MetaProperties, ExpandedProperties
<1>2. repositoryOf(c, w) = IF e = <<>> THEN cleanedName(c, w) ELSE CleanRepoName(fullName(c, w))
  BY DEF repositoryOf, resolveRepoPath, NewRepoPathTransformer, fullName, cleanedName, inner
<1>3. fullName(c, w) = (e \o <<"/">>) \o cleanedName(c, w)
  BY DEF fullName, combined
<1>4. spelled(fullName(c, w)) \in prefixedNames(c)
  BY DEF fullName, cleanedName, inner, rules, prefixedNames, NewRepoPathTransformer
<1> QED BY <1>1, <1>2, <1>3, <1>4

LEMMA ResolvedProperties ==
  ASSUME NEW c \in Configurations, NEW w \in c.workloads
  PROVE  acceptable(repositoryOf(c, w)) /\ (doubled(repositoryOf(c, w)) => mayDouble(c, w))
<1> DEFINE e == expandRepoPrefix(repoPrefix(c), meta(w))
           x == fullName(c, w)
           n == cleanedName(c, w)
<1>1. /\ isSequence(e) /\ segmented(e) /\ x = (e \o <<"/">>) \o n /\ spelled(x) \in prefixedNames(c)
      /\ repositoryOf(c, w) = IF e = <<>> THEN n ELSE CleanRepoName(x)
  BY RepositoryCases
<1>2. acceptable(n) /\ (doubled(n) => mayDouble(c, w))
  BY CleanedProperties
<1> HIDE DEF e, x, n
<1>3. CASE e = <<>>
  BY <1>1, <1>2, <1>3
<1>4. CASE e # <<>>
  <2>1. isSequence(n) /\ Len(n) # 0 /\ n[1] # "/"
    BY <1>2 DEF acceptable, Separators
  <2>2. isSequence(x) /\ (doubled(x) => doubled(n))
    BY <1>1, <1>4, <2>1, UnderPrefix
  <2>3. Digest(spelled(x)) \notin Separators \cup Unusual \cup DOMAIN LowerCase
    BY <1>1, DigestAssumption
  <2>4. acceptable(CleanRepoName(x)) /\ (doubled(CleanRepoName(x)) => doubled(x))
    BY <2>2, <2>3, CleanProperties
  <2> QED BY <1>1, <1>2, <1>4, <2>2, <2>4
<1> QED BY <1>3, <1>4

LEMMA MirroredRepository ==
  ASSUME StartInv, NEW m \in mirrored
  PROVE  conf \in Configurations /\ m[2] \in conf.workloads /\ m[1] = repositoryOf(conf, m[2])
<1>1. conf \in Configurations /\ m[2] \in conf.workloads /\ runtime # None /\ m[1] = routes[m[2]].repository
  BY DEF StartInv, Derived, MirroredFrom
<1>2. runtime.mappings = rules(conf) /\ runtime.prefix = repoPrefix(conf)
  BY <1>1 DEF StartInv, Derived, loadRuntimeConfig, rules
<1>3. routes[m[2]].repository = resolveRepoPath(runtime.mappings, runtime.prefix, repositoryStr(m[2].image), meta(m[2]))
  BY <1>1 DEF StartInv, Derived, route
<1> QED BY <1>1, <1>2, <1>3 DEF repositoryOf

(* Every repository that is pushed to has a name the target can accept,    *)
(* for every image, prefix, list of rules and length of the name: trimming *)
(* and spelling come before the cut, and what is cut off leaves a name     *)
(* again.  Empty segments come from the image or from a rule of pathMap,   *)
(* never from the prefix, its placeholders or the cut.                     *)
THEOREM RepositoriesAreClean == Spec => []RepositoriesClean
<1>1. ASSUME StartInv PROVE RepositoriesClean
  <2>1. ASSUME NEW m \in mirrored
        PROVE  LET r == m[1] IN
               /\ Len(r) \in 1..MaxRepoName
               /\ {r[1], Last(r)} \cap Separators = {}
               /\ ToSet(r) \cap (Unusual \cup DOMAIN LowerCase) = {}
               /\ doubled(r) => doubled(m[2].image)
                                \/ \E rule \in ToSet(fromFile(conf, "pathMap", <<>>)) : doublesSlash(rule)
    <3> DEFINE r == m[1]
    <3>1. acceptable(r) /\ (doubled(r) => mayDouble(conf, m[2]))
      BY <1>1, MirroredRepository, ResolvedProperties
    <3>2. Len(r) \in 1..MaxRepoName /\ {r[1], Last(r)} \cap Separators = {}
      BY <3>1 DEF acceptable
    <3>3. ToSet(r) \cap (Unusual \cup DOMAIN LowerCase) = {}
      <4>1. r \in Seq(ToSet(r)) /\ \A n \in 1..Len(r) : r[n] \notin Unusual \cup DOMAIN LowerCase
        BY <3>1 DEF acceptable, allowedOnly, isSequence
      <4> QED BY <4>1, InToSet
    <3> QED BY <3>1, <3>2, <3>3 DEF mayDouble, rules
  <2> QED BY <2>1 DEF RepositoriesClean
<1> QED BY StartCorrect, <1>1, PTL

-----------------------------------------------------------------------------
(* Workloads under a prefix of namespace and pod name. *)

byPod == <<"$namespace", "/", "$podname">>

LEMMA NameProperties ==
  ASSUME NEW s, isName(s)
  PROVE  oneSegment(s) /\ allowedOnly(s) /\ s[1] \notin Separators
<1>1. isSequence(s) /\ s # <<>> /\ ToSet(s) \cap ({"/"} \cup Unusual \cup DOMAIN LowerCase) = {} /\ s[1] \notin Separators
  BY DEF isName
<1>2. oneSegment(s)
  BY <1>1 DEF oneSegment
<1>3. allowedOnly(s)
  BY <1>1, <1>2, OneSegmentProperties DEF allowedOnly
<1> QED BY <1>1, <1>2, <1>3

LEMMA PodPrefix ==
  ASSUME NEW c \in Configurations, NEW w \in c.workloads, repoPrefix(c) = byPod
  PROVE  expandRepoPrefix(repoPrefix(c), meta(w)) = (w.namespace \o <<"/">>) \o w.name
<1> DEFINE a == "$namespace"
           b == "$podname"
           f == meta(w)
<1>1. a \in DOMAIN f /\ b \in DOMAIN f /\ "/" \notin DOMAIN f /\ f[a] = w.namespace /\ f[b] = w.name
  BY DEF meta
<1>2. oneSegment(w.namespace) /\ oneSegment(w.name)
  BY RouteAssumption, NameProperties
<1>3. repoPrefix(c) = <<a, "/", b>>
  BY DEF byPod
<1> HIDE DEF a, b, f
<1>4. expandRepoPrefix(<<a, "/", b>>, f) = (f[a] \o <<"/">>) \o f[b]
  BY <1>1, <1>2, ExpandedPair
<1> QED BY <1>1, <1>3, <1>4 DEF f

\* The name is as the registry may have it before the cut, which is all that CleanRepoName does to it.
LEMMA PodRepository ==
  ASSUME NEW c \in Configurations, NEW w \in c.workloads, repoPrefix(c) = byPod
  PROVE  LET x == fullName(c, w)
             n == cleanedName(c, w)
         IN  /\ x = (((w.namespace \o <<"/">>) \o w.name) \o <<"/">>) \o n
             /\ isSequence(n) /\ Len(n) \in Nat /\ Len(x) \in Nat /\ Len(x) > Len(n) /\ Last(x) = Last(n)
             /\ x \in prefixedNames(c)
             /\ repositoryOf(c, w) = IF Len(x) > MaxRepoName THEN shortened(x) ELSE x
             /\ Len(x) > MaxRepoName => Last(shortened(x)) = Digest(x)
<1> DEFINE x == fullName(c, w)
           n == cleanedName(c, w)
           ns == w.namespace
           pod == w.name
           e == (ns \o <<"/">>) \o pod
           T == ToSet(ns) \cup ToSet(pod) \cup ToSet(n) \cup {"/"}
<1>1. oneSegment(ns) /\ allowedOnly(ns) /\ ns[1] \notin Separators /\ oneSegment(pod) /\ allowedOnly(pod)
  BY RouteAssumption, NameProperties
<1>2. acceptable(n)
  BY CleanedProperties
<1>3. expandRepoPrefix(repoPrefix(c), meta(w)) = e
  BY PodPrefix
<1>4. /\ isSequence(e) /\ segmented(e) /\ x = (e \o <<"/">>) \o n /\ spelled(x) \in prefixedNames(c)
      /\ repositoryOf(c, w) = IF e = <<>> THEN n ELSE CleanRepoName(x)
  <2> HIDE DEF e, x, n
  <2> QED BY <1>3, RepositoryCases DEF x, n
<1> HIDE DEF x, n, ns, pod
<1>5. ns \in Seq(T) /\ pod \in Seq(T) /\ n \in Seq(T) /\ "/" \in T
  <2>1. ToSet(ns) \subseteq T /\ ToSet(pod) \subseteq T /\ ToSet(n) \subseteq T /\ "/" \in T
    OBVIOUS
  <2>2. ns \in Seq(ToSet(ns)) /\ pod \in Seq(ToSet(pod)) /\ n \in Seq(ToSet(n))
    BY <1>1, <1>2 DEF oneSegment, acceptable, isSequence
  <2> HIDE DEF T
  <2> QED BY <2>1, <2>2, SeqMonotonic
<1> HIDE DEF T
<1>6. Len(ns) \in Nat \ {0} /\ Len(pod) \in Nat /\ Len(n) \in Nat \ {0}
  BY <1>1, <1>2, <1>5, OneSegmentProperties DEF acceptable
<1>7. allowedOnly(<<"/">>) /\ <<"/">> \in Seq(T)
  <2>1. "/" \notin Unusual \cup DOMAIN LowerCase
    BY SpellingAssumption DEF Separators
  <2>2. <<"/">> \in Seq(T) /\ Len(<<"/">>) = 1 /\ <<"/">>[1] = "/"
    BY <1>5
  <2> QED BY <2>1, <2>2 DEF allowedOnly
<1>8. e \in Seq(T) /\ allowedOnly(e) /\ Len(e) # 0 /\ e[1] = ns[1]
  <2> DEFINE y == ns \o <<"/">>
  <2>1. y \in Seq(T) /\ allowedOnly(y)
    BY <1>1, <1>5, <1>7, AllowedConcat, ConcatProperties
  <2>2. Len(y) = Len(ns) + 1 /\ y[1] = ns[1]
    BY <1>5, <1>6
  <2> HIDE DEF y
  <2>3. y \o pod \in Seq(T) /\ allowedOnly(y \o pod)
    BY <1>1, <1>5, <2>1, AllowedConcat, ConcatProperties
  <2>4. Len(y \o pod) # 0 /\ (y \o pod)[1] = y[1]
    BY <1>5, <1>6, <2>1, <2>2
  <2> QED BY <2>2, <2>3, <2>4 DEF y
<1>9. e # <<>>
  BY <1>8
<1> HIDE DEF e
<1>10. isSequence(x) /\ Len(x) = Len(e) + 1 + Len(n) /\ Last(x) = Last(n)
  BY <1>2, <1>4, <1>6, <1>9, UnderPrefix DEF acceptable, Separators
<1>11. allowedOnly(x) /\ x[1] = ns[1]
  <2> DEFINE y == e \o <<"/">>
  <2>1. y \in Seq(T) /\ allowedOnly(y)
    BY <1>7, <1>8, AllowedConcat, ConcatProperties
  <2>2. Len(y) # 0 /\ y[1] = e[1]
    BY <1>5, <1>8
  <2>3. x = y \o n
    BY <1>4
  <2> HIDE DEF y
  <2>4. allowedOnly(y \o n)
    BY <1>2, <1>5, <2>1, AllowedConcat DEF acceptable
  <2>5. (y \o n)[1] = y[1]
    BY <1>5, <2>1, <2>2
  <2> QED BY <1>8, <2>2, <2>3, <2>4, <2>5
<1>12. Len(x) \in Nat /\ Len(x) > Len(n) /\ x # <<>>
  <2>1. Len(e) \in Nat
    BY <1>8
  <2>2. Len(x) \in Nat /\ Len(x) > Len(n) /\ Len(x) # 0
    BY <1>6, <1>10, <2>1
  <2> QED BY <2>2
<1>13. spelled(x) = x
  BY <1>1, <1>2, <1>10, <1>11, <1>12, SpelledProperties DEF acceptable
<1>14. repositoryOf(c, w) = IF Len(x) > MaxRepoName THEN shortened(x) ELSE x
  BY <1>4, <1>9, <1>12, <1>13 DEF CleanRepoName
<1>15. Len(x) > MaxRepoName => Last(shortened(x)) = Digest(x)
  <2>1. Digest(x) \notin Separators \cup Unusual \cup DOMAIN LowerCase
    BY <1>4, <1>13, DigestAssumption
  <2> QED BY <1>1, <1>10, <1>11, <2>1, ShortenedProperties
<1>16. isSequence(n)
  BY <1>2 DEF acceptable
<1> QED BY <1>4, <1>6, <1>10, <1>12, <1>13, <1>14, <1>15, <1>16 DEF x, n, e, ns, pod

\* Neither part of the prefix has a slash, so the first two slashes tell them apart.
LEMMA SameFullName ==
  ASSUME NEW c \in Configurations, NEW v \in c.workloads, NEW w \in c.workloads, repoPrefix(c) = byPod,
         fullName(c, v) = fullName(c, w)
  PROVE  v.namespace = w.namespace /\ v.name = w.name
<1> DEFINE a1 == v.namespace
           b1 == v.name
           n1 == cleanedName(c, v)
           a2 == w.namespace
           b2 == w.name
           n2 == cleanedName(c, w)
           T == ToSet(a1) \cup ToSet(b1) \cup ToSet(n1) \cup ToSet(a2) \cup ToSet(b2) \cup ToSet(n2) \cup {"/"}
<1>1. oneSegment(a1) /\ oneSegment(b1) /\ oneSegment(a2) /\ oneSegment(b2)
  BY RouteAssumption, NameProperties
<1>2. isSequence(n1) /\ isSequence(n2)
  BY PodRepository
<1>3. (((a1 \o <<"/">>) \o b1) \o <<"/">>) \o n1 = (((a2 \o <<"/">>) \o b2) \o <<"/">>) \o n2
  BY PodRepository
<1> HIDE DEF a1, b1, n1, a2, b2, n2
<1>4. /\ a1 \in Seq(T) /\ b1 \in Seq(T) /\ n1 \in Seq(T) /\ a2 \in Seq(T) /\ b2 \in Seq(T) /\ n2 \in Seq(T)
      /\ "/" \in T
  <2>1. /\ ToSet(a1) \subseteq T /\ ToSet(b1) \subseteq T /\ ToSet(n1) \subseteq T
        /\ ToSet(a2) \subseteq T /\ ToSet(b2) \subseteq T /\ ToSet(n2) \subseteq T /\ "/" \in T
    OBVIOUS
  <2>2. /\ a1 \in Seq(ToSet(a1)) /\ b1 \in Seq(ToSet(b1)) /\ n1 \in Seq(ToSet(n1))
        /\ a2 \in Seq(ToSet(a2)) /\ b2 \in Seq(ToSet(b2)) /\ n2 \in Seq(ToSet(n2))
    BY <1>1, <1>2 DEF oneSegment, isSequence
  <2> HIDE DEF T
  <2> QED BY <2>1, <2>2, SeqMonotonic
<1> HIDE DEF T
<1>5. /\ \A n \in 1..Len(a1) : a1[n] # "/"
      /\ \A n \in 1..Len(b1) : b1[n] # "/"
      /\ \A n \in 1..Len(a2) : a2[n] # "/"
      /\ \A n \in 1..Len(b2) : b2[n] # "/"
  BY <1>1, OneSegmentProperties
<1> DEFINE x == (((a1 \o <<"/">>) \o b1) \o <<"/">>) \o n1
           y == (((a2 \o <<"/">>) \o b2) \o <<"/">>) \o n2
<1>6. startsWith(x, a1, b1) /\ startsWith(y, a2, b2)
  BY <1>4, TwoSegments
<1>7. x = y
  BY <1>3, Zenon
<1> HIDE DEF x, y
<1>8. a1 = a2 /\ b1 = b2
  BY <1>4, <1>5, <1>6, <1>7, SameSegments
<1> QED BY <1>8 DEF a1, a2, b1, b2

\* A name that is cut is not one that is whole: it ends in a hash of something longer.
LEMMA CutIsNotWhole ==
  ASSUME NEW c \in Configurations, NEW v \in c.workloads, NEW w \in c.workloads, repoPrefix(c) = byPod,
         Len(fullName(c, w)) > MaxRepoName, fullName(c, v) = shortened(fullName(c, w))
  PROVE  FALSE
<1> DEFINE x == fullName(c, v)
           y == fullName(c, w)
           n == cleanedName(c, v)
           p == inner(c, v)
           t == spelled(p)
<1>1. Len(n) \in Nat /\ Len(x) \in Nat /\ Len(x) > Len(n) /\ Last(x) = Last(n)
  BY PodRepository
<1>2. y \in prefixedNames(c) /\ Last(shortened(y)) = Digest(y)
  BY PodRepository
<1>3. Last(n) = Digest(y)
  BY <1>1, <1>2
<1>4. isSequence(p)
  BY InnerProperties
<1>5. t \in sourceNames(c)
  BY DEF inner, rules, sourceNames
<1>6. Digest(y) # "unknown" /\ Digest(y) \notin ToSet(t) /\ (Digest(t) = Digest(y) => t = y)
  BY <1>2, <1>5, DigestAssumption
<1>7. Digest(t) \notin Separators \cup Unusual \cup DOMAIN LowerCase
  BY <1>5, DigestAssumption
<1>8. Last(n) = "unknown" \/ Last(n) \in ToSet(t) \/ (n = shortened(t) /\ Last(n) = Digest(t))
  BY <1>4, <1>7, LastOfCleaned DEF cleanedName
<1>9. n = shortened(y)
  BY <1>3, <1>6, <1>8
<1>10. n = x
  BY <1>9
<1> HIDE DEF n, x
<1> QED BY <1>1, <1>10

(* With the prefix $namespace/$podname, no two pods of different names or  *)
(* namespaces ever share a repository, for every image, rule and length:   *)
(* a name that fits has them before its first two slashes, one that is cut *)
(* has the hash of all of it, and neither is taken for the other.          *)
THEOREM WorkloadsAreSeparate == Spec => []WorkloadsSeparate
<1>1. ASSUME StartInv, NEW m \in mirrored, NEW n \in mirrored, m[1] = n[1], repoPrefix(conf) = byPod
      PROVE  m[2].namespace = n[2].namespace /\ m[2].name = n[2].name
  <2> DEFINE v == m[2]
             w == n[2]
             x == fullName(conf, v)
             y == fullName(conf, w)
  <2>1. conf \in Configurations /\ v \in conf.workloads /\ w \in conf.workloads
    BY <1>1, MirroredRepository
  <2>2. repositoryOf(conf, v) = repositoryOf(conf, w)
    BY <1>1, MirroredRepository
  <2> HIDE DEF v, w
  <2>3. /\ repositoryOf(conf, v) = IF Len(x) > MaxRepoName THEN shortened(x) ELSE x
        /\ x \in prefixedNames(conf) /\ (Len(x) > MaxRepoName => Last(shortened(x)) = Digest(x))
    BY <1>1, <2>1, PodRepository
  <2>4. /\ repositoryOf(conf, w) = IF Len(y) > MaxRepoName THEN shortened(y) ELSE y
        /\ y \in prefixedNames(conf) /\ (Len(y) > MaxRepoName => Last(shortened(y)) = Digest(y))
    BY <1>1, <2>1, PodRepository
  <2>5. x = y
    <3> DEFINE longX == Len(x) > MaxRepoName
               longY == Len(y) > MaxRepoName
    <3>1. CASE longX /\ longY
      <4>1. Digest(x) = Digest(y)
        BY <2>2, <2>3, <2>4, <3>1
      <4> QED BY <2>1, <2>3, <2>4, <4>1, DigestAssumption
    <3>2. CASE longX /\ ~longY
      BY <1>1, <2>1, <2>2, <2>3, <2>4, <3>2, CutIsNotWhole
    <3>3. CASE ~longX /\ longY
      BY <1>1, <2>1, <2>2, <2>3, <2>4, <3>3, CutIsNotWhole
    <3>4. CASE ~longX /\ ~longY
      BY <2>2, <2>3, <2>4, <3>4
    <3> QED BY <3>1, <3>2, <3>3, <3>4
  <2>6. v.namespace = w.namespace /\ v.name = w.name
    BY <1>1, <2>1, <2>5, SameFullName
  <2> QED BY <2>6 DEF v, w
<1>2. StartInv => WorkloadsSeparate
  BY <1>1 DEF WorkloadsSeparate, byPod
<1> QED BY StartCorrect, <1>2, PTL
=============================================================================
