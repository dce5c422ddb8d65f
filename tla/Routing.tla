------------------------------ MODULE Routing ------------------------------
(***************************************************************************)
(* Where an image comes from and where it goes: the pure functions of      *)
(* internal/mirror/pusher.go, pkg/util, internal/mirror/keychain.go and    *)
(* pkg/metrics that the exclusion of registries, the repository path, the  *)
(* choice of a credential and the metrics' label are made of.              *)
(*                                                                         *)
(* A reference, a prefix or a path is a sequence of tokens: a separator    *)
(* ("/", ":", "@", "-", "."), a name, or a host.  Its length is its number *)
(* of tokens.  Surrounding blanks are not represented.                     *)
(***************************************************************************)
EXTENDS Lists

CONSTANTS
  LowerCase,     \* [tokens with capitals -> the same in lower case]
  Dotted,        \* names that contain a dot: hosts
  Unusual,       \* names of one character that a repository may not have
  Matching,      \* <<pattern, host>>: filepath.Match
  Digest(_),     \* the hash of a name: one token
  MaxRepoName    \* 256 in the code; at least 4 tokens

ASSUME LengthAssumption == MaxRepoName \in Nat /\ MaxRepoName >= 4

Schemes == {"https://", "http://"}

\* Case changes neither dots nor separators, and is changed once.
ASSUME TokenAssumption ==
  /\ {"docker.io", "index.docker.io"} \subseteq Dotted \ DOMAIN LowerCase
  /\ Dotted \cap (Schemes \cup {"/", ":", "@"}) = {}
  /\ \A t \in DOMAIN LowerCase :
       /\ LowerCase[t] \notin DOMAIN LowerCase
       /\ t \in Dotted <=> LowerCase[t] \in Dotted
       /\ {t, LowerCase[t]} \cap {"/", ":", "@"} = {}

lower(s) == [n \in DOMAIN s |-> IF s[n] \in DOMAIN LowerCase THEN LowerCase[s[n]] ELSE s[n]]

stripScheme(s) == IF s # <<>> /\ s[1] \in Schemes THEN Tail(s) ELSE s

trimSlash(s) == IF s # <<>> /\ Last(s) = "/" THEN Front(s) ELSE s

firstSlash(s) == SelectInSeq(s, LAMBDA t : t = "/")

-----------------------------------------------------------------------------
(* Excluded registries. *)

underHub(s) == Len(s) > 1 /\ s[1] = "index.docker.io" /\ s[2] = "/"

normalizeRegistryPrefix(v) ==
  LET s == trimSlash(stripScheme(lower(v)))
  IN  IF s = <<"index.docker.io">> \/ underHub(s) THEN <<"docker.io">> \o Tail(s) ELSE s

normalizeExcludedRegistries(provided) == {normalizeRegistryPrefix(v) : v \in ToSet(provided)} \ {<<>>}

\* The first component is a host if it has a dot or a colon.
isHost(s) == \E n \in 1..(firstSlash(s) - 1) : s[n] = ":" \/ s[n] \in Dotted

normalizeImageReferenceMutant(v) == lower(v)
normalizeImageReference(v) ==
  LET s == stripScheme(lower(v))
      t == IF underHub(s) THEN <<"docker.io">> \o Tail(s) ELSE s
  IN  CASE t = <<>> -> t
        [] t # <<>> /\ firstSlash(t) = 0 -> <<"docker.io", "/", "library", "/">> \o t
        [] firstSlash(t) # 0 /\ ~isHost(t) -> <<"docker.io", "/">> \o t
        [] OTHER -> t

hasBoundaryPrefixMutant(s, prefix) == prefix # <<>> /\ IsPrefix(prefix, s)
hasBoundaryPrefix(s, prefix) ==
  /\ prefix # <<>> /\ IsPrefix(prefix, s)
  /\ Len(s) = Len(prefix) \/ s[Len(prefix) + 1] \in {"/", ":", "@"}

matchExcludedRegistry(src, excluded) ==
  \E prefix \in excluded : hasBoundaryPrefix(normalizeImageReference(src), prefix)

-----------------------------------------------------------------------------
(* A parsed reference (name.ParseReference of go-containerregistry): the   *)
(* registry it is pulled from, and the repository there.                   *)

hub == <<"index.docker.io">>

registryStr(src) ==
  LET host == SubSeq(src, 1, firstSlash(src) - 1)
  IN  IF ~isHost(src) \/ host = <<"docker.io">> THEN hub ELSE host

path(src) ==
  LET rest == IF isHost(src) THEN SubSeq(src, firstSlash(src) + 1, Len(src)) ELSE src
      end  == SelectInSeq(rest, LAMBDA t : t \in {":", "@"})
  IN  IF end = 0 THEN rest ELSE SubSeq(rest, 1, end - 1)

repositoryStr(src) ==
  IF registryStr(src) = hub /\ firstSlash(path(src)) = 0
  THEN <<"library", "/">> \o path(src) ELSE path(src)

\* What name.ParseReference accepts starts with neither a scheme nor a slash.
isReference(src) == isSequence(src) /\ src # <<>> /\ lower(src)[1] \notin Schemes \cup {"/"}

\* The registry of $registry.
metaRegistry(src) == IF registryStr(src) = hub THEN <<"docker.io">> ELSE registryStr(src)

\* The label of the counters; recordMetric counts nothing for an empty one.
registryLabelMutant(image) == IF firstSlash(image) = 0 THEN <<"docker.io">> ELSE SubSeq(image, 1, firstSlash(image) - 1)
registryLabel(image) ==
  LET s == stripScheme(lower(image))
      first == SubSeq(s, 1, firstSlash(s) - 1)
  IN  CASE s = <<>> \/ (firstSlash(s) # 0 /\ first = <<>>) -> <<>>
        [] firstSlash(s) > 1 /\ (isHost(s) \/ first = <<"localhost">>) -> first
        [] OTHER -> <<"docker.io">>

-----------------------------------------------------------------------------
(* Repository path. *)

Separators == {"-", "/", "."}

\* What the code writes itself is allowed, and in lower case.
ASSUME SpellingAssumption == (Separators \cup {"library", "unknown"}) \cap (Unusual \cup DOMAIN LowerCase) = {}

\* An empty segment.
doubled(s) == \E n \in 2..Len(s) : s[n - 1] = "/" /\ s[n] = "/"

body(s) == {n \in DOMAIN s : s[n] \notin Separators}

trim(s) == IF body(s) = {} THEN <<>> ELSE SubSeq(s, Min(body(s)), Max(body(s)))

trimRight(s) == IF body(s) = {} THEN <<>> ELSE SubSeq(s, 1, Max(body(s)))

ShortDigest(s) == <<Digest(s)>>

\* The name as the registry may have it, of whatever length.
spelled(p) == trim([n \in DOMAIN p |-> IF lower(p)[n] \in Unusual THEN "-" ELSE lower(p)[n]])

\* Room is left for the hash.
shortened(s) ==
  LET kept == trimRight(SubSeq(s, 1, MaxRepoName - 2))
  IN  (IF kept = <<>> THEN <<>> ELSE Append(kept, "-")) \o ShortDigest(s)

CleanRepoNameMutant(p) == LET s == lower(p) IN IF Len(s) > MaxRepoName THEN SubSeq(s, 1, MaxRepoName) ELSE s
CleanRepoName(p) ==
  LET s == spelled(p)
  IN  CASE s = <<>> -> <<"library", "/", "unknown">>
        [] Len(s) > MaxRepoName -> shortened(s)
        [] OTHER -> s

\* A mapping is [regex |-> FALSE, from, to], or [regex |-> TRUE, valid, rewrites]
\* where rewrites gives the paths the expression matches their replacement.
compiled(mappings) == keep(mappings, {m \in ToSet(mappings) : ~m.regex \/ m.valid})

applies(m, p) == IF m.regex THEN p \in DOMAIN m.rewrites ELSE IsPrefix(m.from, p)

rewrite(m, p) ==
  LET rest == SubSeq(p, Len(m.from) + 1, Len(p))
  IN  CASE m.regex -> m.rewrites[p]
        [] ~m.regex /\ m.to = <<>> -> rest
        [] ~m.regex /\ m.to # <<>> -> trimSlash(m.to) \o <<"/">> \o rest

\* The first rule that applies.
mapped(mappings, p) ==
  LET n == SelectInSeq(compiled(mappings), LAMBDA m : applies(m, p))
  IN  IF n = 0 THEN p ELSE rewrite(compiled(mappings)[n], p)

NewRepoPathTransformer(mappings, p) == CleanRepoName(mapped(mappings, p))

\* No empty segments: a slash is written only between two names.
dropEmptySegments(s) ==
  LET f[n \in 0..Len(s)] ==
        IF n = 0 THEN <<>>
        ELSE IF s[n] = "/" THEN f[n - 1]
        ELSE IF f[n - 1] # <<>> /\ s[n - 1] = "/" THEN f[n - 1] \o <<"/", s[n]>>
        ELSE Append(f[n - 1], s[n])
  IN  f[Len(s)]

\* meta gives each placeholder its tokens.
replaced(prefix, meta) ==
  LET f[n \in 0..Len(prefix)] ==
        IF n = 0 THEN <<>>
        ELSE f[n - 1] \o (IF prefix[n] \in DOMAIN meta THEN meta[prefix[n]] ELSE <<prefix[n]>>)
  IN  f[Len(prefix)]

expandRepoPrefixMutant(prefix, meta) == SelectSeq(prefix, LAMBDA t : t \notin DOMAIN meta)
expandRepoPrefix(prefix, meta) == dropEmptySegments(replaced(prefix, meta))

combined(prefix, cleaned, meta) == expandRepoPrefix(prefix, meta) \o <<"/">> \o cleaned

resolveRepoPath(mappings, prefix, srcRepo, meta) ==
  LET cleaned == NewRepoPathTransformer(mappings, srcRepo)
  IN  IF expandRepoPrefix(prefix, meta) = <<>> THEN cleaned ELSE CleanRepoName(combined(prefix, cleaned, meta))

\* Architectures of what was selected, in the order they sort.
resolveArchitecture(useIndex, archs, order) ==
  LET seen == keep(order, ToSet(archs) \ {"", "unknown"})
      joined == [k \in 1..(2 * Len(seen) - 1) |-> IF k % 2 = 1 THEN seen[(k + 1) \div 2] ELSE "-"]
  IN  CASE ~useIndex -> keep(archs, ToSet(archs) \ {""})
        [] useIndex /\ seen = <<>> -> <<"multiarch">>
        [] useIndex /\ seen # <<>> -> joined

-----------------------------------------------------------------------------
(* Credentials.  A credential is a record: registry and aliases, and for   *)
(* username, password and token the pair of the value given directly and   *)
(* that of the variable its *Env field names, "" where there is none.  A   *)
(* keychain has exact hosts, and the wildcards in the order Go's map gave. *)

registryAliases(c) ==
  IF c.registry = <<>> THEN {} ELSE {lower(a) : a \in {c.registry} \cup c.aliases} \ {<<>>}

secret(pair) == IF pair[2] # "" THEN pair[2] ELSE pair[1]

anonymous == <<"anonymous">>

authenticator(c) ==
  CASE secret(c.token) # "" -> <<"bearer", secret(c.token)>>
    [] secret(c.token) = "" /\ <<secret(c.username), secret(c.password)>> # <<"", "">>
         -> <<"basic", secret(c.username), secret(c.password)>>
    [] OTHER -> anonymous

\* A later credential takes the name from an earlier one.
buildKeychainFromConfig(creds) ==
  LET usable == {n \in DOMAIN creds : authenticator(creds[n]) # anonymous}
      naming(a) == {n \in usable : a \in registryAliases(creds[n])}
  IN  [a \in UNION {registryAliases(creds[n]) : n \in usable} |-> authenticator(creds[Max(naming(a))])]

isPattern(a) == a \in {m[1] : m \in Matching}

patterns(auths) == {a \in DOMAIN auths : isPattern(a)}

\* NewStaticKeychain: any order of the wildcards.
wildcardOrders(auths) == SetToSeqs(patterns(auths))

ResolveMutant(auths, order, registry) ==
  LET all == SetToSeq(DOMAIN auths \ patterns(auths)) \o order
      n == SelectInSeq(Reverse(all), LAMBDA a : a = registry \/ <<a, registry>> \in Matching)
  IN  IF n = 0 THEN anonymous ELSE auths[Reverse(all)[n]]
Resolve(auths, order, registry) ==
  LET host == lower(registry)
      exact == host \in DOMAIN auths \ patterns(auths)
      n == SelectInSeq(order, LAMBDA a : <<a, host>> \in Matching)
  IN  CASE exact -> auths[host]
        [] ~exact /\ n # 0 -> auths[order[n]]
        [] OTHER -> anonymous
=============================================================================
