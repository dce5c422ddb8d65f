----------------------------- MODULE WatchScope -----------------------------
(***************************************************************************)
(* Which namespaces a run of copycat mirrors.  The include configuration   *)
(* is expanded once, at start-up (cmd/manager/namespaces.go); the result   *)
(* scopes the informer cache (cmd/manager/main.go) and, separately, the    *)
(* reconcilers (nsAllowed in internal/controllers/controllers.go).         *)
(* Namespaces come and go while the process runs.                          *)
(***************************************************************************)
CONSTANTS
  Namespaces,
  Star,        \* the entry "*"
  Patterns,    \* entries with a wildcard
  Matches,     \* [Patterns -> SUBSET Namespaces]: path.Match, {} if malformed
  Skipped      \* skipNamespaces

Entries == Namespaces \cup Patterns \cup {Star}

ASSUME ScopeAssumption ==
  /\ Matches \in [Patterns -> SUBSET Namespaces]
  /\ Skipped \subseteq Namespaces
  /\ Star \notin Namespaces \cup Patterns
  /\ Namespaces \cap Patterns = {}

VARIABLES
  include,    \* includeNamespaces without its blank entries
  exists,     \* API server: the namespaces there are
  up,         \* the manager runs
  allowed,    \* cfg.AllowedNS, AllowedNamespaces of the reconcilers
  scoped,     \* cacheOpts.DefaultNamespaces, {} for no restriction
  processed   \* history: namespaces mirrored from since the start

vars == <<include, exists, up, allowed, scoped, processed>>

Init ==
  /\ include \in SUBSET Entries
  /\ exists \in SUBSET Namespaces
  /\ up = FALSE
  /\ allowed = {} /\ scoped = {} /\ processed = {}

-----------------------------------------------------------------------------
matchNamespacePattern(p) == Matches[p] \cap exists

missing == (include \cap Namespaces) \ exists

results == (include \cap exists) \cup UNION {matchNamespacePattern(p) : p \in include \cap Patterns}

unrestricted == include = {} \/ Star \in include

\* "*" wins before anything is validated; otherwise a missing name is an error.
validateAndExpandNamespaces == IF unrestricted THEN {Star} ELSE results

cacheScopeMutant(ns) == ns
cacheScope(ns) == IF ns = {Star} THEN {} ELSE ns

Start ==
  /\ ~up
  /\ unrestricted \/ missing = {}
  /\ up' = TRUE
  /\ allowed' = validateAndExpandNamespaces
  /\ scoped' = cacheScope(validateAndExpandNamespaces)
  /\ processed' = {}
  /\ UNCHANGED <<include, exists>>

namespaceSkippedMutant(ns) == FALSE
namespaceSkipped(ns) == ns \in Skipped

nsAllowed(ns) == ~namespaceSkipped(ns) /\ (allowed \in {{}, {Star}} \/ ns \in allowed)

\* What the informers, and the List calls of ForceReconcile, deliver.
delivered(ns) == scoped = {} \/ ns \in scoped

\* A reconcile, or ForceReconcile, for an object of the namespace.  The object is in
\* the cache; nobody asks whether its namespace is still there.
Reconcile(ns) ==
  /\ up
  /\ delivered(ns)
  /\ nsAllowed(ns)
  /\ processed' = processed \cup {ns}
  /\ UNCHANGED <<include, exists, up, allowed, scoped>>

Exit ==
  /\ up
  /\ up' = FALSE
  /\ allowed' = {} /\ scoped' = {} /\ processed' = {}
  /\ UNCHANGED <<include, exists>>

\* The cluster: namespaces are created and deleted at any time.
CreateNamespace(ns) ==
  /\ exists' = exists \cup {ns}
  /\ UNCHANGED <<include, up, allowed, scoped, processed>>

DeleteNamespace(ns) ==
  /\ exists' = exists \ {ns}
  /\ UNCHANGED <<include, up, allowed, scoped, processed>>

Next ==
  \/ Start \/ Exit
  \/ \E ns \in Namespaces : Reconcile(ns) \/ CreateNamespace(ns) \/ DeleteNamespace(ns)

Spec == Init /\ [][Next]_vars

-----------------------------------------------------------------------------
selected(ns) ==
  \/ unrestricted \/ ns \in include
  \/ \E p \in include \cap Patterns : ns \in Matches[p]

(* Nothing is mirrored from a namespace that is skipped, or that no entry  *)
(* of the configuration selects, provided the expansion found a namespace. *)
OnlySelected ==
  /\ processed \cap Skipped = {}
  /\ allowed # {} => \A ns \in processed : selected(ns)

(* The two scopes agree: a namespace nsAllowed accepts is delivered by the *)
(* cache, so no workload is lost between them, and the other way round.    *)
ScopesAgree ==
  up => \A ns \in Namespaces \ Skipped : nsAllowed(ns) <=> delivered(ns)
=============================================================================
