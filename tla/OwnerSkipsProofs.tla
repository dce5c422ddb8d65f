-------------------------- MODULE OwnerSkipsProofs --------------------------
(***************************************************************************)
(* Proofs about WatchScope and OwnerSkips: which namespaces are mirrored,  *)
(* what the skip lists can let through, and that the selection of objects  *)
(* stays within the selection of namespaces, so that what is proved of     *)
(* WatchScope holds of every object mirrored.                              *)
(***************************************************************************)
EXTENDS OwnerSkips, TLAPS

-----------------------------------------------------------------------------
(* Namespaces.  The invariant relates the list computed at start-up to the *)
(* configuration it came from, not to the namespaces that exist now, which *)
(* have moved on.                                                          *)

\* Every entry of the expanded list is one the configuration selects.
ExpansionOK ==
  /\ allowed = {Star} => unrestricted
  /\ allowed # {Star} => \A ns \in allowed : ns \in Namespaces /\ selected(ns)

ScopeInv ==
  /\ ExpansionOK
  /\ processed \subseteq Namespaces
  /\ up => scoped = cacheScope(allowed)
  /\ OnlySelected

LEMMA ExpansionSelects ==
  ASSUME ~unrestricted, NEW ns \in results, exists \subseteq Namespaces
  PROVE  ns \in Namespaces /\ selected(ns)
BY DEF results, matchNamespacePattern, selected

LEMMA ScopeNext == exists \subseteq Namespaces /\ ScopeInv /\ [Next]_vars => ScopeInv'
<1> SUFFICES ASSUME exists \subseteq Namespaces, ScopeInv, [Next]_vars PROVE ScopeInv'
  OBVIOUS
<1>1. CASE Start
  <2>1. /\ allowed' = validateAndExpandNamespaces /\ scoped' = cacheScope(allowed')
        /\ processed' = {} /\ UNCHANGED include
    BY <1>1 DEF Start
  <2>2. ExpansionOK'
    <3>1. CASE unrestricted
      BY <2>1, <3>1 DEF validateAndExpandNamespaces, ExpansionOK, unrestricted
    <3>2. CASE ~unrestricted
      <4>1. allowed' = results
        BY <2>1, <3>2 DEF validateAndExpandNamespaces
      <4>2. \A ns \in results : ns \in Namespaces /\ selected(ns)
        BY <3>2, ExpansionSelects
      <4>3. results # {Star}
        BY <4>2, ScopeAssumption
      <4> QED BY <2>1, <4>1, <4>2, <4>3 DEF ExpansionOK, selected, unrestricted
    <3> QED BY <3>1, <3>2
  <2> QED BY <2>1, <2>2 DEF ScopeInv, OnlySelected, cacheScope
<1>2. CASE Exit
  BY <1>2 DEF Exit, ScopeInv, ExpansionOK, OnlySelected, cacheScope
<1>3. ASSUME NEW ns \in Namespaces, Reconcile(ns) PROVE ScopeInv'
  <2>1. /\ processed' = processed \cup {ns} /\ UNCHANGED <<include, up, allowed, scoped>>
        /\ nsAllowed(ns)
    BY <1>3 DEF Reconcile
  <2>2. ns \notin Skipped /\ (allowed # {} => selected(ns))
    BY <2>1 DEF nsAllowed, namespaceSkipped, ScopeInv, ExpansionOK, selected
  <2> QED BY <2>1, <2>2 DEF ScopeInv, ExpansionOK, OnlySelected, selected, unrestricted, cacheScope
<1>4. ASSUME NEW ns \in Namespaces, CreateNamespace(ns) \/ DeleteNamespace(ns) PROVE ScopeInv'
  BY <1>4 DEF CreateNamespace, DeleteNamespace, ScopeInv, ExpansionOK, OnlySelected, selected,
              unrestricted, cacheScope
<1>5. CASE UNCHANGED vars
  BY <1>5 DEF vars, ScopeInv, ExpansionOK, OnlySelected, selected, unrestricted, cacheScope
<1> QED BY <1>1, <1>2, <1>3, <1>4, <1>5 DEF Next

LEMMA ScopeCorrect == Spec => []ScopeInv
<1>1. Init => exists \subseteq Namespaces /\ ScopeInv
  BY DEF Init, ScopeInv, ExpansionOK, OnlySelected
<1>2. exists \subseteq Namespaces /\ [Next]_vars => (exists \subseteq Namespaces)'
  BY DEF Next, Start, Exit, Reconcile, CreateNamespace, DeleteNamespace, vars
<1> QED BY <1>1, <1>2, ScopeNext, PTL DEF Spec

(* Whatever the configuration, and however namespaces come and go, copycat *)
(* mirrors from no skipped namespace and, if the expansion found any       *)
(* namespace at all, from selected ones only.                              *)
THEOREM OnlySelectedNamespaces == Spec => []OnlySelected
<1>1. ScopeInv => OnlySelected
  BY DEF ScopeInv
<1> QED BY ScopeCorrect, <1>1, PTL

(* The informer cache and nsAllowed, computed apart from one list, accept  *)
(* the same namespaces among those that are not skipped.                   *)
THEOREM CacheAndReconcilersAgree == Spec => []ScopesAgree
<1>1. ScopeInv => ScopesAgree
  BY DEF ScopeInv, ScopesAgree, nsAllowed, namespaceSkipped, delivered, cacheScope
<1> QED BY ScopeCorrect, <1>1, PTL

-----------------------------------------------------------------------------
(* The skip lists. *)

\* What the cache knows of the owner is enough to find every list that covers
\* the pod.
LEMMA KnownOwnerDecides ==
  ASSUME NEW o \in Refs, KindOf[o] = "Pod", covered(o), OwnerOf[o] \in cached
  PROVE  ignored(o)
<1> DEFINE w == OwnerOf[o]
           v == OwnerOf[w]
<1>1. CASE skipped(o)
  BY <1>1 DEF ignored, shouldSkipPod
<1>2. CASE ~skipped(o)
  <2>1. w # None /\ w \in Refs /\ (skipped(w) \/ (v # None /\ skipped(v)))
    BY <1>2, OwnerAssumption DEF covered
  <2>2. KindOf[w] \in {"ReplicaSet", "Deployment", "StatefulSet", "DaemonSet", "Job"}
    BY <2>1, OwnershipAssumption DEF Owns
  <2>3. found(w)
    BY DEF found
  <2>4. v # None => <<KindOf[v], KindOf[w]>> \in {<<"Deployment", "ReplicaSet">>, <<"CronJob", "Job">>}
    BY <2>1, <2>2, OwnershipAssumption DEF Owns
  <2>5. CASE KindOf[w] = "ReplicaSet"
    <3>1. ~skipped(w)
      BY <2>5 DEF skipped, Kinds
    <3>2. shouldSkipReplicaSetOwner(w)
      BY <2>1, <2>3, <2>4, <2>5, <3>1 DEF shouldSkipReplicaSetOwner, ownerSkipped
    <3> QED BY <2>1, <2>5, <3>2 DEF ignored, shouldSkipPod
  <2>6. CASE KindOf[w] = "Job"
    <3>1. shouldSkipJobOwner(w)
      BY <2>1, <2>3, <2>4, <2>6 DEF shouldSkipJobOwner, ownerSkipped
    <3> QED BY <2>1, <2>6, <3>1 DEF ignored, shouldSkipPod
  <2>7. CASE KindOf[w] \in {"Deployment", "StatefulSet", "DaemonSet"}
    <3>1. skipped(w)
      BY <2>1, <2>4, <2>7
    <3>2. ownerSkipped(o, {"Deployment", "StatefulSet", "DaemonSet"})
      BY <2>1, <2>7, <3>1 DEF ownerSkipped
    <3> QED BY <2>1, <2>7, <3>2 DEF ignored, shouldSkipPod
  <2> QED BY <2>2, <2>5, <2>6, <2>7
<1> QED BY <1>1, <1>2

\* Conversely no lookup finds a list that does not cover the object.
LEMMA UncoveredNotIgnored ==
  ASSUME NEW o \in Refs, ~covered(o) PROVE ~ignored(o)
BY DEF covered, ignored, shouldSkipPod, shouldSkipReplicaSetOwner, shouldSkipJobOwner, ownerSkipped

\* A step mirrors an object only after it found it on no list.
LEMMA MirroredNotIgnored ==
  ASSUME [SkipNext]_all, NEW o \in mirrored' \ mirrored PROVE o \in Objects /\ ~ignored(o)
<1>1. ASSUME NEW p \in Objects, ReconcileObject(p) \/ ForceVisit(p) PROVE o = p /\ ~ignored(p)
  BY <1>1 DEF ReconcileObject, ForceVisit, process
<1>2. CASE StartManager \/ ExitManager
  BY <1>2 DEF StartManager, ExitManager
<1>3. ASSUME NEW p \in Objects, Sync(p) \/ CreateObject(p) \/ DeleteObject(p) PROVE FALSE
  BY <1>3 DEF Sync, CreateObject, DeleteObject
<1>4. ASSUME NEW ns \in Namespaces, ClusterCreates(ns) \/ ClusterDeletes(ns) PROVE FALSE
  BY <1>4 DEF ClusterCreates, ClusterDeletes, objects
<1>5. CASE UNCHANGED all
  BY <1>5 DEF all, objects
<1> QED BY <1>1, <1>2, <1>3, <1>4, <1>5 DEF SkipNext

(* A pod that a list covers, by its own name or that of a workload it      *)
(* comes from, is mirrored only if the cache or the cluster has no record  *)
(* of its owner: for every set of objects, lists and owner references, and *)
(* in every interleaving of informers, cluster and reconcilers.            *)
THEOREM SkipListsHold == SkipSpec => SkippedOnlyWhileUnknown
<1>1. ASSUME [SkipNext]_all
      PROVE  \A o \in mirrored' \ mirrored :
               KindOf[o] = "Pod" /\ covered(o) => OwnerOf[o] \notin live \cap cached
  BY <1>1, MirroredNotIgnored, KnownOwnerDecides, OwnerAssumption
<1> QED BY <1>1, PTL DEF SkippedOnlyWhileUnknown, SkipSpec

\* UncoveredNotLost of one object.
kept(o) == KindOf[o] \in Watched /\ nsAllowed(NamespaceOf[o]) /\ ~covered(o) => o \in queue \cup mirrored

LEMMA KeptNext == UncoveredNotLost /\ [SkipNext]_all => UncoveredNotLost'
<1> SUFFICES ASSUME UncoveredNotLost, [SkipNext]_all, up', NEW o \in cached' PROVE kept(o)'
  BY DEF UncoveredNotLost, kept
<1>1. CASE StartManager
  BY <1>1 DEF StartManager, kept
<1>2. CASE ExitManager
  BY <1>2 DEF ExitManager, Exit
<1>3. ASSUME NEW p \in Objects, ReconcileObject(p) PROVE kept(o)'
  <2>1. up /\ o \in cached /\ queue' = queue \ {p}
    BY <1>3 DEF ReconcileObject
  <2>2. UNCHANGED allowed /\ mirrored \subseteq mirrored'
    BY <1>3 DEF ReconcileObject, process, Reconcile, vars
  <2>3. o = p /\ nsAllowed(NamespaceOf[o]) /\ ~covered(o) => o \in mirrored'
    BY <1>3, <2>1, UncoveredNotIgnored, OwnerAssumption DEF ReconcileObject, process
  <2> QED BY <2>1, <2>2, <2>3 DEF UncoveredNotLost, kept, nsAllowed, namespaceSkipped, covered
<1>4. ASSUME NEW p \in Objects, ForceVisit(p) PROVE kept(o)'
  BY <1>4 DEF ForceVisit, process, Reconcile, UncoveredNotLost, kept, nsAllowed, namespaceSkipped, covered
<1>5. ASSUME NEW p \in Objects, Sync(p) PROVE kept(o)'
  <2>1. up /\ UNCHANGED allowed /\ queue \subseteq queue'
    BY <1>5 DEF Sync, vars
  <2>2. CASE o \in cached
    <3>1. o \in mirrored => o \in mirrored'
      BY <1>5, <2>2 DEF Sync
    <3> QED BY <2>1, <2>2, <3>1 DEF UncoveredNotLost, kept, nsAllowed, namespaceSkipped, covered
  <2>3. CASE o \notin cached
    BY <1>5, <2>3 DEF Sync, kept
  <2> QED BY <2>2, <2>3
<1>6. ASSUME NEW p \in Objects, CreateObject(p) \/ DeleteObject(p) PROVE kept(o)'
  BY <1>6 DEF CreateObject, DeleteObject, vars, UncoveredNotLost, kept, nsAllowed, namespaceSkipped, covered
<1>7. ASSUME NEW ns \in Namespaces, ClusterCreates(ns) \/ ClusterDeletes(ns) PROVE kept(o)'
  BY <1>7 DEF ClusterCreates, ClusterDeletes, CreateNamespace, DeleteNamespace, objects,
              UncoveredNotLost, kept, nsAllowed, namespaceSkipped, covered
<1>8. CASE UNCHANGED all
  BY <1>8 DEF all, vars, objects, UncoveredNotLost, kept, nsAllowed, namespaceSkipped, covered
<1> QED BY <1>1, <1>2, <1>3, <1>4, <1>5, <1>6, <1>7, <1>8 DEF SkipNext

(* An object of a watched kind and namespace that no list covers is queued *)
(* or mirrored for as long as the cache has it: no lookup of its owners,   *)
(* in whatever state of the caches, skips it, and no step drops it.        *)
THEOREM UncoveredStayInSight == SkipSpec => []UncoveredNotLost
<1>1. SkipInit => UncoveredNotLost
  BY DEF SkipInit, Init, UncoveredNotLost
<1> QED BY <1>1, KeptNext, PTL DEF SkipSpec

-----------------------------------------------------------------------------
(* The namespaces. *)

LEMMA ObjectStepIsNamespaceStep == [SkipNext]_all => [Next]_vars
<1> SUFFICES ASSUME [SkipNext]_all PROVE [Next]_vars
  OBVIOUS
<1>1. ASSUME NEW o \in Objects, process(o) PROVE Next
  <2>1. NamespaceOf[o] \in Namespaces
    BY OwnerAssumption
  <2> QED BY <1>1, <2>1 DEF process, Next
<1>2. CASE StartManager \/ ExitManager
  BY <1>2 DEF StartManager, ExitManager, Next
<1>3. ASSUME NEW o \in Objects, ReconcileObject(o) \/ ForceVisit(o) PROVE [Next]_vars
  BY <1>1, <1>3 DEF ReconcileObject, ForceVisit
<1>4. ASSUME NEW o \in Objects, Sync(o) \/ CreateObject(o) \/ DeleteObject(o) PROVE UNCHANGED vars
  BY <1>4 DEF Sync, CreateObject, DeleteObject
<1>5. ASSUME NEW ns \in Namespaces, ClusterCreates(ns) \/ ClusterDeletes(ns) PROVE Next
  BY <1>5 DEF ClusterCreates, ClusterDeletes, Next
<1>6. CASE UNCHANGED all
  BY <1>6 DEF all
<1> QED BY <1>2, <1>3, <1>4, <1>5, <1>6 DEF SkipNext

(* Seen from the namespaces, informers, reconcilers and forced visits that *)
(* work on objects do nothing that WatchScope does not allow.              *)
THEOREM SkipsImplementWatchScope == SkipSpec => Spec
<1>1. SkipInit => Init
  BY DEF SkipInit
<1> QED BY <1>1, ObjectStepIsNamespaceStep, PTL DEF SkipSpec, Spec

\* Only objects are mirrored, and every one counts for its namespace.
MirroredCounted == \A o \in mirrored : o \in Refs /\ NamespaceOf[o] \in processed

LEMMA MirroredCountedKept == MirroredCounted /\ [SkipNext]_all => MirroredCounted'
<1> SUFFICES ASSUME MirroredCounted, [SkipNext]_all PROVE MirroredCounted'
  OBVIOUS
<1>1. ASSUME NEW o \in Objects, process(o) PROVE MirroredCounted'
  <2>1. mirrored' = mirrored \cup {o} /\ processed' = processed \cup {NamespaceOf[o]}
    BY <1>1 DEF process, Reconcile
  <2> QED BY <2>1, OwnerAssumption DEF MirroredCounted
<1>2. CASE StartManager \/ ExitManager
  BY <1>2 DEF StartManager, ExitManager, MirroredCounted
<1>3. ASSUME NEW o \in Objects, ReconcileObject(o) \/ ForceVisit(o) PROVE MirroredCounted'
  BY <1>1, <1>3 DEF ReconcileObject, ForceVisit, MirroredCounted, vars
<1>4. ASSUME NEW o \in Objects, Sync(o) \/ CreateObject(o) \/ DeleteObject(o) PROVE MirroredCounted'
  BY <1>4 DEF Sync, CreateObject, DeleteObject, MirroredCounted, vars
<1>5. ASSUME NEW ns \in Namespaces, ClusterCreates(ns) \/ ClusterDeletes(ns) PROVE MirroredCounted'
  BY <1>5 DEF ClusterCreates, ClusterDeletes, CreateNamespace, DeleteNamespace, objects, MirroredCounted
<1>6. CASE UNCHANGED all
  BY <1>6 DEF all, vars, objects, MirroredCounted
<1> QED BY <1>2, <1>3, <1>4, <1>5, <1>6 DEF SkipNext

\* The namespace of every mirrored object is selected, and not skipped.
MirroredFromSelected ==
  \A o \in mirrored :
    /\ NamespaceOf[o] \notin Skipped
    /\ allowed # {} => selected(NamespaceOf[o])

(* No object is mirrored from a namespace that is skipped or that the      *)
(* configuration does not select, whichever of the paths, queued or        *)
(* forced, reached it.                                                     *)
THEOREM ObjectsFromSelectedNamespaces == SkipSpec => [](OnlySelected /\ ScopesAgree /\ MirroredFromSelected)
<1>1. SkipInit => MirroredCounted
  BY DEF SkipInit, MirroredCounted
<1>2. SkipSpec => []MirroredCounted
  BY <1>1, MirroredCountedKept, PTL DEF SkipSpec
<1>3. MirroredCounted /\ OnlySelected => MirroredFromSelected
  BY DEF MirroredCounted, OnlySelected, MirroredFromSelected
<1> QED BY <1>2, <1>3, SkipsImplementWatchScope, OnlySelectedNamespaces, CacheAndReconcilersAgree, PTL
=============================================================================
