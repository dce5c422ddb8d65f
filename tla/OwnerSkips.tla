----------------------------- MODULE OwnerSkips -----------------------------
(***************************************************************************)
(* Which objects of a watched namespace are mirrored: the skip lists of    *)
(* internal/controllers/controllers.go, on top of WatchScope.              *)
(*                                                                         *)
(* A workload is skipped by its own name.  A pod is skipped by its name or *)
(* by the workload it belongs to, and a pod of a Deployment or CronJob     *)
(* knows only its ReplicaSet or Job: the reconciler looks that up in the   *)
(* informer cache.  The caches of the kinds lag behind the API server      *)
(* independently of each other, and owners are deleted before what they    *)
(* own.  A pod that has ended is treated as deleted.                       *)
(***************************************************************************)
EXTENDS WatchScope, FiniteSets

CONSTANTS
  Refs,        \* what an owner reference may name
  Objects,     \* those whose comings and goings are followed
  KindOf,      \* [Refs -> kinds]
  NamespaceOf, \* [Refs -> Namespaces]
  NameOf,      \* [Refs -> names]
  OwnerOf,     \* [Refs -> Refs \cup {None}]: the owner reference
  None,
  Watched,     \* watchResources
  SkipNames    \* [kinds -> SUBSET entries]: Star, a name, or <<namespace, name>>

Kinds == {"Deployment", "StatefulSet", "DaemonSet", "Job", "CronJob", "Pod"}

ASSUME OwnerAssumption ==
  /\ Objects \subseteq Refs /\ None \notin Refs
  /\ KindOf \in [Refs -> Kinds \cup {"ReplicaSet"}]
  /\ NamespaceOf \in [Refs -> Namespaces]
  /\ DOMAIN NameOf = Refs
  /\ OwnerOf \in [Refs -> Refs \cup {None}]
  /\ Watched \subseteq Kinds /\ DOMAIN SkipNames = Kinds

\* Kubernetes: which kind owns which, in the same namespace; an owner of
\* another kind is on no list and is left out.
Owns == {<<"ReplicaSet", "Pod">>, <<"Deployment", "Pod">>, <<"StatefulSet", "Pod">>, <<"DaemonSet", "Pod">>,
         <<"Job", "Pod">>, <<"Deployment", "ReplicaSet">>, <<"CronJob", "Job">>}

ASSUME OwnershipAssumption ==
  \A o \in Refs : OwnerOf[o] # None =>
    <<KindOf[OwnerOf[o]], KindOf[o]>> \in Owns /\ NamespaceOf[OwnerOf[o]] = NamespaceOf[o]

VARIABLES
  live,      \* API server: the objects there are
  cached,    \* the manager's informer caches
  queue,     \* work queues of the controllers
  mirrored   \* history: those in the cache whose images were handed to the pusher

objects == <<live, cached, queue, mirrored>>
all == <<vars, objects>>

SkipInit ==
  /\ Init
  /\ live = {} /\ cached = {} /\ queue = {} /\ mirrored = {}

-----------------------------------------------------------------------------
matches(list, o) ==
  {Star, NameOf[o], <<NamespaceOf[o], NameOf[o]>>} \cap list # {}

\* The workload itself is on its kind's list.
skipped(o) == KindOf[o] \in Kinds /\ matches(SkipNames[KindOf[o]], o)

\* A ReplicaSet or Job that is not in the cache skips nothing.
found(o) == o \in cached

\* An owner of one of the kinds is on its list.
ownerSkipped(o, kinds) == OwnerOf[o] # None /\ KindOf[OwnerOf[o]] \in kinds /\ skipped(OwnerOf[o])

shouldSkipReplicaSetOwner(rs) == found(rs) /\ ownerSkipped(rs, {"Deployment"})

shouldSkipJobOwnerMutant(job) == ~found(job) \/ skipped(job) \/ ownerSkipped(job, {"CronJob"})
shouldSkipJobOwner(job) == skipped(job) \/ (found(job) /\ ownerSkipped(job, {"CronJob"}))

shouldSkipPodMutant(p) == skipped(p)
shouldSkipPod(p) ==
  \/ skipped(p)
  \/ /\ OwnerOf[p] # None
     /\ \/ KindOf[OwnerOf[p]] = "ReplicaSet" /\ shouldSkipReplicaSetOwner(OwnerOf[p])
        \/ KindOf[OwnerOf[p]] = "Job" /\ shouldSkipJobOwner(OwnerOf[p])
        \/ ownerSkipped(p, {"Deployment", "StatefulSet", "DaemonSet"})

ignored(o) == IF KindOf[o] = "Pod" THEN shouldSkipPod(o) ELSE skipped(o)

\* Hand the object's images to the pusher.
process(o) ==
  /\ Reconcile(NamespaceOf[o])
  /\ mirrored' = mirrored \cup {o}

-----------------------------------------------------------------------------
\* The step is the lookup of the owner: nothing decides again between it and the
\* hand-over, and the node that is read in between has no say in it.  A pod whose
\* owner or node cannot be read stays queued: a stuttering step.
ReconcileObject(o) ==
  /\ up /\ o \in queue
  /\ queue' = queue \ {o}
  /\ IF nsAllowed(NamespaceOf[o]) /\ o \in cached /\ ~ignored(o)
     THEN process(o)
     ELSE UNCHANGED <<vars, mirrored>>
  /\ UNCHANGED <<live, cached>>

\* ForceReconcile visits an object of a list it took from the cache.
ForceVisit(o) ==
  /\ up /\ o \in cached /\ KindOf[o] \in Watched
  /\ nsAllowed(NamespaceOf[o]) /\ ~ignored(o)
  /\ process(o)
  /\ UNCHANGED <<live, cached, queue>>

\* An informer catches up with one object; a new one of a watched kind is queued.
Sync(o) ==
  /\ up /\ delivered(NamespaceOf[o])
  /\ \/ /\ o \in live \ cached
        /\ cached' = cached \cup {o}
        /\ queue' = IF KindOf[o] \in Watched THEN queue \cup {o} ELSE queue
        /\ UNCHANGED mirrored
     \/ /\ o \in cached \ live
        /\ cached' = cached \ {o}
        /\ mirrored' = mirrored \ {o}
        /\ UNCHANGED queue
  /\ UNCHANGED <<vars, live>>

\* The informers list what exists before any reconciler runs.
StartManager ==
  /\ Start
  /\ cached' = {o \in live : scoped' = {} \/ NamespaceOf[o] \in scoped'}
  /\ queue' = {o \in cached' : KindOf[o] \in Watched}
  /\ mirrored' = {}
  /\ UNCHANGED live

ExitManager ==
  /\ Exit
  /\ cached' = {} /\ queue' = {} /\ mirrored' = {}
  /\ UNCHANGED live

-----------------------------------------------------------------------------
(* The cluster. *)

\* Other controllers create objects from caches of their own, so the owner
\* may already be gone, and garbage collection takes its time.
CreateObject(o) ==
  /\ o \notin live /\ NamespaceOf[o] \in exists
  /\ live' = live \cup {o}
  /\ UNCHANGED <<vars, cached, queue, mirrored>>

DeleteObject(o) ==
  /\ o \in live
  /\ live' = live \ {o}
  /\ UNCHANGED <<vars, cached, queue, mirrored>>

ClusterCreates(ns) == CreateNamespace(ns) /\ UNCHANGED objects

ClusterDeletes(ns) ==
  /\ \A o \in live : NamespaceOf[o] # ns
  /\ DeleteNamespace(ns)
  /\ UNCHANGED objects

SkipNext ==
  \/ StartManager \/ ExitManager
  \/ \E o \in Objects : ReconcileObject(o) \/ ForceVisit(o) \/ Sync(o)
  \/ \E o \in Objects : CreateObject(o) \/ DeleteObject(o)
  \/ \E ns \in Namespaces : ClusterCreates(ns) \/ ClusterDeletes(ns)

SkipSpec == SkipInit /\ [][SkipNext]_all

-----------------------------------------------------------------------------
(* Some list names the object or a workload it comes from.                 *)
covered(o) ==
  \/ skipped(o)
  \/ OwnerOf[o] # None /\ (skipped(OwnerOf[o]) \/
       (OwnerOf[OwnerOf[o]] # None /\ skipped(OwnerOf[OwnerOf[o]])))

(* A pod of a skipped workload is mirrored only if its ReplicaSet or Job   *)
(* is already deleted, or if the cache has not caught up with that one.    *)
SkippedOnlyWhileUnknown ==
  [][\A o \in mirrored' \ mirrored :
      KindOf[o] = "Pod" /\ covered(o) => OwnerOf[o] \notin live \cap cached]_all

(* No list skips more than it names, and nothing is dropped on the way: an *)
(* object of a watched kind in a watched namespace that no list covers is  *)
(* queued or mirrored as soon as the cache has it and as long as it does,  *)
(* in whatever order its owners appear, vanish, are cached or looked up.   *)
UncoveredNotLost ==
  up => \A o \in cached :
    KindOf[o] \in Watched /\ nsAllowed(NamespaceOf[o]) /\ ~covered(o) => o \in queue \cup mirrored
=============================================================================
