----------------------------- MODULE Controllers -----------------------------
(***************************************************************************)
(* The reconcilers of internal/controllers/controllers.go over the work    *)
(* queue of controller-runtime, with the pusher reduced to what Mirror     *)
(* does for one image: refuse it in cooldown, skip it while another call   *)
(* works on it, or work on it and succeed or fail.                         *)
(*                                                                         *)
(* An object is a workload or a pod; its spec is the set of images it runs *)
(* (mirrorPodImages goes through them one by one, in any order here).  The *)
(* five workload reconcilers differ only in the type they fetch.           *)
(***************************************************************************)
EXTENDS Naturals, FiniteSets

CONSTANTS
  Workers,     \* MaxConcurrentReconciles workers of the controllers
  Handlers,    \* goroutines of POST /force-reconcile: requests may overlap
  Objects, Images, None,
  Pods,        \* the objects that are pods, the others are workloads
  Watched,     \* nsAllowed, and neither the object nor an owner is skipped
  Initial,     \* [Objects -> SUBSET Images]: an object's images when created
  CooldownOn,  \* failureCooldown > 0
  MaxEdits,    \* bound on changes of specs and deletions
  MaxForce     \* bound on force reconciles

Callers == Workers \cup Handlers

ASSUME ControllersAssumption ==
  /\ Pods \subseteq Objects /\ Watched \subseteq Objects
  /\ Initial \in [Objects -> SUBSET Images]
  /\ CooldownOn \in BOOLEAN
  /\ MaxEdits \in Nat /\ MaxForce \in Nat
  /\ Handlers \cap Workers = {}
  /\ None \notin Objects \cup Images /\ \A s \in SUBSET Images : s # None

VARIABLES
  spec,        \* API server: the images of each object, None when it does not exist
  queued,      \* work queue: objects to be reconciled
  waiting,     \* work queue: objects to be requeued later
  obj,         \* the object a caller is reconciling
  todo,        \* its images mirrorPodImages has yet to go through
  img,         \* the image Mirror is working on for the caller
  erred,       \* mirrorPodImages has seen an error
  kinds,       \* the kinds of objects a ForceReconcile still has to list
  list,        \* what it still has to go through of one list: <<object, images>>
  abandoned,   \* history: images an object stopped running, or a force reconcile failed on
  cooling,     \* images (targets) in failure cooldown
  mirrored,    \* images present at the target
  edits, forced

api == <<spec, edits>>
queue == <<queued, waiting>>
calls == <<obj, todo, img, erred>>
pusher == <<cooling, mirrored>>
force == <<kinds, list, forced>>
vars == <<api, queue, calls, pusher, force, abandoned>>

Init ==
  /\ spec = [o \in Objects |-> None]
  /\ queued = {} /\ waiting = {}
  /\ obj = [c \in Callers |-> None]
  /\ todo = [c \in Callers |-> {}]
  /\ img = [c \in Callers |-> None]
  /\ erred = [c \in Callers |-> FALSE]
  /\ kinds = [h \in Handlers |-> {}] /\ list = [h \in Handlers |-> {}]
  /\ cooling = {} /\ mirrored = {} /\ abandoned = {}
  /\ edits = 0 /\ forced = 0

present == {o \in Objects : spec[o] # None}

-----------------------------------------------------------------------------
(* Events.  Workload controllers filter with GenerationChangedPredicate,   *)
(* the pod controller with ResourceVersionChangedPredicate: both let       *)
(* creations, deletions and real changes through, and neither a resync,    *)
(* which repeats an object that has not changed.                           *)

passes(o, event) ==
  CASE event \in {"create", "delete", "generation"} -> TRUE
    [] event = "status" -> o \in Pods
    [] event = "resync" -> FALSE

notify(o, event) == queued' = IF passes(o, event) THEN queued \cup {o} ELSE queued

Create(o) ==
  /\ spec[o] = None
  /\ spec' = [spec EXCEPT ![o] = Initial[o]]
  /\ notify(o, "create")
  /\ UNCHANGED <<edits, waiting, calls, pusher, force, abandoned>>

\* A new image in the template, or a pod that has finished and runs none.
Edit(o, images) ==
  /\ o \in present /\ images # spec[o]
  /\ edits < MaxEdits
  /\ edits' = edits + 1
  /\ spec' = [spec EXCEPT ![o] = images]
  /\ abandoned' = abandoned \cup (spec[o] \ images)
  /\ notify(o, "generation")
  /\ UNCHANGED <<waiting, calls, pusher, force>>

Delete(o) ==
  /\ o \in present
  /\ edits < MaxEdits
  /\ edits' = edits + 1
  /\ spec' = [spec EXCEPT ![o] = None]
  /\ abandoned' = abandoned \cup spec[o]
  /\ notify(o, "delete")
  /\ UNCHANGED <<waiting, calls, pusher, force>>

StatusChange(o) ==
  /\ o \in present
  /\ notify(o, "status")
  /\ UNCHANGED <<api, waiting, calls, pusher, force, abandoned>>

\* cache.Options.SyncPeriod, forceReconcileMinutes in the configuration.
Resync(o) ==
  /\ o \in present
  /\ notify(o, "resync")
  /\ UNCHANGED <<api, waiting, calls, pusher, force, abandoned>>

-----------------------------------------------------------------------------
(* Reconcile.  The queue never hands one object to two workers.            *)

idle(c) == obj[c] = None

taken(w, o) ==
  /\ idle(w)
  /\ o \in queued /\ \A v \in Workers : obj[v] # o
  /\ queued' = queued \ {o}

ReconcileMutant(w, o) ==
  /\ taken(w, o)
  /\ o \in Watched
  /\ obj' = [obj EXCEPT ![w] = o]
  /\ todo' = [todo EXCEPT ![w] = IF o \in present THEN spec[o] ELSE {None}]
  /\ UNCHANGED <<api, waiting, img, erred, pusher, force, abandoned>>
Reconcile(w, o) ==
  /\ taken(w, o)
  /\ \/ /\ o \in Watched /\ o \in present
        /\ obj' = [obj EXCEPT ![w] = o]
        /\ todo' = [todo EXCEPT ![w] = spec[o]]
     \/ /\ o \notin Watched \/ o \notin present
        /\ UNCHANGED <<obj, todo>>
  /\ UNCHANGED <<api, waiting, img, erred, pusher, force, abandoned>>

\* Reading the object, an owner or the node fails: the error is returned.
FetchFails(w, o) ==
  /\ taken(w, o)
  /\ o \in Watched
  /\ waiting' = waiting \cup {o}
  /\ UNCHANGED <<api, calls, pusher, force, abandoned>>

busyMutant(i) == FALSE
busy(i) == \E c \in Callers : img[c] = i

\* One iteration of mirrorPodImages up to Mirror's beginProcessing.
MirrorImage(c, i) ==
  /\ ~idle(c) /\ img[c] = None /\ i \in todo[c]
  /\ todo' = [todo EXCEPT ![c] = @ \ {i}]
  /\ \/ /\ i \in cooling
        /\ erred' = [erred EXCEPT ![c] = TRUE]
        /\ UNCHANGED img
     \/ /\ i \notin cooling /\ busy(i)
        /\ UNCHANGED <<erred, img>>
     \/ /\ i \notin cooling /\ ~busy(i)
        /\ img' = [img EXCEPT ![c] = i]
        /\ UNCHANGED erred
  /\ UNCHANGED <<api, queue, obj, pusher, force, abandoned>>

MirrorSucceeds(c, i) ==
  /\ img[c] = i /\ i # None
  /\ mirrored' = mirrored \cup {i}
  /\ img' = [img EXCEPT ![c] = None]
  /\ UNCHANGED <<api, queue, obj, todo, erred, cooling, force, abandoned>>

\* The loop goes on with the next image: one failure does not stop it.  A force
\* reconcile answers its request with the failure and does not try again.
MirrorFailsMutant(c, i) ==
  /\ img[c] = i /\ i # None
  /\ img' = [img EXCEPT ![c] = None]
  /\ cooling' = IF CooldownOn THEN cooling \cup {i} ELSE cooling
  /\ abandoned' = IF c \in Handlers THEN abandoned \cup {i} ELSE abandoned
  /\ UNCHANGED <<api, queue, obj, todo, erred, mirrored, force>>
MirrorFails(c, i) ==
  /\ img[c] = i /\ i # None
  /\ img' = [img EXCEPT ![c] = None]
  /\ erred' = [erred EXCEPT ![c] = TRUE]
  /\ cooling' = IF CooldownOn THEN cooling \cup {i} ELSE cooling
  /\ abandoned' = IF c \in Handlers THEN abandoned \cup {i} ELSE abandoned
  /\ UNCHANGED <<api, queue, obj, todo, mirrored, force>>

\* An error comes back as RequeueAfter or as a rate-limited retry.
mirrorResultForErrorMutant(w) == waiting
mirrorResultForError(w) == IF erred[w] THEN waiting \cup {obj[w]} ELSE waiting

finished(c) == ~idle(c) /\ img[c] = None /\ todo[c] = {}

clear(c) ==
  /\ obj' = [obj EXCEPT ![c] = None]
  /\ erred' = [erred EXCEPT ![c] = FALSE]

ReconcileReturns(w) ==
  /\ finished(w)
  /\ waiting' = mirrorResultForError(w)
  /\ clear(w)
  /\ UNCHANGED <<api, queued, todo, img, pusher, force, abandoned>>

Requeue(o) ==
  /\ o \in waiting
  /\ waiting' = waiting \ {o}
  /\ queued' = queued \cup {o}
  /\ UNCHANGED <<api, calls, pusher, force, abandoned>>

\* beginProcessing drops the entry once failureCooldown has passed.
CooldownEnds(i) ==
  /\ i \in cooling
  /\ cooling' = cooling \ {i}
  /\ UNCHANGED <<api, queue, calls, mirrored, force, abandoned>>

-----------------------------------------------------------------------------
(* ForceReconcile: one kind of object after the other, in the configured   *)
(* order, is listed and mirrored from that list, and nothing is requeued.  *)
(* Every request has its own, and nothing keeps two from overlapping.      *)

ForceReconcile(h) ==
  /\ forced < MaxForce /\ idle(h) /\ list[h] = {} /\ kinds[h] = {}
  /\ forced' = forced + 1
  /\ kinds' = [kinds EXCEPT ![h] = {Pods, Objects \ Pods}]
  /\ UNCHANGED <<api, queue, calls, pusher, list, abandoned>>

ForceList(h, k) ==
  /\ idle(h) /\ list[h] = {} /\ k \in kinds[h]
  /\ kinds' = [kinds EXCEPT ![h] = @ \ {k}]
  /\ list' = [list EXCEPT ![h] = {<<o, spec[o]>> : o \in present \cap Watched \cap k}]
  /\ UNCHANGED <<api, queue, calls, pusher, forced, abandoned>>

ForceObject(h, o, images) ==
  /\ idle(h) /\ <<o, images>> \in list[h]
  /\ list' = [list EXCEPT ![h] = @ \ {<<o, images>>}]
  /\ obj' = [obj EXCEPT ![h] = o]
  /\ todo' = [todo EXCEPT ![h] = images]
  /\ UNCHANGED <<api, queue, img, erred, pusher, kinds, forced, abandoned>>

ForceObjectDone(h) ==
  /\ finished(h)
  /\ clear(h)
  /\ UNCHANGED <<api, queue, todo, img, pusher, force, abandoned>>

\* A list, or reading a pod's owner or node, fails: the rest is not looked at.
ForceAborts(h) ==
  /\ idle(h) /\ (kinds[h] # {} \/ \E o \in Pods, s \in SUBSET Images : <<o, s>> \in list[h])
  /\ list' = [list EXCEPT ![h] = {}] /\ kinds' = [kinds EXCEPT ![h] = {}]
  /\ UNCHANGED <<api, queue, calls, pusher, forced, abandoned>>

ForceStep(h) ==
  \/ \E k \in kinds[h] : ForceList(h, k)
  \/ \E o \in Objects, s \in SUBSET Images : ForceObject(h, o, s)
  \/ ForceObjectDone(h) \/ ForceAborts(h)

Events == \E o \in Objects :
  Create(o) \/ Delete(o) \/ StatusChange(o) \/ Resync(o) \/ \E s \in SUBSET Images : Edit(o, s)

Mirror(c) == \E i \in Images : MirrorImage(c, i) \/ MirrorSucceeds(c, i) \/ MirrorFails(c, i)

Next ==
  \/ Events
  \/ \E w \in Workers : ReconcileReturns(w) \/ \E o \in Objects : Reconcile(w, o) \/ FetchFails(w, o)
  \/ \E c \in Callers : Mirror(c)
  \/ \E o \in Objects : Requeue(o)
  \/ \E i \in Images : CooldownEnds(i)
  \/ \E h \in Handlers : ForceReconcile(h) \/ ForceStep(h)

(***************************************************************************)
(* Workers and timers go on, which takes that every call of Mirror returns *)
(* (CallsReturn of Pusher says when it may not); the queue is first in,    *)
(* first out, so every queued object is taken again and again if it has to *)
(* be; and the registries and the API server recover: a call repeated      *)
(* often enough succeeds in the end.                                       *)
(***************************************************************************)
Fairness ==
  /\ \A c \in Callers : WF_vars(Mirror(c))
  /\ \A w \in Workers : WF_vars(ReconcileReturns(w))
  /\ \A o \in Objects : /\ SF_vars(\E w \in Workers : Reconcile(w, o))
                        /\ WF_vars(Requeue(o))
                        /\ WF_vars(Resync(o))
  /\ \A i \in Images : /\ SF_vars(\E c \in Callers : MirrorSucceeds(c, i))
                       /\ WF_vars(CooldownEnds(i))
  /\ \A h \in Handlers : WF_vars(ForceStep(h))

Spec == Init /\ [][Next]_vars /\ Fairness

-----------------------------------------------------------------------------
wanted(o, i) == o \in Watched /\ o \in present /\ i \in spec[o]

\* Some object that runs i is queued, waiting, or being reconciled with i ahead of it.
accountedFor(i) ==
  \E o \in Objects :
    /\ wanted(o, i)
    /\ \/ o \in queued \cup waiting
       \/ \E w \in Workers : obj[w] = o /\ (i \in todo[w] \/ img[w] = i \/ erred[w])

(* Every variable has its type.                                            *)
TypeOK ==
  /\ spec \in [Objects -> (SUBSET Images) \cup {None}]
  /\ queued \subseteq Objects /\ waiting \subseteq Objects
  /\ obj \in [Callers -> Objects \cup {None}]
  /\ todo \in [Callers -> SUBSET Images]
  /\ img \in [Callers -> Images \cup {None}]
  /\ erred \in [Callers -> BOOLEAN]
  /\ kinds \in [Handlers -> SUBSET (SUBSET Objects)]
  /\ list \in [Handlers -> SUBSET (Objects \X (SUBSET Images))]
  /\ cooling \subseteq Images /\ mirrored \subseteq Images /\ abandoned \subseteq Images
  /\ edits \in 0..MaxEdits /\ forced \in 0..MaxForce

(* No image is forgotten: while an image some watched object runs is not   *)
(* at the target, an object that runs it is still going to be reconciled,  *)
(* or a force reconcile is working on it.  The object that was skipped     *)
(* because another caller was under way is not requeued itself: it depends *)
(* on that caller, which may be a worker with another object or a force    *)
(* reconcile that mirrors from an old list.  The image is out of sight     *)
(* only if some object stopped running it, or if a force reconcile failed  *)
(* on it, which the answer to the request says.                            *)
NoImageForgotten ==
  \A o \in Objects, i \in Images :
    wanted(o, i) /\ i \notin mirrored \cup abandoned =>
      accountedFor(i) \/ \E h \in Handlers : img[h] = i

(* Every image a watched object runs is mirrored in the end, unless the    *)
(* object stops running it, although its own calls fail, are in cooldown   *)
(* or are skipped for another object's.                                    *)
EventuallyMirrored ==
  \A o \in Objects, i \in Images : wanted(o, i) ~> (i \in mirrored \/ ~wanted(o, i))

-----------------------------------------------------------------------------
Service == INSTANCE MirrorService WITH Targets <- Images, working <- img

(* What this module assumes of Mirror is what the pusher promises: every   *)
(* step of the reconcilers and of the force reconcile is, for the pusher,  *)
(* a step of MirrorService or none.                                        *)
UsesService == Service!Spec
=============================================================================
