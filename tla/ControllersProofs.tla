-------------------------- MODULE ControllersProofs --------------------------
(***************************************************************************)
(* Proofs about Controllers: no image is forgotten, and the controllers    *)
(* use the pusher as MirrorService promises it.  The first rests on what a *)
(* worker works from: an image its object runs now, or one that an object  *)
(* stopped running.  So the worker that makes another one skip an image is *)
(* itself accountable for it.                                              *)
(***************************************************************************)
EXTENDS Controllers, TLAPS

LEMMA TypeInit == Init => TypeOK
BY ControllersAssumption DEF Init, TypeOK, Callers

LEMMA TypeEvents == ASSUME TypeOK, Events PROVE TypeOK'
<1> USE DEF TypeOK, queue, calls, pusher, force, api
<1>1. ASSUME NEW o \in Objects, Create(o) PROVE TypeOK'
  BY <1>1, ControllersAssumption DEF Create, notify
<1>2. ASSUME NEW o \in Objects, NEW s \in SUBSET Images, Edit(o, s) PROVE TypeOK'
  <2>1. spec[o] \in SUBSET Images
    BY <1>2 DEF Edit, present
  <2> QED BY <1>2, <2>1, ControllersAssumption DEF Edit, notify
<1>3. ASSUME NEW o \in Objects, Delete(o) PROVE TypeOK'
  <2>1. spec[o] \in SUBSET Images
    BY <1>3 DEF Delete, present
  <2> QED BY <1>3, <2>1, ControllersAssumption DEF Delete, notify
<1>4. ASSUME NEW o \in Objects, StatusChange(o) \/ Resync(o) PROVE TypeOK'
  BY <1>4 DEF StatusChange, Resync, notify
<1> QED BY <1>1, <1>2, <1>3, <1>4 DEF Events

LEMMA TypeWorker ==
  ASSUME TypeOK, NEW w \in Workers, NEW o \in Objects,
         Reconcile(w, o) \/ FetchFails(w, o) \/ ReconcileReturns(w) \/ Requeue(o)
  PROVE  TypeOK'
<1> USE DEF TypeOK, queue, calls, pusher, force, api, Callers
<1>1. CASE Reconcile(w, o)
  <2>1. CASE o \in present
    <3>1. spec[o] \in SUBSET Images
      BY <2>1 DEF present
    <3> QED BY <1>1, <3>1 DEF Reconcile, taken
  <2>2. CASE o \notin present
    BY <1>1, <2>2 DEF Reconcile, taken
  <2> QED BY <2>1, <2>2
<1>2. CASE FetchFails(w, o)
  BY <1>2 DEF FetchFails, taken
<1>3. CASE ReconcileReturns(w)
  <2>1. obj[w] \in Objects
    BY <1>3 DEF ReconcileReturns, finished, idle
  <2> QED BY <1>3, <2>1 DEF ReconcileReturns, mirrorResultForError, clear
<1>4. CASE Requeue(o)
  BY <1>4 DEF Requeue
<1> QED BY <1>1, <1>2, <1>3, <1>4

LEMMA TypeMirror ==
  ASSUME TypeOK, NEW c \in Callers, NEW i \in Images,
         MirrorImage(c, i) \/ MirrorSucceeds(c, i) \/ MirrorFails(c, i) \/ CooldownEnds(i)
  PROVE  TypeOK'
<1> USE DEF TypeOK, queue, calls, pusher, force, api
<1>1. CASE MirrorImage(c, i)
  BY <1>1 DEF MirrorImage
<1>2. CASE MirrorSucceeds(c, i)
  BY <1>2 DEF MirrorSucceeds
<1>3. CASE MirrorFails(c, i)
  BY <1>3 DEF MirrorFails
<1>4. CASE CooldownEnds(i)
  BY <1>4 DEF CooldownEnds
<1> QED BY <1>1, <1>2, <1>3, <1>4

LEMMA TypeForce ==
  ASSUME TypeOK, NEW h \in Handlers, ForceReconcile(h) \/ ForceStep(h) PROVE TypeOK'
<1> USE DEF TypeOK, queue, calls, pusher, force, api, Callers
<1>1. CASE ForceReconcile(h)
  BY <1>1, ControllersAssumption DEF ForceReconcile
<1>2. ASSUME NEW k \in kinds[h], ForceList(h, k) PROVE TypeOK'
  <2> DEFINE new == {<<o, spec[o]>> : o \in present \cap Watched \cap k}
  <2>1. \A o \in present : o \in Objects /\ spec[o] \in SUBSET Images
    BY DEF present
  <2>2. new \in SUBSET (Objects \X (SUBSET Images)) /\ list' = [list EXCEPT ![h] = new]
    BY <1>2, <2>1 DEF ForceList
  <2> HIDE DEF new
  <2> QED BY <1>2, <2>2 DEF ForceList
<1>3. ASSUME NEW o \in Objects, NEW s \in SUBSET Images, ForceObject(h, o, s) PROVE TypeOK'
  BY <1>3 DEF ForceObject
<1>4. CASE ForceObjectDone(h)
  BY <1>4 DEF ForceObjectDone, clear
<1>5. CASE ForceAborts(h)
  BY <1>5 DEF ForceAborts
<1> QED BY <1>1, <1>2, <1>3, <1>4, <1>5 DEF ForceStep

LEMMA TypeNext == TypeOK /\ [Next]_vars => TypeOK'
<1> SUFFICES ASSUME TypeOK, [Next]_vars PROVE TypeOK'
  OBVIOUS
<1>1. CASE UNCHANGED vars
  BY <1>1 DEF vars, TypeOK, queue, calls, pusher, force, api
<1>2. ASSUME NEW w \in Workers, ReconcileReturns(w) PROVE TypeOK'
  <2>1. obj[w] \in Objects
    BY <1>2 DEF ReconcileReturns, finished, idle, TypeOK, Callers
  <2> QED BY <1>2, <2>1, TypeWorker
<1>3. ASSUME NEW w \in Workers, NEW o \in Objects, Reconcile(w, o) \/ FetchFails(w, o) PROVE TypeOK'
  BY <1>3, TypeWorker
<1>4. ASSUME NEW o \in Objects, Requeue(o) PROVE TypeOK'
  BY <1>4 DEF Requeue, TypeOK, queue, calls, pusher, force, api
<1>5. ASSUME NEW i \in Images, CooldownEnds(i) PROVE TypeOK'
  BY <1>5 DEF CooldownEnds, TypeOK, queue, calls, pusher, force, api
<1> QED BY <1>1, <1>2, <1>3, <1>4, <1>5, TypeEvents, TypeMirror, TypeForce DEF Next, Mirror

(* Every variable of the controllers keeps its type, whatever the number   *)
(* of workers, objects and images.                                         *)
THEOREM TypeCorrect == Spec => []TypeOK
BY TypeInit, TypeNext, PTL DEF Spec

-----------------------------------------------------------------------------
(* No image is forgotten. *)

LEMMA TheCallers ==
  /\ Workers \subseteq Callers /\ Handlers \subseteq Callers /\ Handlers \cap Workers = {}
  /\ \A c \in Callers : c \in Workers \/ c \in Handlers
BY ControllersAssumption DEF Callers

\* A worker works on an image its object runs, or on one that was given up.
works(w, i) == obj[w] # None /\ (wanted(obj[w], i) \/ i \in abandoned)

WorksFromSpec ==
  \A w \in Workers :
    /\ obj[w] # None => \A i \in todo[w] : works(w, i)
    /\ img[w] # None => works(w, img[w])

\* Histories and the target only grow.
LEMMA Monotone == ASSUME [Next]_vars PROVE mirrored \subseteq mirrored' /\ abandoned \subseteq abandoned'
BY DEF Next, Events, Mirror, ForceStep, Create, Edit, Delete, StatusChange, Resync, Reconcile,
       FetchFails, ReconcileReturns, MirrorImage, MirrorSucceeds, MirrorFails, Requeue, CooldownEnds,
       ForceReconcile, ForceList, ForceObject, ForceObjectDone, ForceAborts, vars, pusher

\* An object that stops running an image leaves a trace.
LEMMA WantedKept ==
  ASSUME TypeOK, [Next]_vars, NEW o \in Objects, NEW i \in Images, wanted(o, i)
  PROVE  wanted(o, i)' \/ i \in abandoned'
<1>0. spec \in [Objects -> (SUBSET Images) \cup {None}] /\ None \notin Images
  BY ControllersAssumption DEF TypeOK
<1>1. CASE UNCHANGED spec
  BY <1>1 DEF wanted, present
<1>2. ASSUME NEW p \in Objects, Create(p) PROVE wanted(o, i)'
  BY <1>0, <1>2 DEF Create, wanted, present
<1>3. ASSUME NEW p \in Objects, NEW s \in SUBSET Images, Edit(p, s) PROVE wanted(o, i)' \/ i \in abandoned'
  <2>1. s # None
    BY ControllersAssumption
  <2> QED BY <1>0, <1>3, <2>1 DEF Edit, wanted, present
<1>4. ASSUME NEW p \in Objects, Delete(p) PROVE wanted(o, i)' \/ i \in abandoned'
  BY <1>0, <1>4 DEF Delete, wanted, present
<1> QED BY <1>1, <1>2, <1>3, <1>4
        DEF Next, Events, Mirror, ForceStep, StatusChange, Resync, Reconcile, FetchFails, ReconcileReturns,
            MirrorImage, MirrorSucceeds, MirrorFails, Requeue, CooldownEnds, ForceReconcile, ForceList,
            ForceObject, ForceObjectDone, ForceAborts, vars, api

LEMMA WorksNext == TypeOK /\ WorksFromSpec /\ [Next]_vars => WorksFromSpec'
<1> SUFFICES ASSUME TypeOK, WorksFromSpec, [Next]_vars PROVE WorksFromSpec'
  OBVIOUS
<1>0. /\ obj \in [Callers -> Objects \cup {None}] /\ img \in [Callers -> Images \cup {None}]
      /\ todo \in [Callers -> SUBSET Images] /\ spec \in [Objects -> (SUBSET Images) \cup {None}]
      /\ Workers \subseteq Callers /\ None \notin Objects /\ None \notin Images
  BY TheCallers, ControllersAssumption DEF TypeOK
\* What a worker works on stays what it may work on while it keeps its object.
<1>1. ASSUME NEW w \in Workers, NEW i \in Images, works(w, i), obj'[w] = obj[w] PROVE works(w, i)'
  <2>1. PICK o \in Objects : obj[w] = o
    BY <1>0, <1>1 DEF works
  <2>2. abandoned \subseteq abandoned'
    BY Monotone
  <2>3. wanted(o, i) => wanted(o, i)' \/ i \in abandoned'
    BY WantedKept
  <2>4. wanted(o, i) \/ i \in abandoned
    BY <1>1, <2>1 DEF works
  <2> QED BY <1>0, <1>1, <2>1, <2>2, <2>3, <2>4 DEF works, wanted, present
<1>2. CASE UNCHANGED <<obj, img, todo>>
  BY <1>0, <1>1, <1>2 DEF WorksFromSpec
<1>3. ASSUME NEW w \in Workers, NEW o \in Objects, Reconcile(w, o) PROVE WorksFromSpec'
  <2>1. /\ UNCHANGED <<spec, img, abandoned>> /\ obj[w] = None
        /\ \/ UNCHANGED <<obj, todo>>
           \/ /\ o \in Watched /\ o \in present
              /\ obj' = [obj EXCEPT ![w] = o]
              /\ todo' = [todo EXCEPT ![w] = spec[o]]
    BY <1>3 DEF Reconcile, taken, idle, api
  <2>2. CASE UNCHANGED <<obj, todo>>
    BY <1>2, <2>1, <2>2
  <2>3. CASE /\ o \in Watched /\ o \in present
             /\ obj' = [obj EXCEPT ![w] = o] /\ todo' = [todo EXCEPT ![w] = spec[o]]
    <3>1. obj'[w] = o /\ todo'[w] = spec[o] /\ img'[w] = None
      BY <1>0, <2>1, <2>3 DEF WorksFromSpec, works
    <3>2. \A i \in todo'[w] : works(w, i)'
      BY <1>0, <2>1, <2>3, <3>1 DEF works, wanted, present
    <3>3. \A v \in Workers \ {w} : obj'[v] = obj[v] /\ todo'[v] = todo[v] /\ img'[v] = img[v]
      BY <1>0, <2>1, <2>3
    <3> QED BY <1>0, <1>1, <3>1, <3>2, <3>3 DEF WorksFromSpec
  <2> QED BY <2>1, <2>2, <2>3
<1>4. ASSUME NEW w \in Workers, ReconcileReturns(w) PROVE WorksFromSpec'
  <2>1. /\ img[w] = None /\ UNCHANGED <<todo, img>> /\ obj'[w] = None
        /\ \A v \in Workers \ {w} : obj'[v] = obj[v]
    BY <1>0, <1>4 DEF ReconcileReturns, finished, clear
  <2> QED BY <1>0, <1>1, <2>1 DEF WorksFromSpec
<1>5. ASSUME NEW c \in Callers, NEW i \in Images, MirrorImage(c, i) PROVE WorksFromSpec'
  <2>1. /\ UNCHANGED obj /\ obj[c] # None /\ i \in todo[c]
        /\ todo' = [todo EXCEPT ![c] = todo[c] \ {i}]
        /\ UNCHANGED img \/ img' = [img EXCEPT ![c] = i]
    BY <1>0, <1>5 DEF MirrorImage, idle
  <2>2. \A w \in Workers : todo'[w] \subseteq todo[w] /\ (img'[w] = img[w] \/ (w = c /\ img'[w] = i))
    BY <1>0, <2>1
  <2> QED BY <1>0, <1>1, <2>1, <2>2 DEF WorksFromSpec
<1>6. ASSUME NEW c \in Callers, NEW i \in Images, MirrorSucceeds(c, i) \/ MirrorFails(c, i)
      PROVE  WorksFromSpec'
  <2>1. UNCHANGED <<obj, todo>> /\ img' = [img EXCEPT ![c] = None]
    BY <1>6 DEF MirrorSucceeds, MirrorFails
  <2>2. \A w \in Workers : img'[w] = img[w] \/ img'[w] = None
    BY <1>0, <2>1
  <2> QED BY <1>0, <1>1, <2>1, <2>2 DEF WorksFromSpec
<1>7. ASSUME NEW h \in Handlers, ForceReconcile(h) \/ ForceStep(h) PROVE WorksFromSpec'
  <2>1. UNCHANGED img /\ \A w \in Workers : obj'[w] = obj[w] /\ todo'[w] = todo[w]
    BY <1>0, <1>7, TheCallers DEF ForceReconcile, ForceStep, ForceList, ForceObject, ForceObjectDone,
                                  ForceAborts, clear, calls
  <2> QED BY <1>0, <1>1, <2>1 DEF WorksFromSpec
<1>8. ASSUME Events \/ (\E w \in Workers, o \in Objects : FetchFails(w, o))
             \/ (\E o \in Objects : Requeue(o)) \/ (\E i \in Images : CooldownEnds(i)) \/ UNCHANGED vars
      PROVE  UNCHANGED <<obj, img, todo>>
  BY <1>8 DEF Events, Create, Edit, Delete, StatusChange, Resync, FetchFails, Requeue, CooldownEnds,
              vars, calls
<1> QED BY <1>2, <1>3, <1>4, <1>5, <1>6, <1>7, <1>8 DEF Next, Mirror

\* Worker w is reconciling an object that runs i, and i is still ahead of it.
accountable(w, i) ==
  /\ obj[w] # None /\ wanted(obj[w], i)
  /\ i \in todo[w] \/ img[w] = i \/ erred[w]

\* An object that runs i is in the queue.
pending(i) == \E o \in Objects : wanted(o, i) /\ o \in queued \cup waiting

LEMMA Accounted ==
  ASSUME TypeOK, NEW i \in Images
  PROVE  accountedFor(i) <=> pending(i) \/ \E w \in Workers : accountable(w, i)
<1>1. \A w \in Workers : obj[w] \in Objects \cup {None}
  BY TheCallers DEF TypeOK
<1>2. None \notin Objects
  BY ControllersAssumption
<1> QED BY <1>1, <1>2 DEF accountedFor, accountable, pending

\* The same of the state after a step.
LEMMA AccountedNext ==
  ASSUME TypeOK', NEW i \in Images, pending(i)' \/ \E w \in Workers : accountable(w, i)'
  PROVE  accountedFor(i)'
<1>1. \A w \in Workers : obj'[w] \in Objects \cup {None}
  BY TheCallers DEF TypeOK
<1> QED BY <1>1 DEF accountedFor, accountable, pending

LEMMA ForgottenWorker ==
  ASSUME TypeOK, TypeOK', NEW i \in Images, accountedFor(i),
         NEW w \in Workers, NEW p \in Objects,
         Reconcile(w, p) \/ FetchFails(w, p) \/ ReconcileReturns(w)
  PROVE  accountedFor(i)'
<1>0. /\ obj \in [Callers -> Objects \cup {None}] /\ todo \in [Callers -> SUBSET Images]
      /\ erred \in [Callers -> BOOLEAN] /\ None \notin Objects
      /\ Workers \subseteq Callers /\ i # None
  BY TheCallers, ControllersAssumption DEF TypeOK
<1>s. UNCHANGED spec
  BY DEF Reconcile, FetchFails, ReconcileReturns, api
<1>1. \A o \in Objects : wanted(o, i) <=> wanted(o, i)'
  BY <1>s DEF wanted, present
<1>2. CASE Reconcile(w, p)
  <2>1. /\ obj[w] = None /\ queued' = queued \ {p} /\ UNCHANGED <<waiting, img, erred>>
        /\ \/ /\ p \in Watched /\ p \in present
              /\ obj' = [obj EXCEPT ![w] = p] /\ todo' = [todo EXCEPT ![w] = spec[p]]
           \/ (p \notin Watched \/ p \notin present) /\ UNCHANGED <<obj, todo>>
    BY <1>2 DEF Reconcile, taken, idle
  <2>2. ASSUME pending(i) PROVE pending(i)' \/ accountable(w, i)'
    <3>1. PICK o \in Objects : wanted(o, i) /\ o \in queued \cup waiting
      BY <2>2 DEF pending
    <3>2. CASE o = p
      <4>1. obj'[w] = p /\ i \in todo'[w]
        BY <1>0, <2>1, <3>1, <3>2 DEF wanted
      <4> QED BY <1>0, <1>1, <3>1, <3>2, <4>1 DEF accountable
    <3>3. CASE o # p
      BY <1>1, <2>1, <3>1, <3>3 DEF pending
    <3> QED BY <3>2, <3>3
  <2>3. ASSUME NEW v \in Workers, accountable(v, i) PROVE accountable(v, i)'
    <3>1. v # w /\ obj'[v] = obj[v] /\ todo'[v] = todo[v]
      BY <1>0, <2>1, <2>3 DEF accountable
    <3>2. obj[v] \in Objects
      BY <1>0, <2>3 DEF accountable
    <3> QED BY <1>1, <2>1, <2>3, <3>1, <3>2 DEF accountable
  <2> QED BY <2>2, <2>3, Accounted, AccountedNext
<1>3. CASE FetchFails(w, p)
  <2>1. queued' = queued \ {p} /\ waiting' = waiting \cup {p} /\ UNCHANGED <<obj, todo, img, erred>>
    BY <1>3 DEF FetchFails, taken, calls
  <2> QED BY <1>1, <2>1 DEF accountedFor
<1>4. CASE ReconcileReturns(w)
  <2>1. /\ obj[w] # None /\ img[w] = None /\ todo[w] = {} /\ UNCHANGED <<queued, todo, img>>
        /\ waiting' = (IF erred[w] THEN waiting \cup {obj[w]} ELSE waiting)
        /\ \A v \in Workers \ {w} : obj'[v] = obj[v] /\ erred'[v] = erred[v]
    BY <1>0, <1>4 DEF ReconcileReturns, finished, idle, mirrorResultForError, clear
  <2>2. ASSUME pending(i) PROVE pending(i)'
    BY <1>1, <2>1, <2>2 DEF pending
  <2>3. ASSUME accountable(w, i) PROVE pending(i)'
    BY <1>0, <1>1, <2>1, <2>3 DEF accountable, pending
  <2>4. ASSUME NEW v \in Workers \ {w}, accountable(v, i) PROVE accountable(v, i)'
    <3>1. obj[v] \in Objects
      BY <1>0, <2>4 DEF accountable
    <3> QED BY <1>1, <2>1, <2>4, <3>1 DEF accountable
  <2> QED BY <2>2, <2>3, <2>4, Accounted, AccountedNext
<1> QED BY <1>2, <1>3, <1>4

\* A force reconcile is working on i.
forcing(i) == \E h \in Handlers : img[h] = i

LEMMA ForgottenMirror ==
  ASSUME TypeOK, TypeOK', WorksFromSpec, NEW i \in Images, i \notin mirrored' \cup abandoned',
         accountedFor(i) \/ forcing(i), NEW c \in Callers, NEW j \in Images,
         MirrorImage(c, j) \/ MirrorSucceeds(c, j) \/ MirrorFails(c, j)
  PROVE  accountedFor(i)' \/ forcing(i)'
<1>0. /\ obj \in [Callers -> Objects \cup {None}] /\ todo \in [Callers -> SUBSET Images]
      /\ img \in [Callers -> Images \cup {None}] /\ erred \in [Callers -> BOOLEAN]
      /\ Workers \subseteq Callers /\ Handlers \subseteq Callers
      /\ None \notin Images /\ None \notin Objects
  BY TheCallers, ControllersAssumption DEF TypeOK
<1>s. UNCHANGED <<spec, queued, waiting, obj>> /\ abandoned \subseteq abandoned'
  BY DEF MirrorImage, MirrorSucceeds, MirrorFails, api, queue
<1>1. \A o \in Objects : wanted(o, i) <=> wanted(o, i)'
  BY <1>s DEF wanted, present
<1>2. ASSUME pending(i) PROVE pending(i)'
  BY <1>1, <1>2, <1>s DEF pending
<1>3. ASSUME NEW v \in Workers, accountable(v, i),
             i \in todo'[v] \/ img'[v] = i \/ erred'[v]
      PROVE  accountable(v, i)'
  <2>1. obj[v] \in Objects
    BY <1>0, <1>3 DEF accountable
  <2> QED BY <1>1, <1>3, <1>s, <2>1 DEF accountable
\* A handler's own call ends with the image at the target or given up.
<1>4. ASSUME NEW h \in Handlers, img[h] = i PROVE img'[h] = i
  <2>1. CASE MirrorImage(c, j)
    BY <1>0, <1>4, <2>1 DEF MirrorImage
  <2>2. CASE MirrorSucceeds(c, j)
    BY <1>0, <1>4, <2>2 DEF MirrorSucceeds
  <2>3. CASE MirrorFails(c, j)
    BY <1>0, <1>4, <2>3 DEF MirrorFails
  <2> QED BY <2>1, <2>2, <2>3
<1>5. ASSUME NEW v \in Workers, accountable(v, i) PROVE accountedFor(i)' \/ forcing(i)'
  <2>1. CASE i \in todo'[v] \/ img'[v] = i \/ erred'[v]
    BY <1>3, <1>5, <2>1, AccountedNext
  <2>2. CASE ~(i \in todo'[v] \/ img'[v] = i \/ erred'[v])
    <3>1. CASE MirrorImage(c, j)
      \* j = i was skipped: a force reconcile holds it, or a worker whose object runs it.
      <4>1. v = c /\ i = j /\ busy(i) /\ UNCHANGED img
        BY <1>0, <1>5, <2>2, <3>1 DEF MirrorImage, accountable
      <4>2. PICK b \in Callers : img[b] = i
        BY <4>1 DEF busy
      <4>3. CASE b \in Handlers
        BY <4>1, <4>2, <4>3 DEF forcing
      <4>4. CASE b \in Workers
        <5>1. works(b, i)
          BY <1>0, <4>2, <4>4 DEF WorksFromSpec
        <5>2. accountable(b, i)
          BY <1>s, <4>2, <5>1 DEF works, accountable
        <5> QED BY <1>3, <4>1, <4>2, <4>4, <5>2, AccountedNext
      <4> QED BY <4>3, <4>4, TheCallers
    <3>2. CASE MirrorSucceeds(c, j)
      <4>1. v = c /\ i = j
        BY <1>0, <1>5, <2>2, <3>2 DEF MirrorSucceeds, accountable
      <4> QED BY <3>2, <4>1 DEF MirrorSucceeds
    <3>3. CASE MirrorFails(c, j)
      BY <1>0, <1>5, <2>2, <3>3 DEF MirrorFails, accountable
    <3> QED BY <3>1, <3>2, <3>3
  <2> QED BY <2>1, <2>2
<1> QED BY <1>2, <1>4, <1>5, Accounted, AccountedNext DEF forcing

\* An event that leaves the callers alone: what it makes an object run or stop
\* running is queued or given up.
LEMMA ForgottenEvent ==
  ASSUME TypeOK, WorksFromSpec, [Next]_vars, NEW i \in Images, i \notin abandoned',
         NEW x \in Objects, wanted(x, i)', NEW o \in Objects,
         wanted(x, i) => accountedFor(i) \/ forcing(i),
         \A p \in Objects \ {o} : spec'[p] = spec[p],
         spec'[o] = spec[o] \/ o \in queued',
         queued \cup waiting \subseteq (queued \cup waiting)', UNCHANGED <<obj, todo, img, erred>>
  PROVE  accountedFor(i)' \/ forcing(i)'
<1>1. \A p \in Objects : wanted(p, i) => wanted(p, i)'
  BY WantedKept
<1>2. CASE wanted(x, i)
  BY <1>1, <1>2 DEF accountedFor, forcing
<1>3. CASE ~wanted(x, i)
  <2>1. x = o /\ o \in queued'
    BY <1>3 DEF wanted, present
  <2> QED BY <2>1 DEF accountedFor
<1> QED BY <1>2, <1>3

LEMMA ForgottenNext ==
  TypeOK /\ TypeOK' /\ WorksFromSpec /\ NoImageForgotten /\ [Next]_vars => NoImageForgotten'
<1> SUFFICES ASSUME TypeOK, TypeOK', WorksFromSpec, NoImageForgotten, [Next]_vars,
                    NEW x \in Objects, NEW i \in Images, wanted(x, i)', i \notin mirrored' \cup abandoned'
             PROVE  accountedFor(i)' \/ forcing(i)'
  BY DEF NoImageForgotten, forcing
<1>t. /\ spec \in [Objects -> (SUBSET Images) \cup {None}] /\ Workers \subseteq Callers
      /\ obj \in [Callers -> Objects \cup {None}] /\ todo \in [Callers -> SUBSET Images]
      /\ erred \in [Callers -> BOOLEAN]
  BY TheCallers DEF TypeOK
<1>0. wanted(x, i) => accountedFor(i) \/ forcing(i)
  BY Monotone DEF NoImageForgotten, forcing
<1>1. ASSUME NEW o \in Objects, Create(o) \/ Delete(o) \/ \E s \in SUBSET Images : Edit(o, s)
      PROVE  accountedFor(i)' \/ forcing(i)'
  <2>1. /\ \A p \in Objects \ {o} : spec'[p] = spec[p]
        /\ queued' = queued \cup {o} /\ UNCHANGED <<waiting, obj, todo, img, erred>>
    BY <1>1, <1>t DEF Create, Delete, Edit, notify, passes, calls
  <2> QED BY <1>0, <2>1, ForgottenEvent
<1>2. ASSUME UNCHANGED <<spec, obj, todo, img, erred>>, queued \cup waiting \subseteq (queued \cup waiting)'
      PROVE  accountedFor(i)' \/ forcing(i)'
  BY <1>0, <1>2, ForgottenEvent
<1>3. ASSUME NEW o \in Objects, StatusChange(o) \/ Resync(o) \/ Requeue(o)
      PROVE  accountedFor(i)' \/ forcing(i)'
  BY <1>2, <1>3 DEF StatusChange, Resync, Requeue, notify, api, calls
<1>4. ASSUME NEW j \in Images, CooldownEnds(j) PROVE accountedFor(i)' \/ forcing(i)'
  BY <1>2, <1>4 DEF CooldownEnds, api, calls, queue
<1>5. CASE UNCHANGED vars
  BY <1>2, <1>5 DEF vars, api, calls, queue
<1>6. ASSUME UNCHANGED spec PROVE accountedFor(i) \/ forcing(i)
  BY <1>0, <1>6 DEF wanted, present
<1>7. ASSUME NEW w \in Workers, NEW o \in Objects,
             Reconcile(w, o) \/ FetchFails(w, o) \/ ReconcileReturns(w)
      PROVE  accountedFor(i)' \/ forcing(i)'
  <2>1. UNCHANGED <<spec, img>>
    BY <1>7 DEF Reconcile, FetchFails, ReconcileReturns, api, calls
  <2>2. CASE forcing(i)
    BY <2>1, <2>2 DEF forcing
  <2>3. CASE accountedFor(i)
    BY <1>7, <2>3, ForgottenWorker
  <2> QED BY <1>6, <2>1, <2>2, <2>3
<1>8. ASSUME NEW w \in Workers, ReconcileReturns(w) PROVE accountedFor(i)' \/ forcing(i)'
  BY <1>7, <1>8
<1>9. ASSUME NEW c \in Callers, Mirror(c) PROVE accountedFor(i)' \/ forcing(i)'
  <2>1. UNCHANGED spec
    BY <1>9 DEF Mirror, MirrorImage, MirrorSucceeds, MirrorFails, api
  <2> QED BY <1>6, <1>9, <2>1, ForgottenMirror DEF Mirror
<1>10. ASSUME NEW h \in Handlers, ForceReconcile(h) \/ ForceStep(h) PROVE accountedFor(i)' \/ forcing(i)'
  <2>1. /\ UNCHANGED <<spec, img, queued, waiting>>
        /\ \A w \in Workers : obj'[w] = obj[w] /\ todo'[w] = todo[w] /\ erred'[w] = erred[w]
    BY <1>10, <1>t, TheCallers DEF ForceReconcile, ForceStep, ForceList, ForceObject, ForceObjectDone,
                                   ForceAborts, clear, calls, api, queue
  <2>2. \A o \in Objects : wanted(o, i) <=> wanted(o, i)'
    BY <2>1 DEF wanted, present
  <2> QED BY <1>6, <2>1, <2>2 DEF accountedFor, forcing
<1> QED BY <1>1, <1>3, <1>4, <1>5, <1>7, <1>8, <1>9, <1>10 DEF Next, Events

(* An image that a watched object runs and that is not mirrored always has *)
(* an object still to be reconciled for it, or a force reconcile at work   *)
(* on it, unless an object stopped running it or a force reconcile failed  *)
(* on it: failures, cooldowns and calls skipped for another caller's lose  *)
(* nothing, however many workers and overlapping requests there are.       *)
THEOREM NothingForgotten == Spec => []NoImageForgotten
<1>1. Init => WorksFromSpec /\ NoImageForgotten
  BY TheCallers DEF Init, WorksFromSpec, NoImageForgotten, wanted, present
<1> QED BY <1>1, TypeInit, TypeNext, WorksNext, ForgottenNext, PTL DEF Spec

-----------------------------------------------------------------------------
(* Controllers uses the pusher as MirrorService promises it.               *)

LEMMA ServiceInit == Init => Service!Init
BY DEF Init, Service!Init

LEMMA ServiceMirror ==
  ASSUME TypeOK, NEW c \in Callers, NEW i \in Images,
         MirrorImage(c, i) \/ MirrorSucceeds(c, i) \/ MirrorFails(c, i)
  PROVE  Service!Next \/ UNCHANGED Service!vars
<1> USE DEF pusher
<1>1. CASE MirrorImage(c, i)
  <2>1. CASE UNCHANGED img
    BY <1>1, <2>1 DEF MirrorImage, Service!vars
  <2>2. CASE i \notin cooling /\ ~busy(i) /\ img' = [img EXCEPT ![c] = i]
    <3>1. Service!Begin(c, i)
      BY <1>1, <2>2 DEF MirrorImage, busy, Service!Begin
    <3> QED BY <3>1 DEF Service!Next
  <2> QED BY <1>1, <2>1, <2>2 DEF MirrorImage
<1>2. CASE MirrorSucceeds(c, i)
  <2>1. Service!Succeed(c)
    BY <1>2 DEF MirrorSucceeds, Service!Succeed, Service!ended
  <2> QED BY <2>1 DEF Service!Next
<1>3. CASE MirrorFails(c, i)
  <2>1. Service!Fail(c)
    BY <1>3 DEF MirrorFails, Service!Fail, Service!ended
  <2> QED BY <2>1 DEF Service!Next
<1> QED BY <1>1, <1>2, <1>3

LEMMA ServiceStep == TypeOK /\ [Next]_vars => [Service!Next]_(Service!vars)
<1> SUFFICES ASSUME TypeOK, [Next]_vars PROVE Service!Next \/ UNCHANGED Service!vars
  OBVIOUS
<1> USE DEF calls, pusher
<1>1. CASE UNCHANGED vars
  BY <1>1 DEF vars, Service!vars
<1>2. CASE Events
  BY <1>2 DEF Events, Create, Edit, Delete, StatusChange, Resync, Service!vars
<1>3. ASSUME NEW w \in Workers, NEW o \in Objects,
             ReconcileReturns(w) \/ Reconcile(w, o) \/ FetchFails(w, o) \/ Requeue(o)
      PROVE  UNCHANGED Service!vars
  BY <1>3 DEF ReconcileReturns, Reconcile, FetchFails, Requeue, Service!vars
<1>4. ASSUME NEW i \in Images, CooldownEnds(i) PROVE Service!Next
  <2>1. Service!Expire
    BY <1>4 DEF CooldownEnds, Service!Expire
  <2> QED BY <2>1 DEF Service!Next
<1>5. ASSUME NEW h \in Handlers, ForceReconcile(h) \/ ForceStep(h) PROVE UNCHANGED Service!vars
  BY <1>5 DEF ForceReconcile, ForceStep, ForceList, ForceObject, ForceObjectDone, ForceAborts, Service!vars
<1>6. ASSUME NEW c \in Callers, Mirror(c) PROVE Service!Next \/ UNCHANGED Service!vars
  BY <1>6, ServiceMirror DEF Mirror
<1>7. ASSUME NEW w \in Workers, ReconcileReturns(w) PROVE UNCHANGED Service!vars
  BY <1>7 DEF ReconcileReturns, Service!vars
<1>8. ASSUME NEW o \in Objects, Requeue(o) PROVE UNCHANGED Service!vars
  BY <1>8 DEF Requeue, Service!vars
<1> QED BY <1>1, <1>2, <1>3, <1>4, <1>5, <1>6, <1>7, <1>8 DEF Next

(* Every step of the reconcilers and of the force reconcile is a step of   *)
(* MirrorService or changes nothing the pusher sees.                       *)
THEOREM CallersUseService == Spec => UsesService
BY TypeInit, TypeNext, ServiceInit, ServiceStep, PTL DEF Spec, UsesService, Service!Spec
=============================================================================
