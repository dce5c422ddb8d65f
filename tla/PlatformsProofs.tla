-------------------------- MODULE PlatformsProofs --------------------------
(***************************************************************************)
(* Proofs about Platforms: first what parsing and selection compute for    *)
(* every list and index, then the invariant that relates a pod's image ID  *)
(* to its image and its node, and what a call brings to the target.        *)
(***************************************************************************)
EXTENDS Platforms, ListsProofs

-----------------------------------------------------------------------------
(* Configured platforms. *)

\* The parsed platforms are a sequence as well.
LEMMA ParsedIsSequence ==
  ASSUME NEW V, NEW values \in Seq(V)
  PROVE  parseMirrorPlatforms(values) \in Seq({parsePlatformSpec(v) : v \in V})
<1> DEFINE N == Len(values)
           S == {parsePlatformSpec(v) : v \in V}
           Q == Seq(S)
           e == <<>>
           new(n, q) == validPlatform(values[n]) /\ ~Contains(q, parsePlatformSpec(values[n]))
           step(n, q) == IF new(n, q) THEN Append(q, parsePlatformSpec(values[n])) ELSE q
           body(f) == [n \in 0..N |-> IF n = 0 THEN e ELSE step(n, f[n - 1])]
           G == [n \in 1..N |-> [q \in Q |-> step(n, q)]]
           F == CHOOSE f : f = body(f)
<1>1. N \in Nat /\ e \in Q /\ \A n \in 1..N : parsePlatformSpec(values[n]) \in S
  OBVIOUS
<1>2. ASSUME NEW n \in 1..N, NEW q \in Q PROVE step(n, q) \in Q
  <2> HIDE DEF S, new
  <2>1. Append(q, parsePlatformSpec(values[n])) \in Q
    BY <1>1, AppendProperties
  <2> HIDE DEF Q
  <2> QED BY <2>1
<1>3. G \in [1..N -> [Q -> Q]]
  <2> HIDE DEF step, Q
  <2> QED BY <1>2
<1>4. parseMirrorPlatforms(values) = F[N]
  BY DEF parseMirrorPlatforms
<1> HIDE DEF N, Q, e, step
<1>5. PICK f : iterates(f, N, Q, e, G)
  <2> HIDE DEF G
  <2> QED BY <1>1, <1>3, IterationExists
<1>6. f = body(f)
  <2>1. f \in [0..N -> Q] /\ f[0] = e /\ \A n \in 1..N : f[n] = G[n][f[n - 1]]
    BY <1>5 DEF iterates
  <2>2. ASSUME NEW n \in 0..N PROVE f[n] = body(f)[n]
    <3>1. CASE n = 0
      BY <2>1, <3>1
    <3>2. CASE n # 0
      <4>1. n \in 1..N /\ f[n - 1] \in Q
        BY <1>1, <2>1, <3>2
      <4>2. f[n] = step(n, f[n - 1])
        BY <2>1, <4>1
      <4> QED BY <3>2, <4>2
    <3> QED BY <3>1, <3>2
  <2> HIDE DEF G
  <2> QED BY <2>1, <2>2
<1>7. F = body(F)
  <2> HIDE DEF body
  <2> QED BY <1>6
<1> HIDE DEF F
<1>8. \A n \in 0..N : F[n] = IF n = 0 THEN e ELSE step(n, F[n - 1])
  BY <1>7
<1> DEFINE P == {n \in 0..N : F[n] \in Q}
<1>9. 0 \in P
  BY <1>1, <1>8
<1>10. ASSUME NEW n \in 1..N, n - 1 \in P PROVE n \in P
  <2>1. n \in 0..N /\ n # 0 /\ F[n - 1] \in Q
    BY <1>1, <1>10
  <2>2. F[n] = step(n, F[n - 1])
    BY <1>8, <2>1
  <2> QED BY <1>2, <2>1, <2>2
<1>11. 0..N \subseteq P
  <2> HIDE DEF P
  <2> QED BY <1>1, <1>9, <1>10, BoundedInduction
<1>12. F[N] \in Q
  BY <1>1, <1>11
<1> QED BY <1>4, <1>12 DEF Q

-----------------------------------------------------------------------------
(* Selection. *)

LEMMA SourceOf ==
  ASSUME NEW i
  PROVE  sourceManifest(i).of = i /\ sourceManifest(i).kind \in {"image", "index"}
BY DEF sourceManifest, child

\* The cases of selectManifest.
LEMMA SelectionCases ==
  ASSUME NEW m, NEW meta
  PROVE  LET desired == desiredPlatforms(meta)
             primary == IF desired = <<>> THEN None ELSE desired[1]
             subset  == cfg.digestPull /\ Len(desired) > 1
         IN  \/ m.kind # "index" /\ selectManifest(m, meta) = m
             \/ m.kind = "index" /\ subset /\ selectManifest(m, meta) = filterIndexByPlatforms(m.of, desired)
             \/ m.kind = "index" /\ ~subset /\ shouldMirrorEntireIndex(primary) /\ selectManifest(m, meta) = m
             \/ /\ m.kind = "index" /\ ~subset /\ ~shouldMirrorEntireIndex(primary)
                /\ selectManifest(m, meta) = selectImageDescriptor(m.of, primary)
BY DEF selectManifest

\* Whatever is selected comes from the same image.
LEMMA SelectedOf ==
  ASSUME NEW m, NEW meta, selectManifest(m, meta) # None
  PROVE  selectManifest(m, meta).of = m.of
<1>1. ASSUME NEW desired PROVE filterIndexByPlatforms(m.of, desired).of = m.of
  BY SourceOf DEF filterIndexByPlatforms
<1>2. ASSUME NEW p, selectImageDescriptor(m.of, p) # None PROVE selectImageDescriptor(m.of, p).of = m.of
  BY <1>2 DEF selectImageDescriptor, child
<1> QED BY <1>1, <1>2, SelectionCases

\* The source's own manifest has every platform that is offered.
LEMMA SourceParts ==
  ASSUME NEW i \in Images
  PROVE  offered(i) \subseteq ToSet(sourceManifest(i).parts)
<1> DEFINE S == ToSet(Source[i])
           r == runnable(i)
<1>1. Source[i] \in Seq(S)
  BY InputAssumption DEF isSequence
<1>2. r \in Seq(S) /\ ToSet(r) \subseteq S
  BY <1>1, KeepProperties DEF runnable
<1>3. CASE Len(Source[i]) = 1
  <2>1. S = {Source[i][1]}
    <3>1. DOMAIN Source[i] = {1}
      BY <1>1, <1>3
    <3> QED BY <3>1 DEF ToSet
  <2>2. offered(i) \subseteq {Source[i][1].platform}
    BY <1>2, <2>1 DEF offered
  <2>3. ToSet(sourceManifest(i).parts) = {Source[i][1].platform}
    BY <1>3 DEF sourceManifest, child, ToSet
  <2> QED BY <2>2, <2>3
<1>4. CASE Len(Source[i]) # 1
  <2>1. sourceManifest(i).parts = [n \in DOMAIN r |-> r[n].platform]
    BY <1>4 DEF sourceManifest
  <2>2. offered(i) = {r[n].platform : n \in DOMAIN r}
    BY DEF offered, ToSet
  <2> HIDE DEF r
  <2> QED BY <2>1, <2>2 DEF ToSet
<1> QED BY <1>3, <1>4

\* The node's platform is desired if it is known, and so is every listed one.
LEMMA DesiredProperties ==
  ASSUME isSequence(cfg.mirrorPlatforms), NEW meta
  PROVE  LET desired == desiredPlatforms(meta) IN
         /\ isSequence(desired)
         /\ ToSet(cfg.mirrorPlatforms) \subseteq ToSet(desired)
         /\ meta # None => meta \in ToSet(desired)
<1> DEFINE listed == cfg.mirrorPlatforms
           L == ToSet(listed)
<1>1. CASE meta = None
  BY <1>1 DEF desiredPlatforms
<1>2. CASE meta # None
  <2> DEFINE rest == keep(listed, L \ {meta})
  <2>1. listed \in Seq(L)
    BY DEF isSequence
  <2>2. rest \in Seq(L) /\ ToSet(rest) = L \ {meta}
    BY <2>1, KeepProperties
  <2>3. desiredPlatforms(meta) = <<meta>> \o rest
    BY <1>2 DEF desiredPlatforms
  <2>4. <<meta>> \in Seq(L \cup {meta}) /\ rest \in Seq(L \cup {meta}) /\ ToSet(<<meta>>) = {meta}
    <3> HIDE DEF rest, L
    <3>1. <<meta>> \in Seq(L \cup {meta})
      OBVIOUS
    <3>2. rest \in Seq(L \cup {meta})
      BY <2>2, SeqMonotonic
    <3>3. ToSet(<<meta>>) = {meta}
      BY DEF ToSet
    <3> QED BY <3>1, <3>2, <3>3
  <2>5. ToSet(desiredPlatforms(meta)) = L \cup {meta}
    <3> DEFINE first == <<meta>>
               U == L \cup {meta}
    <3>1. first \in Seq(U) /\ rest \in Seq(U)
      BY <2>4
    <3> HIDE DEF rest, L, first, U
    <3>2. ToSet(first \o rest) = ToSet(first) \cup ToSet(rest)
      BY <3>1, ToSetConcat
    <3> QED BY <2>2, <2>3, <2>4, <3>2 DEF first
  <2>6. desiredPlatforms(meta) \in Seq(L \cup {meta})
    <3> HIDE DEF rest, L
    <3> QED BY <2>3, <2>4, ConcatProperties
  <2> QED BY <2>5, <2>6 DEF isSequence
<1> QED BY <1>1, <1>2

\* What an image ID may name: the source's manifest, or the one of the platform.
named(i, p) == {sourceManifest(i), child(i, p)}

LEMMA NamedHasPlatform ==
  ASSUME NEW i \in Images, NEW p \in offered(i), NEW m \in named(i, p)
  PROVE  m.of = i /\ p \in ToSet(m.parts)
<1>1. CASE m = sourceManifest(i)
  BY <1>1, SourceOf, SourceParts
<1>2. CASE m = child(i, p)
  BY <1>2 DEF child, ToSet
<1> QED BY <1>1, <1>2 DEF named

\* Selection keeps an offered platform that is desired, or where none is.
LEMMA SelectionServes ==
  ASSUME NEW i \in Images, NEW p \in offered(i), NEW m \in named(i, p), NEW meta,
         isSequence(cfg.mirrorPlatforms),
         desiredPlatforms(meta) = <<>> \/ p \in ToSet(desiredPlatforms(meta)),
         selectManifest(m, meta) # None
  PROVE  p \in ToSet(selectManifest(m, meta).parts)
<1> DEFINE desired == desiredPlatforms(meta)
           primary == IF desired = <<>> THEN None ELSE desired[1]
           D == ToSet(desired)
<1>1. desired \in Seq(D)
  BY DesiredProperties DEF isSequence
<1>2. m.of = i /\ p \in ToSet(m.parts)
  BY NamedHasPlatform
<1>3. CASE selectManifest(m, meta) = m
  BY <1>2, <1>3
<1>4. CASE Len(desired) > 1 /\ selectManifest(m, meta) = filterIndexByPlatforms(m.of, desired)
  <2> DEFINE found == keep(desired, offered(i))
  <2>1. p \in D
    BY <1>1, <1>4
  <2>2. p \in ToSet(found)
    BY <1>1, <2>1, KeepProperties
  <2>3. CASE found = <<>>
    <3>1. selectManifest(m, meta) = sourceManifest(i)
      BY <1>2, <1>4, <2>3 DEF filterIndexByPlatforms
    <3> QED BY <3>1, SourceParts
  <2>4. CASE found # <<>>
    <3>1. selectManifest(m, meta).parts = found
      BY <1>2, <1>4, <2>4 DEF filterIndexByPlatforms
    <3> QED BY <2>2, <3>1
  <2> QED BY <2>3, <2>4
<1>5. CASE /\ cfg.digestPull /\ ~(Len(desired) > 1) /\ primary # None
           /\ selectManifest(m, meta) = selectImageDescriptor(m.of, primary)
  <2>1. desired # <<>>
    BY <1>5
  <2>2. Len(desired) = 1 /\ DOMAIN desired = {1}
    <3>1. Len(desired) \in Nat \ {0}
      BY <1>1, <2>1, EmptySeq
    <3>2. ~(Len(desired) > 1)
      BY <1>5
    <3> HIDE DEF desired, D
    <3>3. Len(desired) = 1
      BY <3>1, <3>2
    <3> QED BY <1>1, <3>3, LenProperties
  <2>3. primary = p
    BY <2>1, <2>2 DEF ToSet
  <2>4. selectManifest(m, meta) = child(i, p)
    BY <1>2, <1>5, <2>3 DEF selectImageDescriptor
  <2> QED BY <2>4 DEF child, ToSet
<1> QED BY <1>3, <1>4, <1>5, SelectionCases DEF shouldMirrorEntireIndex

-----------------------------------------------------------------------------
(* The invariant. *)

\* An image ID comes from an image that runs on the pod's node.
Reported(p) ==
  status[p] # None => \E i \in Images : NodeOf[p] \in offered(i) /\ status[p] \in named(i, NodeOf[p])

\* Image and image ID of a pod belong together unless its image was edited, and
\* so does what the kubelet may report next.
Belongs(p) ==
  /\ status[p] # None => status[p].of = spec[p] \/ spec[p] \in edited
  /\ \A i \in pending[p] : i \in Images /\ (i = spec[p] \/ spec[p] \in edited)

\* The repository of an image holds what its tag names.
TagsStored == \A i \in Images : tags[i] # None => <<i, tags[i]>> \in stored

PlatformInv ==
  /\ isSequence(cfg.mirrorPlatforms)
  /\ spec \in [Pods -> Images] /\ DOMAIN status = Pods /\ DOMAIN pending = Pods /\ DOMAIN tags = Images
  /\ \A p \in Pods : Reported(p) /\ Belongs(p)
  /\ TagsTruthful /\ TagsStored

LEMMA PlatformInit == Init => PlatformInv
<1> SUFFICES ASSUME Init PROVE PlatformInv
  OBVIOUS
<1>1. isSequence(cfg.mirrorPlatforms)
  <2>1. PICK c \in Configurations : cfg = [c EXCEPT !.mirrorPlatforms = parseMirrorPlatforms(c.mirrorPlatforms)]
    BY DEF Init
  <2>2. cfg.mirrorPlatforms = parseMirrorPlatforms(c.mirrorPlatforms)
    BY <2>1, InputAssumption
  <2>3. c.mirrorPlatforms \in Seq(ToSet(c.mirrorPlatforms))
    BY InputAssumption DEF isSequence
  <2> DEFINE S == {parsePlatformSpec(v) : v \in ToSet(c.mirrorPlatforms)}
  <2>4. cfg.mirrorPlatforms \in Seq(S)
    BY <2>2, <2>3, ParsedIsSequence
  <2> HIDE DEF S
  <2>5. \A n \in 1..Len(cfg.mirrorPlatforms) : cfg.mirrorPlatforms[n] \in ToSet(cfg.mirrorPlatforms)
    BY <2>4, LenProperties DEF ToSet
  <2> QED BY <2>4, <2>5 DEF isSequence
<1> QED BY <1>1 DEF Init, PlatformInv, Reported, Belongs, TagsTruthful, TagsStored

\* What a call hands to Push comes from the pod's image, unless it was edited.
LEMMA SelectedTruthful ==
  ASSUME PlatformInv, NEW p \in Pods, NEW m, m = sourceManifest(spec[p]) \/ (m = status[p] /\ m # None),
         NEW meta, selectManifest(m, meta) # None
  PROVE  selectManifest(m, meta).of = spec[p] \/ spec[p] \in edited
<1>1. m.of = spec[p] \/ spec[p] \in edited
  BY SourceOf DEF PlatformInv, Belongs
<1> QED BY <1>1, SelectedOf

\* A push names in the tag, and stores, what it was given; or nothing changes.
LEMMA PushEffect ==
  ASSUME NEW p \in Pods, NEW m, Push(p, m), DOMAIN tags = Images, spec[p] \in Images
  PROVE  \/ UNCHANGED <<tags, stored>> /\ outcome' # <<p, "ok">>
         \/ /\ m # None /\ <<spec[p], m>> \in stored' /\ stored \subseteq stored'
            /\ tags' = [tags EXCEPT ![spec[p]] = m] /\ tags'[spec[p]] = m
BY DEF Push, returns, withParts

\* What the pod's image, or its image ID, makes a call push.
pushes(p, m) ==
  /\ m = sourceManifest(spec[p]) \/ (m = status[p] /\ m # None)
  /\ running(p) = m.of
  /\ Push(p, selectManifest(m, nodePlatform(p)))

\* A call ends without success, finds the image ID's manifest or the pinned one, or pushes.
LEMMA MirrorEffect ==
  ASSUME NEW p \in Pods, Mirror(p)
  PROVE  /\ UNCHANGED <<cfg, spec, status, pending, nodeFound, edited>>
         /\ \/ UNCHANGED <<tags, stored>> /\ outcome' # <<p, "ok">>
            \/ /\ UNCHANGED <<tags, stored>> /\ status[p] # None /\ running(p) = status[p].of
               /\ <<spec[p], status[p]>> \in stored
            \/ /\ UNCHANGED <<tags, stored>> /\ running(p) = spec[p]
               /\ tags[spec[p]] # None /\ tags[spec[p]] = sourceManifest(spec[p])
            \/ pushes(p, pulled(p))
<1>1. CASE unreported(p) /\ returns(p, "skipped") /\ UNCHANGED <<tags, stored>>
  BY <1>1 DEF Mirror, returns
<1>2. CASE havePodDigest(p) /\ <<spec[p], imageID(p)>> \in stored /\ UNCHANGED <<tags, stored>>
  BY <1>2 DEF Mirror, havePodDigest, imageID, running, pulled
<1>3. CASE /\ unreported(p) /\ tags[spec[p]] # None /\ tags[spec[p]] = sourceManifest(spec[p])
           /\ UNCHANGED <<tags, stored>>
  <2>1. running(p) = spec[p]
    BY <1>3, SourceOf DEF unreported, running, pulled
  <2> QED BY <1>3, <2>1 DEF Mirror
<1>4. CASE Push(p, selectManifest(pulled(p), nodePlatform(p)))
  <2>1. pulled(p) = sourceManifest(spec[p]) \/ (pulled(p) = status[p] /\ pulled(p) # None)
    BY DEF pulled, havePodDigest, imageID
  <2> QED BY <1>4, <2>1 DEF Mirror, running, pushes
<1> QED BY <1>1, <1>2, <1>3, <1>4 DEF Mirror

LEMMA PlatformNext == PlatformInv /\ [Next]_vars => PlatformInv'
<1> SUFFICES ASSUME PlatformInv, [Next]_vars PROVE PlatformInv'
  OBVIOUS
<1>1. ASSUME NEW p \in Pods, Mirror(p) PROVE PlatformInv'
  <2>1. UNCHANGED <<cfg, spec, status, pending, edited>>
    BY <1>1, MirrorEffect
  <2>2. DOMAIN tags' = Images /\ TagsTruthful' /\ TagsStored'
    <3>1. CASE UNCHANGED <<tags, stored>>
      BY <2>1, <3>1 DEF PlatformInv, TagsTruthful, TagsStored
    <3>2. ASSUME NEW m, pushes(p, m), ~UNCHANGED <<tags, stored>>
          PROVE  DOMAIN tags' = Images /\ TagsTruthful' /\ TagsStored'
      <4> DEFINE s == selectManifest(m, nodePlatform(p))
      <4>1. DOMAIN tags = Images /\ spec[p] \in Images
        BY DEF PlatformInv
      <4>2. /\ s # None /\ tags' = [tags EXCEPT ![spec[p]] = s]
            /\ <<spec[p], s>> \in stored' /\ stored \subseteq stored'
        BY <3>2, <4>1, PushEffect DEF pushes
      <4>3. s.of = spec[p] \/ spec[p] \in edited
        BY <3>2, <4>2, SelectedTruthful DEF pushes
      <4> HIDE DEF s
      <4> QED BY <2>1, <4>1, <4>2, <4>3 DEF PlatformInv, TagsTruthful, TagsStored
    <3> QED BY <1>1, <3>1, <3>2, MirrorEffect
  <2> QED BY <2>1, <2>2 DEF PlatformInv, Reported, Belongs
<1>2. ASSUME NEW p \in Pods, NEW i \in Images, Report(p, i) PROVE PlatformInv'
  <2>1. PICK m \in named(i, NodeOf[p]) : status' = [status EXCEPT ![p] = m]
    BY <1>2 DEF Report, named
  <2>2. /\ UNCHANGED <<cfg, spec, tags, stored, edited>> /\ NodeOf[p] \in offered(i) /\ i \in pending[p]
        /\ pending' = IF i = spec[p] THEN [pending EXCEPT ![p] = {i}] ELSE pending
    BY <1>2 DEF Report
  <2>3. m.of = i /\ (i = spec[p] \/ spec[p] \in edited)
    BY <2>2, NamedHasPlatform DEF PlatformInv, Belongs
  <2>4. DOMAIN status' = Pods /\ status'[p] = m /\ \A q \in Pods : q # p => status'[q] = status[q]
    BY <2>1 DEF PlatformInv
  <2>5. DOMAIN pending' = Pods /\ \A q \in Pods : pending'[q] = pending[q] \/ (q = p /\ pending'[q] = {i} /\ i = spec[p])
    BY <2>2 DEF PlatformInv
  <2>6. ASSUME NEW q \in Pods PROVE Reported(q)' /\ Belongs(q)'
    <3>1. Reported(q) /\ Belongs(q)
      BY DEF PlatformInv
    <3>2. Reported(q)'
      BY <2>1, <2>2, <2>4, <3>1 DEF Reported
    <3>3. (status[q] # None => status[q].of = spec[q] \/ spec[q] \in edited)'
      BY <2>2, <2>3, <2>4, <3>1 DEF Belongs
    <3>4. (\A j \in pending[q] : j \in Images /\ (j = spec[q] \/ spec[q] \in edited))'
      BY <2>2, <2>5, <3>1 DEF Belongs
    <3> QED BY <3>2, <3>3, <3>4 DEF Belongs
  <2> QED BY <2>2, <2>4, <2>5, <2>6 DEF PlatformInv, TagsTruthful, TagsStored
<1>3. ASSUME NEW p \in Pods, NEW i \in Images, EditImage(p, i) PROVE PlatformInv'
  <2>1. /\ spec' = [spec EXCEPT ![p] = i] /\ UNCHANGED <<cfg, status, tags, stored>>
        /\ edited \subseteq edited' /\ i \in edited' /\ pending' = [pending EXCEPT ![p] = pending[p] \cup {i}]
    BY <1>3 DEF EditImage
  <2>2. /\ spec' \in [Pods -> Images] /\ spec'[p] = i /\ DOMAIN pending' = Pods
        /\ \A q \in Pods : q # p => spec'[q] = spec[q] /\ pending'[q] = pending[q]
        /\ pending'[p] = pending[p] \cup {i}
    BY <2>1 DEF PlatformInv
  <2>3. ASSUME NEW q \in Pods PROVE Reported(q)' /\ Belongs(q)'
    <3>1. Reported(q)'
      BY <2>1 DEF PlatformInv, Reported
    <3>2. Belongs(q)'
      BY <2>1, <2>2 DEF PlatformInv, Belongs
    <3> QED BY <3>1, <3>2
  <2> QED BY <2>1, <2>2, <2>3 DEF PlatformInv, TagsTruthful, TagsStored
<1>4. ASSUME NEW p \in Pods, NodeLeaves(p) PROVE PlatformInv'
  BY <1>4 DEF NodeLeaves, PlatformInv, Reported, Belongs, TagsTruthful, TagsStored
<1>5. CASE UNCHANGED vars
  BY <1>5 DEF vars, PlatformInv, Reported, Belongs, TagsTruthful, TagsStored
<1> QED BY <1>1, <1>2, <1>3, <1>4, <1>5 DEF Next

LEMMA PlatformCorrect == Spec => []PlatformInv
BY PlatformInit, PlatformNext, PTL DEF Spec

(* For any number of pods, nodes and images, any index and any list of     *)
(* platforms: a tag at the target names what comes from the image of that  *)
(* name, unless a pod was switched to it.                                  *)
THEOREM TagsAreTruthful == Spec => []TagsTruthful
<1>1. PlatformInv => TagsTruthful
  BY DEF PlatformInv
<1> QED BY PlatformCorrect, <1>1, PTL

-----------------------------------------------------------------------------
(* What a call brings. *)

\* A known platform of the node is desired, unless nothing is.
LEMMA KnownIsDesired ==
  ASSUME PlatformInv, NEW p \in Pods, platformKnown(p)
  PROVE  LET desired == desiredPlatforms(nodePlatform(p)) IN desired = <<>> \/ NodeOf[p] \in ToSet(desired)
<1>1. CASE nodePlatform(p) # None
  <2>1. nodePlatform(p) = NodeOf[p]
    BY <1>1 DEF nodePlatform
  <2> QED BY <1>1, <2>1, DesiredProperties DEF PlatformInv
<1>2. CASE nodePlatform(p) = None /\ cfg.mirrorPlatforms = <<>>
  BY <1>2 DEF desiredPlatforms
<1>3. CASE Contains(cfg.mirrorPlatforms, NodeOf[p])
  <2>1. cfg.mirrorPlatforms \in Seq(ToSet(cfg.mirrorPlatforms))
    BY DEF PlatformInv, isSequence
  <2>2. NodeOf[p] \in ToSet(cfg.mirrorPlatforms)
    BY <1>3, <2>1, InToSet DEF Contains
  <2> QED BY <2>2, DesiredProperties DEF PlatformInv
<1> QED BY <1>1, <1>2, <1>3 DEF platformKnown

\* What is pushed from is a manifest an image ID may name.
LEMMA PushedIsNamed ==
  ASSUME PlatformInv, NEW p \in Pods, NEW m, pushes(p, m), NodeOf[p] \in offered(running(p))
  PROVE  running(p) \in Images /\ m \in named(running(p), NodeOf[p])
<1>1. CASE m = sourceManifest(spec[p])
  <2>1. running(p) = spec[p] /\ spec[p] \in Images
    BY <1>1, SourceOf DEF pushes, PlatformInv
  <2> QED BY <1>1, <2>1 DEF named
<1>2. CASE m = status[p] /\ m # None
  <2>1. PICK i \in Images : NodeOf[p] \in offered(i) /\ m \in named(i, NodeOf[p])
    BY <1>2 DEF PlatformInv, Reported
  <2>2. running(p) = i
    BY <2>1, NamedHasPlatform DEF pushes
  <2> QED BY <2>1, <2>2
<1> QED BY <1>1, <1>2 DEF pushes

LEMMA StoredServes ==
  ASSUME NEW i, NEW image, NEW p, NEW m, <<i, m>> \in stored', m.of = image, p \in ToSet(m.parts)
  PROVE  \E x \in {s[2] : s \in {t \in stored' : t[1] = i}} : x.of = image /\ p \in ToSet(x.parts)
<1>1. m \in {s[2] : s \in {t \in stored' : t[1] = i}}
  <2> DEFINE u == <<i, m>>
  <2>1. u \in {t \in stored' : t[1] = i} /\ u[2] = m
    OBVIOUS
  <2> QED BY <2>1
<1> QED BY <1>1

(* A call that succeeds leaves the image of the pod at the target for the  *)
(* platform of the pod's node, whichever path it took: for any number of   *)
(* pods, nodes and images, any index and any list of platforms.            *)
THEOREM NodesAreServed == Spec => NodeServed
<1>1. ASSUME PlatformInv, NEW p \in Pods, Mirror(p), outcome' = <<p, "ok">>, platformKnown(p),
             NodeOf[p] \in offered(running(p))
      PROVE  serves(spec[p], running(p), NodeOf[p])'
  <2>1. spec'[p] = spec[p] /\ running(p)' = running(p)
    BY <1>1, MirrorEffect DEF running, pulled, havePodDigest, usePodDigest, imageID
  <2>2. SUFFICES \E m : <<spec[p], m>> \in stored' /\ m.of = running(p) /\ NodeOf[p] \in ToSet(m.parts)
    BY <2>1, StoredServes DEF serves
  <2>3. CASE /\ UNCHANGED <<tags, stored>> /\ status[p] # None /\ running(p) = status[p].of
             /\ <<spec[p], status[p]>> \in stored
    <3>1. PICK i \in Images : NodeOf[p] \in offered(i) /\ status[p] \in named(i, NodeOf[p])
      BY <1>1, <2>3 DEF PlatformInv, Reported
    <3> QED BY <2>3, <3>1, NamedHasPlatform
  <2>4. ASSUME NEW m, pushes(p, m)
        PROVE  \E x : <<spec[p], x>> \in stored' /\ x.of = running(p) /\ NodeOf[p] \in ToSet(x.parts)
    <3> DEFINE s == selectManifest(m, nodePlatform(p))
    <3>1. running(p) \in Images /\ m \in named(running(p), NodeOf[p]) /\ m.of = running(p)
      BY <1>1, <2>4, PushedIsNamed DEF pushes
    <3>2. s # None /\ <<spec[p], s>> \in stored'
      BY <1>1, <2>4, PushEffect DEF pushes, PlatformInv
    <3>3. s.of = running(p)
      BY <3>1, <3>2, SelectedOf
    <3>4. NodeOf[p] \in ToSet(s.parts)
      BY <1>1, <3>1, <3>2, KnownIsDesired, SelectionServes DEF PlatformInv
    <3> HIDE DEF s
    <3> QED BY <3>2, <3>3, <3>4
  <2>5. CASE /\ UNCHANGED <<tags, stored>> /\ running(p) = spec[p]
             /\ tags[spec[p]] # None /\ tags[spec[p]] = sourceManifest(spec[p])
    <3>1. spec[p] \in Images
      BY <1>1 DEF PlatformInv
    <3>2. <<spec[p], sourceManifest(spec[p])>> \in stored
      BY <1>1, <2>5, <3>1 DEF PlatformInv, TagsStored
    <3> QED BY <1>1, <2>5, <3>1, <3>2, SourceOf, SourceParts
  <2> QED BY <1>1, <2>3, <2>4, <2>5, MirrorEffect
<1>2. PlatformInv => (\A p \in Pods :
        Mirror(p) /\ outcome' = <<p, "ok">> /\ platformKnown(p) /\ NodeOf[p] \in offered(running(p))
          => serves(spec[p], running(p), NodeOf[p])')
  BY <1>1
<1> QED BY PlatformCorrect, <1>2, PTL DEF NodeServed

(* A push from an index brings every platform mirrorPlatforms lists and    *)
(* the source offers.                                                      *)
THEOREM ListedPlatformsArrive == Spec => ListedPlatformsMirrored
<1>1. ASSUME PlatformInv, NEW p \in Pods, Mirror(p), tags' # tags, cfg.digestPull, pulled(p).kind = "index",
             NEW q \in ToSet(cfg.mirrorPlatforms) \cap offered(pulled(p).of)
      PROVE  q \in ToSet(tags'[spec[p]].parts)
  <2> DEFINE m == pulled(p)
             s == selectManifest(m, nodePlatform(p))
  <2>1. pushes(p, m)
    BY <1>1, MirrorEffect
  <2>2. s # None /\ tags'[spec[p]] = s
    BY <1>1, <2>1, PushEffect DEF pushes, PlatformInv
  <2>3. PICK i \in Images : m = sourceManifest(i)
    <3>1. CASE m = sourceManifest(spec[p])
      BY <1>1, <3>1 DEF PlatformInv
    <3>2. CASE m = status[p] /\ m # None
      <4>1. PICK j \in Images : m \in named(j, NodeOf[p])
        BY <1>1, <3>2 DEF PlatformInv, Reported
      <4>2. m = sourceManifest(j)
        BY <1>1, <4>1 DEF named, child
      <4> QED BY <4>2
    <3> QED BY <2>1, <3>1, <3>2 DEF pushes
  <2>5. m.of = i
    BY <2>3, SourceOf
  <2>6. q \in offered(i) /\ m \in named(i, q)
    BY <1>1, <2>3, <2>5 DEF named
  <2>7. q \in ToSet(desiredPlatforms(nodePlatform(p)))
    BY <1>1, DesiredProperties DEF PlatformInv
  <2>8. q \in ToSet(s.parts)
    BY <1>1, <2>2, <2>6, <2>7, SelectionServes DEF PlatformInv
  <2> HIDE DEF s
  <2> QED BY <2>2, <2>8
<1>2. PlatformInv => (\A p \in Pods :
        Mirror(p) /\ tags' # tags /\ cfg.digestPull /\ pulled(p).kind = "index"
          => ToSet(cfg.mirrorPlatforms) \cap offered(pulled(p).of) \subseteq ToSet(tags'[spec[p]].parts))
  BY <1>1
<1> QED BY PlatformCorrect, <1>2, PTL DEF ListedPlatformsMirrored
=============================================================================
