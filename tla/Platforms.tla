------------------------------ MODULE Platforms ------------------------------
(***************************************************************************)
(* What Mirror pushes for a pod, and what the tag then serves: platform    *)
(* selection of internal/mirror/pusher.go on the images and image IDs that *)
(* pkg/util/images.go reads from a pod, over several pods on nodes of      *)
(* different platforms.                                                    *)
(*                                                                         *)
(* Pods name tags, or digests (pinned images); the kubelet reports later,  *)
(* as the image ID, what it runs: the digest of an index or of one         *)
(* platform's manifest, as the container runtime has it.  Every image has  *)
(* a repository and a tag of its own.  Concurrent calls and failures are   *)
(* the subject of Pusher; a call is one step here.                         *)
(*                                                                         *)
(* A platform is <<os, arch>>.  A manifest is a record: the image it comes *)
(* from, whether it is the source's index, a filtered one or one platform, *)
(* and its platforms in order, which its digest depends on.                *)
(***************************************************************************)
EXTENDS Lists

CONSTANTS
  Pods, Images, None,
  Pinned,          \* images named by digest
  Latest,          \* images whose tag at the target is latest
  Editable,        \* bound: pods whose image may be changed in place
  NodeOf,          \* [Pods -> platform of the node it runs on]
  Source,          \* [Images -> Seq of entries]: the index at the source
  Configurations   \* records [digestPull, ignoredTags, checkNode, repush, mirrorPlatforms];
                   \* ignoredTags: the images whose tag is in digestPullIgnoredTags

ASSUME InputAssumption ==
  /\ Pinned \subseteq Images /\ Latest \subseteq Images
  /\ \A i \in Images : isSequence(Source[i])
  /\ \A c \in Configurations :
       /\ DOMAIN c = {"digestPull", "ignoredTags", "checkNode", "repush", "mirrorPlatforms"}
       /\ isSequence(c.mirrorPlatforms)

VARIABLES
  cfg,      \* the configuration, fixed at start-up
  spec,     \* the image each pod names
  status,   \* what its image ID names, None before it is reported
  pending,  \* the images it has named since the kubelet caught up: it may report any
  nodeFound,\* the API finds the node of the pod
  tags,     \* target: what the tag of each image names
  stored,   \* target: <<image, manifest>>: what its repository holds
  edited,   \* history: images a pod was switched to
  outcome   \* if the last step was a call: its pod, and how it ended

vars == <<cfg, spec, status, pending, nodeFound, tags, stored, edited, outcome>>

-----------------------------------------------------------------------------
(* Configured platforms.  A value of mirrorPlatforms is split at its first *)
(* slash: <<arch>> or <<os, arch>>, where a blank part is "".              *)

validPlatform(v) == v[Len(v)] # ""

parsePlatformSpec(v) == <<IF Len(v) = 1 \/ v[1] = "" THEN "linux" ELSE v[1], v[Len(v)]>>

\* Invalid values and duplicates are left out.
parseMirrorPlatforms(values) ==
  LET specs[n \in 0..Len(values)] ==
        IF n = 0 THEN <<>>
        ELSE IF validPlatform(values[n]) /\ ~Contains(specs[n - 1], parsePlatformSpec(values[n]))
             THEN Append(specs[n - 1], parsePlatformSpec(values[n])) ELSE specs[n - 1]
  IN  specs[Len(values)]

\* The node's platform comes first.
desiredPlatformsMutant(meta) == IF meta = None THEN cfg.mirrorPlatforms ELSE <<meta>>
desiredPlatforms(meta) ==
  IF meta = None THEN cfg.mirrorPlatforms
  ELSE <<meta>> \o keep(cfg.mirrorPlatforms, ToSet(cfg.mirrorPlatforms) \ {meta})

-----------------------------------------------------------------------------
(* Selection in an index. *)

descriptorIsRunnable(e) ==
  ~e.attestation /\ e.platform[1] \notin {"", "unknown"} /\ e.platform[2] \notin {"", "unknown"}

runnable(i) == keep(Source[i], {e \in ToSet(Source[i]) : descriptorIsRunnable(e)})

offered(i) == {e.platform : e \in ToSet(runnable(i))}

child(i, p) == [of |-> i, kind |-> "image", parts |-> <<p>>]

\* What the tag names: an index, or one manifest if there is one entry.
sourceManifest(i) ==
  IF Len(Source[i]) = 1 THEN child(i, Source[i][1].platform)
  ELSE [of |-> i, kind |-> "index", parts |-> [n \in DOMAIN runnable(i) |-> runnable(i)[n].platform]]

\* findDescriptorForSpec for every desired platform; none found: the full index.
filterIndexByPlatforms(i, desired) ==
  LET found == keep(desired, offered(i))
  IN  IF found = <<>> THEN sourceManifest(i) ELSE [of |-> i, kind |-> "subset", parts |-> found]

\* desc.Image(), or else the first runnable manifest; None is the error.
selectImageDescriptor(i, p) ==
  IF runnable(i) = <<>> THEN None
  ELSE child(i, IF p \in offered(i) THEN p ELSE runnable(i)[1].platform)

shouldMirrorEntireIndex(primary) == ~cfg.digestPull \/ primary = None

selectManifest(m, meta) ==
  LET desired == desiredPlatforms(meta)
      primary == IF desired = <<>> THEN None ELSE desired[1]
      subset  == cfg.digestPull /\ Len(desired) > 1
  IN  CASE m.kind # "index" -> m
        [] m.kind = "index" /\ subset -> filterIndexByPlatforms(m.of, desired)
        [] m.kind = "index" /\ ~subset /\ shouldMirrorEntireIndex(primary) -> m
        [] OTHER -> selectImageDescriptor(m.of, primary)

-----------------------------------------------------------------------------
(* One call of Mirror. *)

Init ==
  /\ cfg \in {[c EXCEPT !.mirrorPlatforms = parseMirrorPlatforms(@)] : c \in Configurations}
  /\ spec \in [Pods -> Images]
  /\ status = [p \in Pods |-> None]
  /\ pending = [p \in Pods |-> {spec[p]}]
  /\ nodeFound = [p \in Pods |-> TRUE]
  /\ tags = [i \in Images |-> None]
  /\ stored = {}
  /\ edited = {}
  /\ outcome = <<None, "none">>

\* Not asked for, or the node is not found: no platform.
nodePlatformMutant(p) == IF cfg.checkNode THEN NodeOf[CHOOSE q \in Pods : TRUE] ELSE None
nodePlatform(p) == IF cfg.checkNode /\ nodeFound[p] THEN NodeOf[p] ELSE None

\* ImagesFromPod: the image of the spec with the image ID of the same container.
imageIDMutant(p) == status[CHOOSE q \in Pods : q # p]
imageID(p) == status[p]

returns(p, how) == outcome' = <<p, how>>

noCall == outcome' = <<None, "none">>

\* Storing an index stores what it refers to.
withParts(i, m) == {<<i, m>>} \cup {<<i, child(m.of, m.parts[n])>> : n \in DOMAIN m.parts}

mayOverwrite(i) == i \in Latest \/ cfg.repush

Push(p, m) ==
  LET i == spec[p] IN
  \/ /\ m = None \/ (tags[i] \notin {None, m} /\ ~mayOverwrite(i))
     /\ returns(p, IF m = None THEN "error" ELSE "refused")
     /\ UNCHANGED <<tags, stored>>
  \/ /\ m # None /\ (tags[i] \in {None, m} \/ mayOverwrite(i))
     /\ returns(p, "ok")
     /\ tags' = [tags EXCEPT ![i] = m]
     /\ stored' = stored \cup withParts(i, m)

usePodDigest(i) == cfg.digestPull /\ (i \in Pinned \/ i \notin cfg.ignoredTags)

havePodDigest(p) == usePodDigest(spec[p]) /\ imageID(p) # None

\* What pullRef names.
pulled(p) == IF havePodDigest(p) THEN imageID(p) ELSE sourceManifest(spec[p])

\* A workload's pod template has no image ID, like a pod before it is reported.
unreported(p) == usePodDigest(spec[p]) /\ ~havePodDigest(p)

Mirror(p) ==
  /\ \/ /\ unreported(p) /\ spec[p] \notin Pinned
        /\ returns(p, "skipped")
        /\ UNCHANGED <<tags, stored>>
     \/ /\ havePodDigest(p) /\ <<spec[p], imageID(p)>> \in stored
        /\ returns(p, "ok")
        /\ UNCHANGED <<tags, stored>>
     \/ /\ unreported(p) /\ spec[p] \in Pinned /\ cfg.mirrorPlatforms = <<>>
        /\ tags[spec[p]] # None /\ tags[spec[p]] = sourceManifest(spec[p])
        /\ returns(p, "ok")
        /\ UNCHANGED <<tags, stored>>
     \/ /\ unreported(p) => spec[p] \in Pinned      \* none of these, or a HEAD failed
        /\ Push(p, selectManifest(pulled(p), nodePlatform(p)))
  /\ UNCHANGED <<cfg, spec, status, pending, nodeFound, edited>>

-----------------------------------------------------------------------------
(* The cluster. *)

\* The kubelet runs what the pod names, or still what it named before, if the
\* image has the node's platform, and reports one digest or the other.
Report(p, i) ==
  /\ i \in pending[p] /\ NodeOf[p] \in offered(i)
  /\ \E m \in {sourceManifest(i), child(i, NodeOf[p])} : status' = [status EXCEPT ![p] = m]
  /\ pending' = IF i = spec[p] THEN [pending EXCEPT ![p] = {i}] ELSE pending
  /\ UNCHANGED <<cfg, spec, nodeFound, tags, stored, edited>> /\ noCall

\* The image of a pod is changed in place; its status follows later.
EditImage(p, i) ==
  /\ p \in Editable /\ spec[p] # i
  /\ spec' = [spec EXCEPT ![p] = i]
  /\ pending' = [pending EXCEPT ![p] = @ \cup {i}]
  /\ edited' = edited \cup {i}
  /\ UNCHANGED <<cfg, status, nodeFound, tags, stored>> /\ noCall

\* The node leaves while the pod is still there; only seen if asked for.
NodeLeaves(p) ==
  /\ cfg.checkNode /\ nodeFound[p]
  /\ nodeFound' = [nodeFound EXCEPT ![p] = FALSE]
  /\ UNCHANGED <<cfg, spec, status, pending, tags, stored, edited>> /\ noCall

Next == \E p \in Pods : Mirror(p) \/ NodeLeaves(p) \/ \E i \in Images : Report(p, i) \/ EditImage(p, i)

Spec == Init /\ [][Next]_vars

-----------------------------------------------------------------------------
serves(i, image, p) ==
  \E m \in {s[2] : s \in {t \in stored : t[1] = i}} : m.of = image /\ p \in ToSet(m.parts)

running(p) == pulled(p).of

\* Nothing but the node's platform was left to guess.
platformKnown(p) ==
  nodePlatform(p) # None \/ cfg.mirrorPlatforms = <<>> \/ Contains(cfg.mirrorPlatforms, NodeOf[p])

(* After a call that succeeded the target has the image for the platform   *)
(* of the pod's node, by whichever of the paths (digest found, tag equal,  *)
(* pinned image unchanged, single manifest, subset, whole index) and       *)
(* whatever other pods pushed.                                             *)
(* Only if mirrorPlatforms is set and the node's platform is neither       *)
(* listed nor found may it be missing.                                     *)
NodeServed ==
  [][\A p \in Pods :
      Mirror(p) /\ outcome' = <<p, "ok">> /\ platformKnown(p) /\ NodeOf[p] \in offered(running(p))
        => serves(spec[p], running(p), NodeOf[p])']_vars

(* A push from an index brings every platform mirrorPlatforms lists, as    *)
(* far as the source offers it, whichever node the pod runs on.            *)
ListedPlatformsMirrored ==
  [][\A p \in Pods :
      Mirror(p) /\ tags' # tags /\ cfg.digestPull /\ pulled(p).kind = "index"
        => ToSet(cfg.mirrorPlatforms) \cap offered(pulled(p).of) \subseteq ToSet(tags'[spec[p]].parts)]_vars

(* A tag at the target names what comes from the source image of that name *)
(* unless a pod was switched to it: until the kubelet reports the new      *)
(* image, spec and image ID of the pod do not belong together.             *)
TagsTruthful == \A i \in Images : tags[i] # None => tags[i].of = i \/ i \in edited
=============================================================================
