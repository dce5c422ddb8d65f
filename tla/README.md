# k8s-copycat in TLA+

k8s-copycat watches the workloads of a Kubernetes cluster and copies the images they run to
one target registry. This directory models the program from its configuration to the tag it
writes, model-checks its properties, and proves every one of them that is not liveness. Source lines
below are relative to the repository root.

## 1. The system

| part | source | state it keeps | operations | module |
|---|---|---|---|---|
| pusher | `internal/mirror/pusher.go` | `pushed` (targets in progress), `failed` (time of the last failure), in memory under one mutex | `Mirror`, `ResetCooldown` | `Pusher`, `Delivery`; promise: `MirrorService` |
| platform selection | `pusher.go` 60-172, 1264-1624, `pkg/util/images.go` | none | which manifest of an index is pushed | `Platforms` |
| repository path, exclusion | `pusher.go` 1626-1759, `pkg/util/path.go` | none | source reference to target repository; excluded registries | `Routing` |
| targets | `internal/registry/*.go` | the registry: repositories, lifecycle policies | `EnsureRepository`, `BasicAuth` | `EcrTarget` |
| controllers | `internal/controllers/controllers.go` | controller-runtime's queues | six `Reconcile`s, `ForceReconcile`, skip lists | `Controllers`, `OwnerSkips` |
| namespace scope | `cmd/manager/namespaces.go`, `main.go` 96-138, `nsAllowed` | `AllowedNS`, cache scope, fixed at start-up | `validateAndExpandNamespaces` | `WatchScope` |
| start-up, configuration, endpoints | `cmd/manager/*.go`, `internal/config` | settings, pointers set once | `main`, `loadRuntimeConfig`, `/reset-cooldown`, `/force-reconcile` | `Startup` |
| keychain, metrics label | `internal/mirror/keychain.go`, `pkg/metrics` | none that is read back | lookup | `Routing` |

**How they interact.** `main` reads the configuration, expands the namespaces, builds one pusher
and starts the manager. API server events pass the controllers' filters into work queues;
`MaxConcurrentReconciles` workers per controller take objects, apply the skip lists, list the
images and call `Mirror` for one image after the other. All workers, and every
`/force-reconcile` request, share one pusher. `Mirror` decides from `failed` and `pushed` whether
to work on the target, then talks to the source and the target registry without holding the
mutex, and clears its mark in a deferred call. An error comes back as `RetryError`, which a
reconciler turns into a requeue.

**What is hard.** The mark is the only thing between one call's HEAD and its push and another
call's push of the same tag. It is released on every return path, on the failing ones twice,
and by name. Its target can change in the middle of a call, when the architecture becomes known.
A call that is skipped because another one is under way returns success, so whether the image is
mirrored in the end depends on somebody else's retry. Layers are read lazily, under a context
that was made for an earlier request. Caches of different kinds lag independently; an owner may
be gone when a pod asks for it. Registries lose answers, source tags move, pods on different
platforms push one tag, the process restarts and forgets both maps. PROJECT.json lists these
places under `hazards`, each at its line.

## 2. Modules

### MirrorService: what callers rely on

A caller is refused or skipped (nothing changes), or it works on a target, alone and not while
the target is in cooldown; the work ends with the image at the target (`Succeed`) or in a
failure that starts the cooldown (`Fail`); an image may get there although its caller fails
(`Write`). `Pusher` implements it (`ImplementsService`) and `Controllers` makes no step on the
pusher's state that it does not allow (`UsesService`), each through a refinement mapping, so the
small pusher inside `Controllers` is the one `Pusher` provides.

| MirrorService | Pusher | Controllers |
|---|---|---|
| `working[c]` | `cur[c]` while `pc[c]` is between mark and release | `img[c]` |
| `cooling` | targets whose failure is younger than the cooldown | `cooling` |
| `mirrored` | targets whose tag exists | `mirrored` |

### Pusher

One action is one critical section or one registry request of `Mirror`; between two of them
every other call may run. `pushed`, `failed` and `now` are the program's; `tags` and `manifests`
are the target registry (what a tag names, which digests resolve in a repository), `srcTag` the
mutable tags of the sources; `pc`, `req`, `cur`, `digest`, `attempt` are the locals of each call
(`cur` is `currentTarget`, the variable the deferred release reads). `outcome` and `stolen` are
history: how a call ended, and whether a deferred `finishProcessing` ever deleted a mark that
another call had set.

| action | code (`pusher.go`) |
|---|---|
| `Reject`, `beginProcessing` | 379-508, 1156-1186: excluded, unparsable or not yet reported; cooldown, in progress, marked |
| `BasicAuth` | 510-534 |
| `HeadDigest` | 536-564: with a reported image ID, HEAD of that digest; errors count as absent |
| `PreflightTarget`, `PreflightSource` | 584-633 |
| `Describe` | 566-582, 635-667: GET of the descriptor, then the dry-pull return |
| `Pull` | 669-787: load image or index, select platforms, resolve `$arch` |
| `reassignProcessing` | 788-803, 1198-1242 |
| `HeadTarget` | 805-860: present, may be overwritten, refused, failed |
| `EnsureRepository` | 862-872, with the dry-run return after it |
| `PushSucceeds`, `PushFails` | 874-913, 1078-1154: a failed write may have uploaded some children, or everything including the tag with only the answer lost |
| `Verify` | 915-945: only decides what is logged |
| `failureResult`, `finishProcessing` | 1244-1262, 506-508 and 1188-1196 |
| `ResetCooldown` | 1051-1069 |
| `Tick`, `Retag`, `Restart` | environment: clock, moving source tags, killed process |

Abstracted: a reference is a record (source, pinned digest, tag, repository, three flags); the
selection of a platform's manifest and the repository it leads to are the parameters `Selected`
and `ArchRepo` (their code is `Platforms` and `Routing`). `buildTarget` is what the code does: a
digest-only reference gets the tag `latest`. `failureResult` reads the clock just before it takes
the mutex; the two are one step here.

Not every request has a deadline. `operationContext` gives one to all requests but two, and only
if `requestTimeout` is positive (`Deadlines`). `BasicAuth` (510) and `EnsureRepository` (862) get
the bare context; for a plain registry they stay in the process, for ECR they are AWS requests
(`ecr.go` 62, 73, 87, 103; `Ecr`). `unbounded` is the set of labels at which a call may wait for
ever.

`CalmSpec` is the program without `/reset-cooldown` and under a timing assumption: no clock unit
passes between `failureResult`'s unlock and the deferred `finishProcessing`, which follows it without
a request or a wait in between. A goroutine that is stopped there for longer than the rest of the
cooldown is outside it, and inside `Spec`.

### EcrTarget and Delivery

`EcrTarget` is `EnsureRepository` (`ecr.go` 54-98) as three AWS requests of concurrent callers:
describe, create, put the lifecycle policy. Requests fail, a creation may succeed with its answer
lost, others create repositories too, the process dies between two requests. `created` and
`interrupted` are history.

`Delivery` extends it with the push of an index subset under contexts: the descriptor's context
(`srcLeft`, 566-582) outlives its request, because layers are read lazily under it during the
push; every attempt of `withRetry` has a context of its own (`left`), with a backoff in between;
parts found at the target are fetched under a context that is cancelled at once (1482). Layers
and manifests stay at the target when a push fails; a lifecycle policy may remove a manifest no
tag refers to, also between the HEAD that found it and the push that needs it. How
go-containerregistry reads and uploads is external and modelled from its use.

### Controllers

The work queue (`queued`, `waiting`), the callers (workers, and the handlers of `/force-reconcile`
requests, which may overlap), and of the pusher what `MirrorService` says: `busy`, `cooling` and
`mirrored` are a small pusher, and `UsesService` ties it to the promise `Pusher` keeps.
`Reconcile` is the five workload reconcilers and the pod reconciler up to the list of images;
`MirrorImage`, `MirrorSucceeds` and `MirrorFails` are the loop of `mirrorPodImages`;
`ReconcileReturns` is `mirrorResultForError`. `ForceReconcile` lists one kind of object after the
other, mirrors from the list and requeues nothing; an error of a list or of a pod's owner or node
abandons the rest. `passes` says what the two event filters of controller-runtime let through.
`Watched` stands for `nsAllowed` and the skip lists. When a requeue comes is not modelled:
`Requeue` may happen at any time, before the end of the cooldown too, so the results do not rest
on which `RetryError`'s time `mirrorPodImages` keeps (379), and say nothing about how long a retry
takes. `abandoned` is history: the images an object stopped running, and those a force reconcile
failed on.

### WatchScope and OwnerSkips

`WatchScope`: `validateAndExpandNamespaces` at start-up, the cache scope `main` derives from its
result, `nsAllowed` and `namespaceSkipped`, and namespaces created and deleted at any time. An
entry is `*`, a name or a pattern; a pattern is the set of names it matches (empty for a malformed
one, which the code logs and drops). A reconcile does not ask whether the namespace is still there:
an object in the cache is mirrored.

`OwnerSkips` extends it with the objects of the namespaces: `nameMatcher` and the owner chains pod
- ReplicaSet - Deployment and pod - Job - CronJob (`shouldSkipPod`, 592-664). `live` is the API
server, `cached` the informer caches, which catch up one object at a time (`Sync`), so a pod can
be seen before or after its owner; owners are deleted before what they own. An object has at most
one owner reference. The step `ReconcileObject` is the lookup of the owner; the node lookup and the
requests that follow it (544-555) decide nothing about skipping.

### Platforms

What is pushed for a pod, and what the target then serves: `parsePlatformSpec`,
`desiredPlatforms`, `filterIndexByPlatforms`, `selectImageDescriptor`, `shouldMirrorEntireIndex`
and `ImagesFromPod`, over pods on nodes of different platforms. Spec and status of a pod are
separate: the kubelet reports later, as the image ID, the digest of the index or of one manifest.
After an image was changed in place it may still report one the pod named before (`pending`), so
the two are apart for a while. Images may be pinned by digest (`Pinned`), which `Mirror` pulls and
compares without an image ID (584-633), or have a tag in `digestPullIgnoredTags` (476-481), which
it pulls by tag although digestPull is on. One container per pod; a call is one step; no variants
(`linux/arm/v7`) and no nested indexes.

### Routing and Startup

`Routing` holds the pure functions: exclusion (`normalizeRegistryPrefix`,
`normalizeImageReference`, `hasBoundaryPrefix`), repository path (`NewRepoPathTransformer`,
`expandRepoPrefix`, `CleanRepoName` with its cut and hash, `resolveArchitecture`), credentials
(`registryAliases`, `authenticator`, `Resolve`) and the metrics label. A string is a sequence of
tokens: separators, names, hosts. Its length is its number of tokens, so `MaxRepoName` is 8 in the
run where the code says 256. `Lists` has the filter of a slice that `Platforms` and `Routing` use.
The hash of a name is one token, given by the parameter `Digest` (twelve hexadecimal digits of a
SHA-1 in the code); a regular expression is the set of paths it rewrites.

`Startup` runs `main` for several instances of one Deployment: `loadRuntimeConfig` with the
precedence of variable, file, flag and default and its validation, `Configure`, `Prepare`, `Wire`,
`Serve`, `Lead`; endpoints (`Request`), crashes at any stage, and `Mirror` as the route of an image
under the settings. What `loadRuntimeConfig` and the routing yield depends only on the
configuration, which never changes, and is computed once in `Init`; an instance has it from
`Configure` on. The order of the keychain's wildcards is chosen anew at every start, as Go's map
does (`NewStaticKeychain`).

Operators whose name ends in `Mutant` are the operator that follows them with a slip in it. No
action uses them; they are there so that each property can be shown to fail on a program that
is wrong in that way.

## 3. Runs

| run | checks | shows |
|---|---|---|
| `pusher` | `TypeOK`, `NoLeakedMark`, `MutualExclusion`, `CooldownHonoured`, `ResultStillTrue`, `NoOverwrite` | digestPull and every kind of request, an index with a child, cooldown, reset, restart |
| `pusher_arch` | `NoLeakedMark`, `MutualExclusion`, `CooldownHonoured`, `NoOverwrite` | `$arch` in the prefix: one call moves to the repository another call started with |
| `pusher_calm` | `NeverStolen`, `TagsAreKept`, `CallsReturn`, `MarksReleased`, `ImplementsService` | cooldown on, no reset, fixed targets: no proviso is needed, every call ends that does not hang in a request without a deadline, and the pusher keeps its promise; under `CalmSpec`'s timing assumption |
| `pusher_overwrite` | `TagsAreKept` violated | section 4 |
| `delivery` | `PolicyOnOwnOnly`, `PolicyUnlessInterrupted`, `NoReadAfterTimeout`, `Delivered` | an index that does not fit into one timeout still arrives, over several calls |
| `controllers_retry` | `NoImageForgotten`, `EventuallyMirrored` | a deployment and its pod share one image, the pod has another |
| `controllers_edits` | `TypeOK`, `NoImageForgotten`, `UsesService` | two objects with one image, an edit or a deletion, and two force reconciles that may overlap |
| `controllers_lost` | `EventuallyMirrored` violated | section 4 |
| `selection` | `OnlySelected`, `ScopesAgree`, `UncoveredNotLost`, `SkippedOnlyWhileUnknown` | all include lists, owners that come and go, lagging caches |
| `platforms` | `TagsTruthful`, `NodeServed`, `ListedPlatformsMirrored` | two pods, two platforms, a pinned image, fourteen configurations |
| `startup` | `SoundSettings`, `AnswersReady`, `ExcludedNeverMirrored`, `WorkloadsSeparate`, `RepositoriesClean`, `CredentialStable`, `LabelNamesRegistry`, `Arrives` | 155 configurations, two instances |
| `startup_file` | `FileSettingsUsed` violated | section 4 |

**Bounds.** Two workers are enough for every race between two calls, and the double release that
needs three calls happens with two (the first one calls again). Two digests make "another digest",
one repository and the tags `v1` and `latest` the protected and the unprotected case, two
repositories the change of target. `MaxTime` is 1 or 2 with a cooldown of 1: inside, at the end
of, and after it. `Attempts` 2 retries a push once; in `delivery`, `Timeout` 2, `Backoff` 1 and
`Attempts` 3 let an attempt start before and after the descriptor's deadline, and `MaxExpiries` 2
removes every part once. `MaxEdits` is 1: one edit or deletion between a call's steps is what
breaks retries, and a second one repeats it. `MaxForce` 2 lets two force reconciles meet each
other and the workers. `selection` has a covered and an uncovered owner chain, whose ReplicaSet,
Job and pods come and go; the Deployment and the CronJob at their ends are only names to the code.
`MaxCrashes` 2 takes both instances down, or the leader and its successor. In `platforms` the
source has an index of two platforms with an attestation and a plain manifest, which is pinned and
whose tag at the target is `latest`; one pod is edited in place (`Editable`) and the other, on the
other platform, is not; the configured lists hold a duplicate, an unknown and an invalid entry.
The configurations of `startup` set one number, Boolean, list or target at a time in every
combination of variable and file, and route three images at a time under exclusions, prefixes,
path rules and credentials. Images, exclusions and names are chosen to differ in just the token
that matters (`team`/`teamwork`, `docker.io`/`index.docker.io`, names equal up to the cut).

Symmetry is used for workers and request handlers, and for digests where no request names one, and
only in runs without liveness. No run disables the deadlock check.

**Fairness.** `Pusher`: each call's next step is weakly fair, except at the labels in `unbounded`,
where nothing obliges a request to end. At the others `requestTimeout` ends it, in an error if
need be, and nothing is assumed about the answers. `CallsReturn` and `MarksReleased` say
accordingly that a call returns, and a mark is released, unless the call stays in one such request
for ever. The runs have `Ecr` and `Deadlines` TRUE, so they cover a plain registry as well:
without `Ecr` there are fewer behaviours, and `unbounded` is empty. With `requestTimeout` 0 no
request has a deadline, and a call may hang in any of them. `Controllers`: workers and timers go
on (weak), which takes that every call returns, so its liveness is that of a program whose
requests are all answered; the queue is first in, first out, so an object that is queued again and
again is taken again and again, and registries recover, so an image tried again and again is
mirrored in the end (strong). Edits, status changes and force reconciles are not fair; the resync
is. `Delivery`: calls go on and come back (weak, with the same assumption about the requests to
ECR), and a kind of request made again and again succeeds sometimes, soon enough after the
descriptor was read (strong); if everything before the push always took longer than the timeout,
nothing could be delivered. `Startup`: `main` goes on, a free lease is taken, the leader
reconciles (weak); crashes are bounded by `MaxCrashes`.

## 4. Where the code and its documentation disagree

With a run:

* `pusher_overwrite`: `failureResult` (1249) and the deferred `finishProcessing` (1194) both
  delete the mark. With the cooldown disabled, or reset in between, a second call can have marked
  the target between the two; the second delete removes its mark, a third call starts, both see
  no tag and both push. README.md:244 promises a failure instead. `NoOverwrite` and
  `MutualExclusion` hold up to that event (`stolen`), and `pusher_calm` shows when it cannot happen.
* `controllers_lost`: an object skipped for another object's call is not requeued; if that call
  fails and its object is then deleted or edited, no retry is left. README.md:322.
* `startup_file`: the file is decoded by way of JSON, which ignores `yaml` tags; the documented keys
  `requestTimeout` (README.md:267) and `registryRetryBackoff` name no field and are dropped.

Visible in the definitions named, without a run of their own:

* `unbounded`: with an ECR target two requests have no deadline. A call whose AWS request hangs keeps
  its mark, and its image is skipped, until the process restarts, although README.md:267 describes
  `requestTimeout` without an exception. `CallsReturn` and `MarksReleased` have the proviso.
* `mayOverwrite`: `latest` is overwritten; README.md:135 calls it protected.
* `Describe`: a dry pull sends a GET to the source first (README.md:137). `EnsureRepository`: a dry
  run creates the target repository. `PreflightSource`: the source is asked even when the target
  holds the pinned digest (docs/mirroring-flow.md:66). `HeadDigest`: a digest present under another
  tag ends the call without the tag being written.
* `Reject`: with digestPull, a PodSpec without an image ID is skipped (491-497); README.md:152 says
  its digest is resolved from the registry.
* `NoReadAfterTimeout`: a retry of a timed-out push can store no further layer (README.md:142 calls
  timed-out pushes retryable); progress is left to later calls.
* `EcrTarget`: a repository whose policy could not be put is "already there" for the next call and
  stays without it (README.md:188; `PolicyUnlessInterrupted` has the proviso).
* `passes`: both event filters drop the updates of a resync, so `forceReconcileMinutes` rescans
  nothing (README.md:271).
* `nsAllowed`: wildcards that match nothing leave an empty list, which the cache and `nsAllowed`
  read as "all namespaces", while main.go:124 logs that none will be watched; `OnlySelected` has
  the proviso.
* `skipped`: the Jobs of a skipped CronJob are mirrored by the Job controller, which looks at the
  Job's own name only; a pod is mirrored while its ReplicaSet or Job is unknown.
* `Platforms`: with repush off the second node platform of an image is refused; the digest of a
  filtered index depends on the node that came first; with one listed platform and
  `checkNodePlatform` off, a node of another platform is not served; after an edit in place the new
  tag may get the old image (`edited`).
* `rewrite`: the plain rule of README.md:262 doubles the slash (`prod/project//x`).
* `normalizeImageReference`: excluding `docker.io/library` misses `docker.io/nginx`. `Resolve`: a
  credential for `docker.io` alone never matches, the parsed registry is `index.docker.io`; two
  wildcards that match one registry are tried in random order.
* `setting`: `EXCLUDE_REGISTRIES=","` replaces the file's list by an empty one. `resolveDry`:
  any other text in `DRY_RUN` means false, even with the flag. `targetKind`: the variable is not
  lower-cased, the key is.
* `Startup!Mirror`: an instance without the lease answers `/force-reconcile` and mirrors, with maps
  of its own.

## 5. Proofs

All theorems hold for any sets of workers, targets, images, pods, namespaces and configurations
and any bounds, from the named assumptions of the modules. TLC evaluates those in the runs. Most
give parameters their types and say that `None` is not one of the values; the others are

| assumption | says | because |
|---|---|---|
| `OwnershipAssumption` (`OwnerSkips`) | kinds own kinds as in Kubernetes, in one namespace | owner references are set by Kubernetes' own controllers; another kind of owner is on no list |
| `InputAssumption` (`Platforms`) | an index and the configured platforms are lists | they are Go slices |
| `TokenAssumption` (`Routing`) | `strings.ToLower` changes neither dots nor separators, and does nothing the second time; Docker Hub's names have a dot and no capitals | ASCII |
| `SpellingAssumption` (`Routing`) | what `CleanRepoName` writes itself (separators, `library/unknown`) is allowed and in lower case | the literals in the code |
| `ConfigurationAssumption` (`Startup`) | numbers of the file are numbers, those of variables may be bad text; images start with neither scheme nor slash | the YAML decoder's types; `name.ParseReference` refuses other images before they are mirrored |
| `RouteAssumption` (`Startup`) | prefixes, rules and their results are strings; namespaces and objects have names in lower case, without slash, that begin and end with neither dash nor dot | Go's types; Kubernetes accepts only DNS names |
| `DigestAssumption` (`Startup`) | among the names one configuration gives `CleanRepoName`, different ones have different hashes; a hash is a token a repository may have, and no token of a source's own name | hexadecimal digits; SHA-1 cut to 48 bits may collide, and an image may be named after a hash, so this is the condition under which the separation holds |

**PusherProofs.** `TypeCorrect` needs `CallOK`: a call past `beginProcessing` has a request and
a target, and from `pull` on a digest. `MarksNeverLeak`, `TargetsAreExclusive` and
`CooldownIsHonoured` are proved together, as `MarkInv`: `NoLeakedMark` alone is not inductive,
because `finishProcessing` deletes by name; what carries it is `Owned`, that as long as nothing
was stolen every holding call's target is in `pushed`, together with mutual exclusion.
`ResultsStayTrue` and `TagsAreNotOverwritten` need `TagInv`: from `HeadTarget` to the push the
tag is absent, may be overwritten, or already names the digest (after a push whose answer was
lost), and a call that has confirmed a tag still sees it. Each is preserved by other calls'
pushes because of mutual exclusion: the proof is the argument that the mark makes HEAD and push
atomic. `CalmNeverStolen` and `CalmKeepsTags` drop the proviso under `Cooldown > 0` and
`FixedTargets`: a failed call's entry was recorded at the current time, and by `CalmSpec`'s timing
assumption that is still the time when the deferred release runs, so `beginProcessing` keeps
everybody out until then. `DryModesNeverPush`: the labels a call
cannot reach in the dry modes.

`CalmImplementsService` is the step simulation, under `Cooldown > 0`, `FixedTargets` and `TagMode`
(no digestPull, no dry mode): initial states map to initial states, and each step to `Begin`,
`Write`, `Succeed`, `Fail`, `Expire`, `Forget` or a stutter. `Begin` is enabled because of `Owned`
(nobody else holds an unmarked target); `Fail` starts the cooldown because the entry is recorded
now; `Succeed` needs `ReturnInv`, that in tag mode a call that returns nil has confirmed its tag,
and `TagInv`, that the tag is still there. With digestPull it does not hold: a digest present
under another tag ends the call without the tag.

**ControllersProofs.** `TypeCorrect` and `NothingForgotten`, with edits, deletions and any number of
overlapping force reconciles. The invariant that carries the second is `WorksFromSpec`: what a worker
still has to do, or is doing, is an image its object runs now, or one that is `abandoned`. The
interesting case is the skip: the caller is not requeued for the image, but the one that holds it is
a handler, or a worker whose object runs it and which therefore takes over the responsibility. The
other half is that this responsibility is never dropped: a failure sets `erred`, and `erred` puts the
object back into the queue. Without `abandoned` the step breaks, which is `controllers_lost`.
`CallersUseService` is the other half of the refinement.

**DeliveryProofs.** Of `EcrTarget`: `ForeignRepositoriesUntouched`, `PolicyFollowsCreation`; a call
about to put the policy is about to put it on a repository copycat created. Of `Delivery`:
`DeliveryImplementsEcrTarget` maps each step of a push to a step on the repositories or to a
stutter, so both results hold there too (`DeliveryKeepsPolicies`). `TimedOutReadsNothing` needs
`DescriptorOlder`: while a call pushes, the context of its descriptor has no more time left than
that of the attempt, and none once an attempt was spent; a new attempt renews `left` only.

**OwnerSkipsProofs.** Of `WatchScope`: `OnlySelectedNamespaces`, `CacheAndReconcilersAgree`; the
expanded list is related to the configuration, not to the namespaces that exist now.
`SkipsImplementWatchScope` carries both over to objects, and `ObjectsFromSelectedNamespaces` adds
that every mirrored object lies in a selected namespace. `SkipListsHold` is the case analysis of
`shouldSkipPod` over owner chains of length one and two: if the direct owner exists and is cached,
no link the code does not look up can be the skipped one. `UncoveredStayInSight` is the other
direction: no state of the caches makes a lookup find a list that does not cover the object, so a
reconcile that takes an object from the queue mirrors it. With informers that catch up and queues
that are worked off it follows that an uncovered object that stays is mirrored in the end.

**ListsProofs, PlatformsProofs.** `keep` (module `Lists`) is the loop that filters a slice.
`KeepProperties` says what it computes for every input: the members of the set that the list has,
a sequence again. `TagsAreTruthful`, `NodesAreServed` and `ListedPlatformsArrive` rest on it
and on `PlatformInv`: the image ID of a pod is one a node of its platform can report (`Reported`),
it belongs to the image the pod names unless a pod was switched to that (`Belongs`), and so does
what a tag names; and what a tag names is stored with its parts (`TagsStored`). `NodesAreServed` goes
through the ways in which `Mirror` can succeed (digest found, pinned image unchanged, tag equal,
single manifest, subset, whole index) and uses `Reported` in each, or `TagsStored` where nothing is
pushed.

**RoutingProofs.** What the functions of `Routing` compute, for every input. References: `lower`
works token by token, the first slash, the shape of a host. Names: `trim` and `trimRight` return a
part of their argument (`within`), `spelled` leaves only what is allowed and changes nothing in a
name that is clean already, `shortened` is a name again and ends in the hash
(`SpelledProperties`, `ShortenedProperties`, `CleanProperties`). Prefixes: `dropEmptySegments` and
`replaced` are recursive functions; the first returns names with single slashes between them, and
its argument if that is so already (`DropProperties`), the second the concatenation of the
placeholders' values (`ReplacedUnfolds`, `ExpandedPair`).

**StartupProofs.** `StartInv` ties what each instance works with, and what the histories hold,
to the one configuration; without it the properties are not inductive, because `Crash` and
`Configure` replace an instance's settings. `EndpointsReady` is a part of it. The others are then
about pure functions. `SettingsAreSound`: what `accepted` lets through, for numbers from variable,
file or default. `CredentialsAreStable`: two orders of the same wildcards find different
credentials only if two wildcards match (an order of a finite set has each member, by the
pigeonhole principle, and `SelectInSeq` finds the first match). `LabelsNameRegistries` and
`ExcludedAreNeverMirrored`: the code reads an image in three ways (`registryLabel`,
`normalizeImageReference`, the parsed reference), and the lemmas say that all three find the same
first slash and agree on whether a host precedes it, whatever its capitals; an exclusion in any
spelling becomes one name (`NamedRegistry`), and an image pulled from there starts with that name
and a slash (`PulledImage`), which the boundary rule accepts.

`RepositoriesAreClean` follows an image through parsing, rules, cleaning, prefix and the second
cleaning: each step returns a string, and an empty segment in its result was in its argument, except
for a rule that `doublesSlash` describes (`RewriteProperties` is the case analysis of what may meet
at the slash a plain rule writes). That needs a fact about the front as well as one about the
middle: a path that begins with a slash makes an empty segment under a rule with an empty `from`
(`gapped`), and only an image with an empty segment has such a path.

`WorkloadsAreSeparate`: under `$namespace/$podname` the full name is clean, so the second
`CleanRepoName` only cuts it (`PodRepository`). Two names that both fit are equal only if namespace
and pod are, which the first two slashes separate (`SameSegments`); two names that are both cut end
in their hashes. A whole name is never a cut one (`CutIsNotWhole`): its last token is that of the
cleaned source, which is no hash unless the source's name was itself cut; then it would be the hash
of the very same name, and the repository would be as long as a proper part of it.

**Induction over data.** The library's induction theorems take an operator as parameter and
cannot be instantiated here. `ListsProofs` has the principle in a form that needs none: a set of
naturals that is not empty has a least element (`LeastElement`, `BoundedInduction`), and from it
that a recursive function over `0..N` satisfies its equation (`IterationExists`) and keeps to a set
that each step keeps to (`IterationTyped`). `SelectSeq` and `FoldLeft` are not expanded by the
prover; a definition that is proved about uses `keep`, or a recursive function of its own
(`parseMirrorPlatforms`, `dropEmptySegments`, `replaced`).

**Only model-checked.** Liveness (`CallsReturn`, `MarksReleased`, `EventuallyMirrored`,
`Delivered`, `Arrives`): fairness and `ENABLED` are outside what TLAPS
proves here. Everything else the runs check is a theorem.

## 6. Not modelled, and what is left

Not modelled: logging, the counters of the metrics (nothing reads them), probes, HTTP response
bodies, the TLS and insecure settings of connections, the construction of clients. Settings that
are only handed on (skip names, ignored tags, platforms) are parameters of the modules that use
them, not of `Startup`. Init and ephemeral containers are treated alike by the code and are not
told apart.

Worth doing next: a run of `Pusher` with dry modes, which `DryModesNeverPush` covers alone; variants
of platforms (`linux/arm/v7`) and nested indexes in `Platforms`; the collisions that
`DigestAssumption` excludes, by weighing how many names a registry holds against 48 bits.
