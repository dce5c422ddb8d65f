------------------------------- MODULE Pusher -------------------------------
(***************************************************************************)
(* The image pusher of k8s-copycat: internal/mirror/pusher.go.             *)
(*                                                                         *)
(* Every controller worker, and the /forceReconcile handler, calls Mirror  *)
(* on one shared pusher.  The pusher keeps two maps under one mutex:       *)
(* pushed, the targets some call is working on, and failed, the time of    *)
(* the last failure of a target, which keeps it in cooldown.  Everything   *)
(* between two critical sections (requests to the source and the target    *)
(* registry) interleaves with the other calls.  One action below is one    *)
(* critical section or one registry request of Mirror.                     *)
(*                                                                         *)
(* A target is a pair <<repository, tag>> of the target registry; a digest *)
(* stands for the manifest it names.                                       *)
(***************************************************************************)
EXTENDS Naturals, FiniteSets

CONSTANTS
  Workers,      \* goroutines that may be inside Mirror
  Requests,     \* the (src, Metadata) pairs Mirror is called with: records
  Sources,      \* tagged references at source registries
  Repos, Tags,  \* repositories and tags of the target registry
  Latest,       \* the tag "latest"
  Digests,
  None,         \* "absent": no digest, no failure time, no request
  Selected,     \* [Requests -> [Digests -> Digests]]: manifest pushed for the one pulled
  ArchRepo,     \* [Requests -> [Digests -> Repos]]: repository once $arch is known
  Children,     \* [Digests -> SUBSET Digests]: manifests an index refers to
  DryRun, DryPull, PullByDigest, MirrorPlatforms, AllowRepush,  \* configuration
  Cooldown,     \* failureCooldown in clock units, 0 disables it
  Attempts,     \* registryRetry.Attempts after withRetry's floor of 1
  Ecr,          \* the target is Amazon ECR, not a plain registry
  Deadlines,    \* requestTimeout > 0
  MaxTime       \* bound on the clock

Targets == Repos \X Tags

ASSUME ConfigAssumption ==
  /\ {DryRun, DryPull, PullByDigest, MirrorPlatforms, AllowRepush, Ecr, Deadlines} \subseteq BOOLEAN
  /\ Cooldown \in Nat
  /\ Attempts \in Nat \ {0}
  /\ MaxTime \in Nat

ASSUME DataAssumption ==
  /\ Latest \in Tags
  /\ Requests \subseteq
       [src : Sources, pinned : Digests \cup {None}, imageID : Digests \cup {None},
        tag : Tags \cup {None}, repo : Repos,
        ignored : BOOLEAN, excluded : BOOLEAN, malformed : BOOLEAN]
  /\ Selected \in [Requests -> [Digests -> Digests]]
  /\ ArchRepo \in [Requests -> [Digests -> Repos]]
  /\ Children \in [Digests -> SUBSET Digests]

ASSUME NoneAssumption ==
  None \notin Requests \cup Targets \cup Digests \cup Tags \cup Nat

VARIABLES
  pushed,     \* p.pushed: targets marked as being processed
  failed,     \* p.failed: time of the last failure of a target
  now,        \* p.now()
  tags,       \* target registry: the digest each tag names
  manifests,  \* target registry: <<repo, digest>> pairs that resolve
  srcTag,     \* source registries: the digest each tag names
  pc,         \* where each worker is inside Mirror
  req,        \* its request
  cur,        \* its currentTarget
  digest,     \* the digest it last read, finally the one it pushes
  attempt,    \* withRetry's attempt
  outcome,    \* how its last call ended
  stolen      \* history: some call released a mark that was not its own

mem == <<pushed, failed>>
registry == <<tags, manifests>>
call == <<pc, req, cur, digest, attempt, outcome>>
vars == <<mem, now, registry, srcTag, call, stolen>>

\* Labels at which a call holds, or believes it holds, the mark of its target.
Holding == {"auth", "headDigest", "preflight", "preflightSource", "describe", "pull",
            "reassign", "headTarget", "ensure", "push", "verify", "fail", "finish"}

Outcomes == {"none", "skipped", "invalid", "cooldown", "digestPresent", "present",
             "dryPull", "dryRun", "pushed", "failed"}

Init ==
  /\ pushed = {}
  /\ failed = [t \in Targets |-> None]
  /\ now = 0
  /\ tags \in [Targets -> Digests \cup {None}]
  /\ manifests = {m \in Repos \X Digests :
                   \E t \in Targets : /\ t[1] = m[1]
                                      /\ tags[t] # None
                                      /\ m[2] \in Children[tags[t]] \cup {tags[t]}}
  /\ srcTag \in [Sources -> Digests]
  /\ pc = [w \in Workers |-> "idle"]
  /\ req = [w \in Workers |-> None]
  /\ cur = [w \in Workers |-> None]
  /\ digest = [w \in Workers |-> None]
  /\ attempt = [w \in Workers |-> 0]
  /\ outcome = [w \in Workers |-> "none"]
  /\ stolen = FALSE

-----------------------------------------------------------------------------
(* What Mirror computes from its arguments. *)

\* A reference without a tag parses to "latest", the digest-only ones included.
buildTarget(r, repo) == <<repo, IF r.tag = None THEN Latest ELSE r.tag>>

usePodDigest(r) == PullByDigest /\ ~(r.pinned = None /\ r.ignored)

havePodDigest(r) == usePodDigest(r) /\ r.imageID # None

\* The digest the pull reference resolves to when the source is asked now.
pullDigest(r) ==
  CASE havePodDigest(r) -> r.imageID
    [] ~havePodDigest(r) /\ r.pinned # None -> r.pinned
    [] OTHER -> srcTag[r.src]

inCooldown(t) == Cooldown > 0 /\ failed[t] # None /\ now < failed[t] + Cooldown

-----------------------------------------------------------------------------
(* The two maps.  Definitions with a name ending in Mutant are the same    *)
(* code with a plausible slip in it; no action uses them.                  *)

freeMutant(t) == TRUE
free(t) == t \notin pushed

releaseMutant(t) == pushed
release(t) == pushed \ {t}

\* An entry that is not in cooldown any more is dropped when it is looked up.
expireMutant(t) == failed
expire(t) == [failed EXCEPT ![t] = None]

recordFailureMutant(t) == failed
recordFailure(t) == IF Cooldown > 0 THEN [failed EXCEPT ![t] = now] ELSE failed

(* Control flow of one call. *)

goto(w, label) == pc' = [pc EXCEPT ![w] = label]

at(w, label) == pc[w] = label

\* An error path: all that is left of the call is failureResult.
fail(w) ==
  /\ goto(w, "fail")
  /\ digest' = [digest EXCEPT ![w] = None]
  /\ attempt' = [attempt EXCEPT ![w] = 0]
  /\ UNCHANGED outcome

\* A return before beginProcessing marked anything: no deferred release.
returnEarly(w, result) ==
  /\ outcome' = [outcome EXCEPT ![w] = result]
  /\ UNCHANGED <<pc, req, cur, digest, attempt>>

\* A return after it: the deferred finishProcessing still has to run.
return(w, label, result) ==
  /\ goto(w, label)
  /\ outcome' = [outcome EXCEPT ![w] = result]

-----------------------------------------------------------------------------
(* Mirror, up to and including beginProcessing. *)

\* Excluded registry, unparsable reference, or digest not reported yet.
Reject(w, r) ==
  /\ at(w, "idle")
  /\ \/ /\ r.excluded
        /\ returnEarly(w, "skipped")
     \/ /\ ~r.excluded /\ r.malformed
        /\ returnEarly(w, "invalid")
     \/ /\ ~r.excluded /\ ~r.malformed
        /\ usePodDigest(r) /\ ~havePodDigest(r) /\ r.pinned = None
        /\ returnEarly(w, "skipped")
  /\ UNCHANGED <<mem, now, registry, srcTag, stolen>>

accepted(r) ==
  /\ ~r.excluded /\ ~r.malformed
  /\ ~(usePodDigest(r) /\ ~havePodDigest(r) /\ r.pinned = None)

beginProcessing(w, r) ==
  LET t == buildTarget(r, r.repo) IN
  /\ at(w, "idle")
  /\ accepted(r)
  /\ \/ /\ inCooldown(t)
        /\ returnEarly(w, "cooldown")
        /\ UNCHANGED mem
     \/ /\ ~inCooldown(t)
        /\ failed' = expire(t)
        /\ \/ /\ ~free(t)
              /\ returnEarly(w, "skipped")
              /\ UNCHANGED pushed
           \/ /\ free(t)
              /\ pushed' = pushed \cup {t}
              /\ goto(w, "auth")
              /\ req' = [req EXCEPT ![w] = r]
              /\ cur' = [cur EXCEPT ![w] = t]
              /\ outcome' = [outcome EXCEPT ![w] = "none"]
              /\ UNCHANGED <<digest, attempt>>
  /\ UNCHANGED <<now, registry, srcTag, stolen>>

-----------------------------------------------------------------------------
(* Mirror, the requests before the pull. *)

BasicAuth(w) ==
  /\ at(w, "auth")
  /\ \/ /\ goto(w, CASE havePodDigest(req[w]) -> "headDigest"
                     [] usePodDigest(req[w]) /\ ~havePodDigest(req[w]) /\ ~MirrorPlatforms
                          -> "preflight"
                     [] OTHER -> "describe")
        /\ UNCHANGED <<digest, attempt, outcome>>
     \/ fail(w)
  /\ UNCHANGED <<mem, now, registry, srcTag, stolen, req, cur>>

\* HEAD repo@podDigest at the target; an error is treated like "not found".
HeadDigest(w) ==
  /\ at(w, "headDigest")
  /\ \/ /\ <<cur[w][1], req[w].imageID>> \in manifests
        /\ return(w, "finish", "digestPresent")
     \/ /\ goto(w, "describe")
        /\ UNCHANGED outcome
  /\ UNCHANGED <<mem, now, registry, srcTag, stolen, req, cur, digest, attempt>>

PreflightTarget(w) ==
  /\ at(w, "preflight")
  /\ \/ /\ tags[cur[w]] # None
        /\ digest' = [digest EXCEPT ![w] = tags[cur[w]]]
        /\ goto(w, "preflightSource")
     \/ /\ goto(w, "describe")
        /\ UNCHANGED digest
  /\ UNCHANGED <<mem, now, registry, srcTag, stolen, req, cur, attempt, outcome>>

PreflightSource(w) ==
  /\ at(w, "preflightSource")
  /\ \/ /\ digest[w] = pullDigest(req[w])
        /\ return(w, "finish", "present")
     \/ /\ goto(w, "describe")
        /\ UNCHANGED outcome
  /\ UNCHANGED <<mem, now, registry, srcTag, stolen, req, cur, digest, attempt>>

\* getDescriptor: the dry-pull return comes after the GET has been answered.
Describe(w) ==
  /\ at(w, "describe")
  /\ \/ fail(w)
     \/ /\ digest' = [digest EXCEPT ![w] = pullDigest(req[w])]
        /\ UNCHANGED attempt
        /\ IF DryPull THEN return(w, "finish", "dryPull")
                      ELSE goto(w, "pull") /\ UNCHANGED outcome
  /\ UNCHANGED <<mem, now, registry, srcTag, stolen, req, cur>>

-----------------------------------------------------------------------------
(* Mirror, from the pull to the push. *)

\* Load the image or index, select or filter platforms, resolve $arch.
Pull(w) ==
  /\ at(w, "pull")
  /\ \/ fail(w)
     \/ LET d == Selected[req[w]][digest[w]] IN
        /\ digest' = [digest EXCEPT ![w] = d]
        /\ goto(w, IF ArchRepo[req[w]][d] # req[w].repo THEN "reassign" ELSE "headTarget")
        /\ UNCHANGED <<attempt, outcome>>
  /\ UNCHANGED <<mem, now, registry, srcTag, stolen, req, cur>>

\* failed once newTarget's entry has expired and oldTarget's is carried over.
carryOverMutant(old, new) ==
  IF Cooldown > 0 /\ failed[old] # None
  THEN [failed EXCEPT ![new] = failed[old], ![old] = None]
  ELSE failed
carryOver(old, new) ==
  IF Cooldown > 0 /\ failed[old] # None
  THEN [failed EXCEPT ![new] = failed[old], ![old] = None]
  ELSE expire(new)

\* The mark moves with the call, if the call still has one.
moveMarkMutant(old, new) == release(old)
moveMarkTwiceMutant(old, new) == pushed \cup {new}
moveMark(old, new) == IF old \in pushed THEN release(old) \cup {new} ELSE pushed

\* A call that may not continue gives up its mark here, and again in the defer.
reassignProcessing(w) ==
  LET old == cur[w]
      new == buildTarget(req[w], ArchRepo[req[w]][digest[w]])
  IN
  /\ at(w, "reassign")
  /\ \/ /\ inCooldown(new)
        /\ pushed' = release(old)
        /\ return(w, "released", "cooldown")
        /\ UNCHANGED <<failed, cur>>
     \/ /\ ~inCooldown(new)
        /\ failed' = carryOver(old, new)
        /\ \/ /\ ~free(new)
              /\ pushed' = release(old)
              /\ return(w, "released", "skipped")
              /\ UNCHANGED cur
           \/ /\ free(new)
              /\ pushed' = moveMark(old, new)
              /\ cur' = [cur EXCEPT ![w] = new]
              /\ goto(w, "headTarget")
              /\ UNCHANGED outcome
  /\ UNCHANGED <<now, registry, srcTag, stolen, req, digest, attempt>>

mayOverwriteMutant(t) == TRUE
mayOverwrite(t) == t[2] = Latest \/ AllowRepush

\* HEAD of the target tag, and what Mirror decides from the answer.
HeadTarget(w) ==
  LET held == tags[cur[w]] IN
  /\ at(w, "headTarget")
  /\ \/ /\ held = digest[w]
        /\ return(w, "finish", "present")
        /\ UNCHANGED <<digest, attempt>>
     \/ /\ held # digest[w]
        /\ held = None \/ mayOverwrite(cur[w])
        /\ goto(w, "ensure")
        /\ UNCHANGED <<digest, attempt, outcome>>
     \/ fail(w)                \* refusing to overwrite, or the HEAD failed
  /\ UNCHANGED <<mem, now, registry, srcTag, stolen, req, cur>>

\* What it does at the target is module EcrTarget; it precedes the dry-run test.
EnsureRepository(w) ==
  /\ at(w, "ensure")
  /\ \/ fail(w)
     \/ /\ IF DryRun THEN return(w, "finish", "dryRun") /\ UNCHANGED attempt
                     ELSE /\ goto(w, "push")
                          /\ attempt' = [attempt EXCEPT ![w] = 1]
                          /\ UNCHANGED outcome
        /\ UNCHANGED digest
  /\ UNCHANGED <<mem, now, registry, srcTag, stolen, req, cur>>

\* The manifests d brings with it are uploaded before the tag moves.
upload(t, ds) == manifests' = manifests \cup {<<t[1], d>> : d \in ds}

writtenMutant(t, d) ==
  /\ upload(t, Children[d] \cup {d})
  /\ UNCHANGED tags
written(t, d) ==
  /\ upload(t, Children[d] \cup {d})
  /\ tags' = [tags EXCEPT ![t] = d]

PushSucceeds(w) ==
  /\ at(w, "push")
  /\ written(cur[w], digest[w])
  /\ goto(w, "verify")
  /\ attempt' = [attempt EXCEPT ![w] = 0]
  /\ UNCHANGED <<mem, now, srcTag, stolen, req, cur, digest, outcome>>

retryMutant(w) == attempt[w] <= Attempts
retry(w) == attempt[w] < Attempts

\* A failed write may have uploaded some children, or everything with only
\* the answer lost; withRetry repeats it when the error is a retryable one.
PushFails(w) ==
  /\ at(w, "push")
  /\ \/ written(cur[w], digest[w])
     \/ /\ \E part \in SUBSET Children[digest[w]] : upload(cur[w], part)
        /\ UNCHANGED tags
  /\ \/ /\ retry(w)
        /\ attempt' = [attempt EXCEPT ![w] = @ + 1]
        /\ UNCHANGED <<pc, digest, outcome>>
     \/ fail(w)
  /\ UNCHANGED <<mem, now, srcTag, stolen, req, cur>>

\* The HEAD after the push only decides what is logged.
VerifyMutant(w) ==
  /\ at(w, "verify")
  /\ \/ /\ return(w, "finish", "pushed")
        /\ UNCHANGED attempt
     \/ /\ goto(w, "push")
        /\ attempt' = [attempt EXCEPT ![w] = 1]
        /\ UNCHANGED outcome
  /\ UNCHANGED <<mem, now, registry, srcTag, stolen, req, cur, digest>>
Verify(w) ==
  /\ at(w, "verify")
  /\ return(w, "finish", "pushed")
  /\ UNCHANGED <<mem, now, registry, srcTag, stolen, req, cur, digest, attempt>>

-----------------------------------------------------------------------------
(* The end of a call. *)

\* p.now() is read just before the mutex is taken; both are one step here.
failureResult(w) ==
  /\ at(w, "fail")
  /\ pushed' = release(cur[w])
  /\ failed' = recordFailure(cur[w])
  /\ return(w, "released", "failed")
  /\ UNCHANGED <<now, registry, srcTag, stolen, req, cur, digest, attempt>>

\* The deferred call: it deletes the mark whoever set it.
finishProcessing(w) ==
  /\ pc[w] \in {"finish", "released"}
  /\ pushed' = release(cur[w])
  /\ stolen' = (stolen \/ (pc[w] = "released" /\ cur[w] \in pushed))
  /\ goto(w, "idle")
  /\ req' = [req EXCEPT ![w] = None]
  /\ cur' = [cur EXCEPT ![w] = None]
  /\ digest' = [digest EXCEPT ![w] = None]
  /\ UNCHANGED <<failed, now, registry, srcTag, attempt, outcome>>

-----------------------------------------------------------------------------
(* The rest of the program and the environment. *)

\* POST /reset-cooldown.
ResetCooldown ==
  /\ Cooldown > 0
  /\ failed' = [t \in Targets |-> None]
  /\ UNCHANGED <<pushed, now, registry, srcTag, call, stolen>>

Tick ==
  /\ now < MaxTime
  /\ now' = now + 1
  /\ UNCHANGED <<mem, registry, srcTag, call, stolen>>

\* Source tags are mutable: somebody pushes a new image under an old tag.
Retag(s, d) ==
  /\ srcTag' = [srcTag EXCEPT ![s] = d]
  /\ UNCHANGED <<mem, now, registry, call, stolen>>

\* The process is killed and starts again: both maps live in memory only.
Restart ==
  /\ pushed' = {}
  /\ failed' = [t \in Targets |-> None]
  /\ pc' = [w \in Workers |-> "idle"]
  /\ req' = [w \in Workers |-> None]
  /\ cur' = [w \in Workers |-> None]
  /\ digest' = [w \in Workers |-> None]
  /\ attempt' = [w \in Workers |-> 0]
  /\ outcome' = [w \in Workers |-> "none"]
  /\ stolen' = FALSE
  /\ UNCHANGED <<now, registry, srcTag>>

Call(w) == \E r \in Requests : Reject(w, r) \/ beginProcessing(w, r)

Step(w) ==
  \/ BasicAuth(w) \/ HeadDigest(w) \/ PreflightTarget(w) \/ PreflightSource(w)
  \/ Describe(w) \/ Pull(w) \/ reassignProcessing(w) \/ HeadTarget(w)
  \/ EnsureRepository(w) \/ PushSucceeds(w) \/ PushFails(w) \/ Verify(w)
  \/ failureResult(w) \/ finishProcessing(w)

Environment == ResetCooldown \/ Tick \/ (\E s \in Sources, d \in Digests : Retag(s, d)) \/ Restart

Next == (\E w \in Workers : Call(w) \/ Step(w)) \/ Environment

\* Requests of Mirror under operationContext, answered or cut off if it sets a deadline.
underOperationContext ==
  {"headDigest", "preflight", "preflightSource", "describe", "pull", "headTarget", "push", "verify"}

\* Requests nothing cuts off.  BasicAuth and EnsureRepository get the bare context;
\* they stay in the process for a plain registry and ask Amazon ECR otherwise.
unbounded == (IF Ecr THEN {"auth", "ensure"} ELSE {})
             \cup (IF Deadlines THEN {} ELSE underOperationContext)

\* A call that has begun goes on, unless the request it is in may never end.
Fairness == \A w \in Workers : WF_vars(pc[w] \notin unbounded /\ Step(w))

Spec == Init /\ [][Next]_vars /\ Fairness

(***************************************************************************)
(* The program when nobody uses /reset-cooldown and no clock unit passes   *)
(* between failureResult's unlock and the deferred finishProcessing that   *)
(* follows it at once.                                                     *)
(***************************************************************************)
CalmEnvironment ==
  \/ (\A w \in Workers : pc[w] # "released") /\ Tick
  \/ \E s \in Sources, d \in Digests : Retag(s, d)
  \/ Restart

CalmNext == (\E w \in Workers : Call(w) \/ Step(w)) \/ CalmEnvironment

CalmSpec == Init /\ [][CalmNext]_vars /\ Fairness

-----------------------------------------------------------------------------
(* Safety. *)

(* Every variable has its type.                                            *)
TypeOK ==
  /\ pushed \subseteq Targets
  /\ failed \in [Targets -> Nat \cup {None}]
  /\ now \in 0..MaxTime
  /\ tags \in [Targets -> Digests \cup {None}]
  /\ manifests \subseteq Repos \X Digests
  /\ srcTag \in [Sources -> Digests]
  /\ pc \in [Workers -> Holding \cup {"idle", "released"}]
  /\ req \in [Workers -> Requests \cup {None}]
  /\ cur \in [Workers -> Targets \cup {None}]
  /\ digest \in [Workers -> Digests \cup {None}]
  /\ attempt \in [Workers -> 0..Attempts]
  /\ outcome \in [Workers -> Outcomes]
  /\ stolen \in BOOLEAN

holds(w, t) == pc[w] \in Holding /\ cur[w] = t

(* No return path of Mirror leaks a mark: a target in p.pushed always has  *)
(* a call that is still going to release it.  A leaked mark would make     *)
(* beginProcessing skip the image until the process restarts.              *)
NoLeakedMark == \A t \in pushed : \E w \in Workers : holds(w, t)

(* What p.pushed is for: two calls are never past beginProcessing (or      *)
(* reassignProcessing) for one target, as long as no deferred              *)
(* finishProcessing has deleted a mark that another call had set.          *)
MutualExclusion ==
  ~stolen => \A v, w \in Workers : v # w /\ pc[v] \in Holding /\ pc[w] \in Holding
                                     => cur[v] # cur[w]

(* No deferred finishProcessing deletes a mark that another call has set   *)
(* in the meantime.  It holds of the calm program with a cooldown and no   *)
(* $arch in the repository prefix: there the cooldown entry failureResult  *)
(* leaves behind keeps every other call out until the defer has run.       *)
NeverStolen == ~stolen

(* The cooldown is honoured on every way into the critical part, the       *)
(* change of target by reassignProcessing included: no call works on a     *)
(* target whose failure is still recorded.                                 *)
CooldownHonoured ==
  ~stolen => \A w \in Workers : pc[w] \in Holding => failed[cur[w]] = None

(* The answer Mirror gives is still true when it returns: "already         *)
(* present" and "pushed" mean the target tag names the digest now, though  *)
(* the HEAD or the push that said so lies several requests back.           *)
ResultStillTrue ==
  ~stolen => \A w \in Workers :
    pc[w] = "finish" /\ outcome[w] \in {"present", "pushed"} => tags[cur[w]] = digest[w]

\* Step property: a tag other than latest that names a digest keeps it.
keepsTags == \A t \in Targets : tags[t] # None /\ t[2] # Latest => tags'[t] = tags[t]

(* Without allowDifferentDigestRepush a tag other than latest is never     *)
(* moved to another digest, although the HEAD that looked and the push     *)
(* that writes are separate requests, and a push may be a retry of one     *)
(* that took effect.                                                       *)
NoOverwrite == [][~stolen /\ ~AllowRepush => keepsTags]_vars

(* README.md:244, "fail when the target tag already exists with a          *)
(* different digest (except for latest)": the same without the proviso     *)
(* that no mark was released twice.                                        *)
TagsAreKept == [][~AllowRepush => keepsTags]_vars

(* README.md:136, "perform all operations except pushing": in dry-run and  *)
(* in dry-pull mode no call, whatever path it takes, uploads a manifest or *)
(* moves a tag.  (A dry run does create the target repository.)            *)
DryWritesNothing == [][DryRun \/ DryPull => UNCHANGED registry]_vars

-----------------------------------------------------------------------------
(* Liveness. *)

\* The call stays for ever in a request that has no deadline and gets no answer.
hangs(w) == [](pc[w] \in unbounded)

(* Every call of Mirror returns, whatever the registries answer, unless it *)
(* stays for ever in one request without a deadline: with requestTimeout   *)
(* and a plain target registry, every call.                                *)
CallsReturn == \A w \in Workers : pc[w] # "idle" ~> (pc[w] = "idle" \/ hangs(w))

(* Every mark is eventually released, so a target skipped because another  *)
(* call was working on it can be processed again, unless the call that     *)
(* holds the mark hangs in a request without a deadline.                   *)
MarksReleased ==
  \A t \in Targets :
    t \in pushed ~> (t \notin pushed \/ \E w \in Workers : hangs(w) /\ [](cur[w] = t))

-----------------------------------------------------------------------------
(* What a caller sees of the pusher. *)

Service == INSTANCE MirrorService WITH
  Callers <- Workers, CooldownOn <- Cooldown > 0,
  working <- [w \in Workers |-> IF pc[w] \in Holding THEN cur[w] ELSE None],
  cooling <- {t \in Targets : inCooldown(t)},
  mirrored <- {t \in Targets : tags[t] # None}

(* The pusher keeps the promise the controllers build on (MirrorService):  *)
(* one call per target, none in cooldown, a failure starts the cooldown,   *)
(* and a call that worked on a target and returned nil leaves its tag at   *)
(* the target registry.  It holds of the calm program in tag mode.         *)
ImplementsService == Service!Spec
=============================================================================
