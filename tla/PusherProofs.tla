---------------------------- MODULE PusherProofs ----------------------------
(* Machine-checked proofs about Pusher, for every value of its constants.  *)
EXTENDS Pusher, TLAPS

-----------------------------------------------------------------------------
(* The operators the model is built from. *)

(* The target Mirror builds from a request and a repository is a target,   *)
(* also for references that name no tag.                                   *)
LEMMA BuildTargetType ==
  ASSUME NEW r \in Requests, NEW repo \in Repos
  PROVE  buildTarget(r, repo) \in Targets
BY DataAssumption DEF buildTarget, Targets

(* The digest a pull resolves to is a digest, whichever of the pod's image *)
(* ID, the pinned digest and the source tag Mirror uses.                   *)
LEMMA PullDigestType ==
  ASSUME NEW r \in Requests, srcTag \in [Sources -> Digests]
  PROVE  pullDigest(r) \in Digests
<1>1. r.imageID \in Digests \cup {None} /\ r.pinned \in Digests \cup {None} /\ r.src \in Sources
  BY DataAssumption
<1>2. CASE havePodDigest(r)
  BY <1>1, <1>2 DEF pullDigest, havePodDigest
<1>3. CASE ~havePodDigest(r) /\ r.pinned # None
  BY <1>1, <1>3 DEF pullDigest
<1>4. CASE ~havePodDigest(r) /\ r.pinned = None
  BY <1>1, <1>4 DEF pullDigest
<1> QED BY <1>2, <1>3, <1>4

-----------------------------------------------------------------------------
(* Type correctness needs to know what a call under way has at hand. *)

WithDigest == {"preflightSource", "pull", "reassign", "headTarget", "ensure", "push", "verify"}

CallOK ==
  \A w \in Workers :
    /\ pc[w] # "idle" => req[w] \in Requests /\ cur[w] \in Targets
    /\ pc[w] \in WithDigest => digest[w] \in Digests

TypeInv == TypeOK /\ CallOK

LEMMA TypeInit == Init => TypeInv
<1> SUFFICES ASSUME Init PROVE TypeInv
  OBVIOUS
<1>1. manifests \subseteq Repos \X Digests
  BY DEF Init
<1>2. stolen \in BOOLEAN
  BY DEF Init
<1>3. now \in 0..MaxTime /\ attempt \in [Workers -> 0..Attempts]
  BY ConfigAssumption DEF Init
<1>4. CallOK
  BY DEF Init, CallOK, WithDigest
<1> QED BY <1>1, <1>2, <1>3, <1>4 DEF Init, TypeInv, TypeOK, Outcomes

LEMMA TypeCall ==
  ASSUME TypeInv, NEW w \in Workers, NEW r \in Requests, Reject(w, r) \/ beginProcessing(w, r)
  PROVE  TypeInv'
<1> USE DEF TypeInv, TypeOK, CallOK, WithDigest, Outcomes, Holding, at, goto
<1>1. CASE Reject(w, r)
  BY <1>1 DEF Reject, returnEarly, mem, registry
<1>2. CASE beginProcessing(w, r)
  <2>1. r.repo \in Repos
    BY DataAssumption
  <2> DEFINE t == buildTarget(r, r.repo)
  <2>2. t \in Targets
    BY <2>1, BuildTargetType
  <2> HIDE DEF t
  <2>3. CASE inCooldown(t) /\ returnEarly(w, "cooldown") /\ UNCHANGED mem
    BY <1>2, <2>3 DEF beginProcessing, returnEarly, mem, registry
  <2>4. CASE failed' = expire(t) /\ returnEarly(w, "skipped") /\ UNCHANGED pushed
    BY <1>2, <2>2, <2>4 DEF beginProcessing, returnEarly, mem, registry, expire
  <2>5. CASE /\ failed' = expire(t)
             /\ pushed' = pushed \cup {t}
             /\ goto(w, "auth")
             /\ req' = [req EXCEPT ![w] = r]
             /\ cur' = [cur EXCEPT ![w] = t]
             /\ outcome' = [outcome EXCEPT ![w] = "none"]
             /\ UNCHANGED <<digest, attempt>>
    BY <1>2, <2>2, <2>5 DEF beginProcessing, registry, expire
  <2> QED BY <1>2, <2>3, <2>4, <2>5 DEF beginProcessing, t
<1> QED BY <1>1, <1>2

LEMMA TypeStep ==
  ASSUME TypeInv, NEW w \in Workers, Step(w)
  PROVE  TypeInv'
<1> USE DEF TypeInv, TypeOK, CallOK, WithDigest, Outcomes, Holding, at, goto, mem, registry, return, fail
<1>1. CASE BasicAuth(w)
  BY <1>1, ConfigAssumption DEF BasicAuth
<1>2. CASE HeadDigest(w)
  BY <1>2 DEF HeadDigest
<1>3. CASE PreflightTarget(w)
  BY <1>3 DEF PreflightTarget
<1>4. CASE PreflightSource(w)
  BY <1>4 DEF PreflightSource
<1>5. CASE Describe(w)
  <2>1. req[w] \in Requests
    BY <1>5 DEF Describe
  <2>2. pullDigest(req[w]) \in Digests
    BY <2>1, PullDigestType
  <2> QED BY <1>5, <2>2, ConfigAssumption DEF Describe
<1>6. CASE Pull(w)
  <2>1. req[w] \in Requests /\ digest[w] \in Digests
    BY <1>6 DEF Pull
  <2>2. Selected[req[w]][digest[w]] \in Digests
    BY <2>1, DataAssumption
  <2> QED BY <1>6, <2>2, ConfigAssumption DEF Pull
<1>7. CASE reassignProcessing(w)
  <2> DEFINE old == cur[w]
             new == buildTarget(req[w], ArchRepo[req[w]][digest[w]])
  <2>1. req[w] \in Requests /\ digest[w] \in Digests /\ old \in Targets
    BY <1>7 DEF reassignProcessing
  <2>2. ArchRepo[req[w]][digest[w]] \in Repos
    BY <2>1, DataAssumption
  <2>3. new \in Targets
    BY <2>1, <2>2, BuildTargetType
  <2> HIDE DEF old, new
  <2>4. carryOver(old, new) \in [Targets -> Nat \cup {None}]
    BY <2>1, <2>3 DEF carryOver, expire
  <2>5. release(old) \subseteq Targets /\ moveMark(old, new) \subseteq Targets
    BY <2>3 DEF release, moveMark
  <2>6. CASE /\ pushed' = release(old)
             /\ \/ return(w, "released", "cooldown") /\ UNCHANGED <<failed, cur>>
                \/ return(w, "released", "skipped") /\ UNCHANGED cur /\ failed' = carryOver(old, new)
    BY <1>7, <2>4, <2>5, <2>6 DEF reassignProcessing
  <2>7. CASE /\ pushed' = moveMark(old, new)
             /\ failed' = carryOver(old, new)
             /\ cur' = [cur EXCEPT ![w] = new]
             /\ goto(w, "headTarget")
             /\ UNCHANGED outcome
    BY <1>7, <2>3, <2>4, <2>5, <2>7 DEF reassignProcessing
  <2> QED BY <1>7, <2>6, <2>7 DEF reassignProcessing, old, new
<1>8. CASE HeadTarget(w)
  BY <1>8, ConfigAssumption DEF HeadTarget
<1>9. CASE EnsureRepository(w)
  BY <1>9, ConfigAssumption DEF EnsureRepository
<1>10. CASE PushSucceeds(w)
  BY <1>10, ConfigAssumption, DataAssumption DEF PushSucceeds, written, upload, Targets
<1>11. CASE PushFails(w)
  <2>1. cur[w] \in Targets /\ digest[w] \in Digests /\ cur[w][1] \in Repos
    BY <1>11 DEF PushFails, Targets
  <2>2. Children[digest[w]] \subseteq Digests
    BY <2>1, DataAssumption
  <2>3. tags' \in [Targets -> Digests \cup {None}] /\ manifests' \subseteq Repos \X Digests
    BY <1>11, <2>1, <2>2 DEF PushFails, written, upload
  <2>4. CASE retry(w) /\ attempt' = [attempt EXCEPT ![w] = @ + 1] /\ UNCHANGED <<pc, digest, outcome>>
    BY <1>11, <2>3, <2>4, ConfigAssumption DEF PushFails, retry
  <2>5. CASE fail(w)
    BY <1>11, <2>3, <2>5, ConfigAssumption DEF PushFails
  <2> QED BY <1>11, <2>4, <2>5 DEF PushFails
<1>12. CASE Verify(w)
  BY <1>12 DEF Verify
<1>13. CASE failureResult(w)
  BY <1>13 DEF failureResult, release, recordFailure
<1>14. CASE finishProcessing(w)
  BY <1>14 DEF finishProcessing, release
<1> QED BY <1>1, <1>2, <1>3, <1>4, <1>5, <1>6, <1>7, <1>8, <1>9, <1>10, <1>11, <1>12, <1>13, <1>14
      DEF Step

LEMMA TypeEnvironment ==
  ASSUME TypeInv, Environment
  PROVE  TypeInv'
<1> USE DEF TypeInv, TypeOK, CallOK, WithDigest, Outcomes, mem, registry, call
<1>1. CASE ResetCooldown
  BY <1>1 DEF ResetCooldown
<1>2. CASE Tick
  BY <1>2, ConfigAssumption DEF Tick
<1>3. ASSUME NEW s \in Sources, NEW d \in Digests, Retag(s, d) PROVE TypeInv'
  BY <1>3 DEF Retag
<1>4. CASE Restart
  <2>1. stolen' \in BOOLEAN
    BY <1>4 DEF Restart
  <2>2. attempt' \in [Workers -> 0..Attempts]
    BY <1>4, ConfigAssumption DEF Restart
  <2> QED BY <1>4, <2>1, <2>2 DEF Restart
<1> QED BY <1>1, <1>2, <1>3, <1>4 DEF Environment

LEMMA TypeNext == TypeInv /\ [Next]_vars => TypeInv'
<1> SUFFICES ASSUME TypeInv, [Next]_vars PROVE TypeInv'
  OBVIOUS
<1>1. CASE Next
  BY <1>1, TypeCall, TypeStep, TypeEnvironment DEF Next, Call
<1>2. CASE UNCHANGED vars
  BY <1>2 DEF vars, mem, registry, call, TypeInv, TypeOK, CallOK
<1> QED BY <1>1, <1>2

(* Type correctness for every number of workers, requests, targets and     *)
(* every configuration.                                                    *)
THEOREM TypeCorrect == Spec => []TypeOK
<1>1. TypeInv => TypeOK
  BY DEF TypeInv
<1> QED BY TypeInit, TypeNext, <1>1, PTL DEF Spec

-----------------------------------------------------------------------------
(* The marks.  MutualExclusion is not inductive: it also needs that a call *)
(* past beginProcessing still has its mark.                                *)

Owned == ~stolen => \A w \in Workers : pc[w] \in Holding => cur[w] \in pushed

MarkInv == NoLeakedMark /\ Owned /\ MutualExclusion /\ CooldownHonoured

\* What every registry request of a call does to the marks: nothing.
Request(w) ==
  /\ pc[w] \in Holding /\ pc'[w] \in Holding
  /\ \A v \in Workers \ {w} : pc'[v] = pc[v]
  /\ UNCHANGED <<pushed, failed, cur, stolen>>

LEMMA RequestSteps ==
  ASSUME TypeInv, NEW w \in Workers, Step(w)
  PROVE  Request(w) \/ reassignProcessing(w) \/ failureResult(w) \/ finishProcessing(w)
<1> USE DEF Request, Holding, at, goto, return, fail, mem
<1>0. pc \in [Workers -> Holding \cup {"idle", "released"}]
  BY DEF TypeInv, TypeOK
<1>1. CASE BasicAuth(w)
  BY <1>0, <1>1 DEF BasicAuth
<1>2. CASE HeadDigest(w) \/ PreflightTarget(w) \/ PreflightSource(w)
  BY <1>0, <1>2 DEF HeadDigest, PreflightTarget, PreflightSource
<1>3. CASE Describe(w) \/ Pull(w)
  BY <1>0, <1>3 DEF Describe, Pull
<1>4. CASE HeadTarget(w) \/ EnsureRepository(w)
  BY <1>0, <1>4 DEF HeadTarget, EnsureRepository
<1>5. CASE PushSucceeds(w) \/ PushFails(w) \/ Verify(w)
  BY <1>0, <1>5 DEF PushSucceeds, PushFails, Verify
<1> QED BY <1>1, <1>2, <1>3, <1>4, <1>5 DEF Step

LEMMA MarkInit == Init => MarkInv
BY DEF Init, MarkInv, NoLeakedMark, Owned, MutualExclusion, CooldownHonoured, Holding

LEMMA MarkCall ==
  ASSUME TypeInv, MarkInv, NEW w \in Workers, NEW r \in Requests,
         Reject(w, r) \/ beginProcessing(w, r)
  PROVE  MarkInv'
<1> USE DEF MarkInv, NoLeakedMark, Owned, MutualExclusion, CooldownHonoured, holds, mem
<1> DEFINE t == buildTarget(r, r.repo)
<1>0. pc \in [Workers -> Holding \cup {"idle", "released"}] /\ cur \in [Workers -> Targets \cup {None}]
      /\ failed \in [Targets -> Nat \cup {None}]
  BY DEF TypeInv, TypeOK
<1>1. t \in Targets
  BY BuildTargetType, DataAssumption
<1> HIDE DEF t
<1>2. CASE UNCHANGED <<pushed, failed, pc, cur, stolen>>
  BY <1>2
<1>3. CASE failed' = expire(t) /\ UNCHANGED <<pushed, pc, cur, stolen>>
  BY <1>0, <1>1, <1>3 DEF expire
<1>4. CASE /\ failed' = expire(t)
           /\ t \notin pushed
           /\ pushed' = pushed \cup {t}
           /\ pc[w] = "idle"
           /\ pc' = [pc EXCEPT ![w] = "auth"]
           /\ cur' = [cur EXCEPT ![w] = t]
           /\ UNCHANGED stolen
  <2>1. pc'[w] = "auth" /\ cur'[w] = t /\ \A v \in Workers \ {w} : pc'[v] = pc[v] /\ cur'[v] = cur[v]
    BY <1>0, <1>4
  <2>2. "idle" \notin Holding /\ "auth" \in Holding
    BY DEF Holding
  <2>3. NoLeakedMark'
    BY <1>4, <2>1, <2>2
  <2>4. Owned' /\ MutualExclusion'
    BY <1>4, <2>1, <2>2
  <2>5. CooldownHonoured'
    BY <1>0, <1>1, <1>4, <2>1, <2>2 DEF expire
  <2> QED BY <2>3, <2>4, <2>5
<1> QED BY <1>2, <1>3, <1>4 DEF Reject, beginProcessing, returnEarly, free, at, goto, t

LEMMA MarkStep ==
  ASSUME TypeInv, MarkInv, NEW w \in Workers, Step(w)
  PROVE  MarkInv'
<1> USE DEF MarkInv, NoLeakedMark, Owned, MutualExclusion, CooldownHonoured, holds, mem
<1>0. pc \in [Workers -> Holding \cup {"idle", "released"}] /\ cur \in [Workers -> Targets \cup {None}]
      /\ failed \in [Targets -> Nat \cup {None}]
  BY DEF TypeInv, TypeOK
<1>1. CASE Request(w)
  BY <1>1 DEF Request
<1>2. CASE failureResult(w)
  <2>1. /\ pc[w] = "fail" /\ pc'[w] = "released" /\ UNCHANGED <<cur, stolen>>
        /\ \A v \in Workers \ {w} : pc'[v] = pc[v]
        /\ pushed' = pushed \ {cur[w]}
        /\ \A t \in Targets \ {cur[w]} : failed'[t] = failed[t]
    BY <1>0, <1>2 DEF failureResult, at, return, goto, release, recordFailure
  <2>2. "fail" \in Holding /\ "released" \notin Holding
    BY DEF Holding
  <2>3. NoLeakedMark' /\ Owned' /\ MutualExclusion'
    BY <2>1, <2>2
  <2>4. CooldownHonoured'
    <3> SUFFICES ASSUME ~stolen, NEW v \in Workers, pc'[v] \in Holding PROVE failed'[cur[v]] = None
      BY <2>1
    <3>1. v # w /\ pc[v] \in Holding
      BY <2>1, <2>2
    <3>2. cur[v] \in Targets
      BY <3>1 DEF TypeInv, CallOK, Holding
    <3> QED BY <2>1, <2>2, <3>1, <3>2
  <2> QED BY <2>3, <2>4
<1>3. CASE finishProcessing(w)
  <2>1. /\ pc[w] \in {"finish", "released"} /\ pc'[w] = "idle" /\ UNCHANGED failed
        /\ \A v \in Workers \ {w} : pc'[v] = pc[v] /\ cur'[v] = cur[v]
        /\ pushed' = pushed \ {cur[w]}
        /\ stolen' = (stolen \/ (pc[w] = "released" /\ cur[w] \in pushed))
    BY <1>0, <1>3 DEF finishProcessing, goto, release
  <2>2. "finish" \in Holding /\ "released" \notin Holding /\ "idle" \notin Holding
    BY DEF Holding
  <2>3. NoLeakedMark'
    BY <2>1, <2>2
  <2>4. CASE stolen'
    BY <2>3, <2>4
  <2>5. CASE ~stolen'
    <3>1. ~stolen /\ (pc[w] = "released" => pushed' = pushed)
      BY <2>1, <2>5
    <3> QED BY <2>1, <2>2, <2>3, <3>1
  <2> QED BY <2>4, <2>5
<1>4. CASE reassignProcessing(w)
  <2> DEFINE old == cur[w]
             new == buildTarget(req[w], ArchRepo[req[w]][digest[w]])
  <2>1. req[w] \in Requests /\ digest[w] \in Digests /\ old \in Targets
    BY <1>4 DEF TypeInv, CallOK, WithDigest, reassignProcessing, at
  <2>2. ArchRepo[req[w]][digest[w]] \in Repos
    BY <2>1, DataAssumption
  <2>3. new \in Targets
    BY <2>1, <2>2, BuildTargetType
  <2> HIDE DEF new
  <2>4. "reassign" \in Holding /\ "headTarget" \in Holding /\ "released" \notin Holding
    BY DEF Holding
  <2>5. pc[w] = "reassign" /\ UNCHANGED stolen
    BY <1>4 DEF reassignProcessing, at
  <2>6. ~stolen => failed[old] = None
    BY <2>4, <2>5
  <2>7. ASSUME failed' = carryOver(old, new), ~stolen
        PROVE  failed'[new] = None /\ \A t \in Targets \ {new} : failed'[t] = failed[t]
    BY <1>0, <2>1, <2>3, <2>6, <2>7 DEF carryOver, expire
  <2>8. CASE /\ pushed' = release(old)
             /\ failed' = failed \/ failed' = carryOver(old, new)
             /\ pc' = [pc EXCEPT ![w] = "released"]
             /\ UNCHANGED cur
    <3>1. pc'[w] = "released" /\ \A v \in Workers \ {w} : pc'[v] = pc[v]
      BY <1>0, <2>8
    <3>2. NoLeakedMark' /\ Owned' /\ MutualExclusion'
      BY <2>4, <2>5, <2>8, <3>1 DEF release
    <3>3. CooldownHonoured'
      <4> SUFFICES ASSUME ~stolen, NEW v \in Workers, pc'[v] \in Holding PROVE failed'[cur[v]] = None
        BY <2>5, <2>8
      <4>1. v # w /\ pc[v] \in Holding /\ failed[cur[v]] = None
        BY <2>4, <3>1
      <4>2. cur[v] \in Targets
        BY <4>1 DEF TypeInv, CallOK, Holding
      <4> QED BY <2>7, <2>8, <4>1, <4>2
    <3> QED BY <3>2, <3>3
  <2>9. CASE /\ new \notin pushed
             /\ pushed' = moveMark(old, new)
             /\ failed' = carryOver(old, new)
             /\ cur' = [cur EXCEPT ![w] = new]
             /\ pc' = [pc EXCEPT ![w] = "headTarget"]
    <3>1. /\ pc'[w] = "headTarget" /\ cur'[w] = new
          /\ \A v \in Workers \ {w} : pc'[v] = pc[v] /\ cur'[v] = cur[v]
      BY <1>0, <2>9
    <3>2. NoLeakedMark'
      BY <2>4, <2>5, <2>9, <3>1 DEF moveMark, release
    <3>3. Owned' /\ MutualExclusion'
      BY <2>4, <2>5, <2>9, <3>1 DEF moveMark, release
    <3>4. CooldownHonoured'
      <4> SUFFICES ASSUME ~stolen, NEW v \in Workers, pc'[v] \in Holding PROVE failed'[cur'[v]] = None
        BY <2>5
      <4>1. CASE v = w
        BY <2>7, <2>9, <3>1, <4>1
      <4>2. CASE v # w
        <5>1. pc[v] \in Holding /\ failed[cur[v]] = None /\ cur'[v] = cur[v]
          BY <3>1, <4>2
        <5>2. cur[v] \in Targets
          BY <5>1 DEF TypeInv, CallOK, Holding
        <5> QED BY <2>7, <2>9, <5>1, <5>2
      <4> QED BY <4>1, <4>2
    <3> QED BY <3>2, <3>3, <3>4
  <2> QED BY <1>4, <2>8, <2>9 DEF reassignProcessing, return, goto, free, new
<1> QED BY <1>1, <1>2, <1>3, <1>4, RequestSteps

LEMMA MarkEnvironment ==
  ASSUME TypeInv, MarkInv, Environment
  PROVE  MarkInv'
<1> USE DEF MarkInv, NoLeakedMark, Owned, MutualExclusion, CooldownHonoured, holds, mem, call
<1>1. CASE ResetCooldown
  BY <1>1 DEF ResetCooldown, TypeInv, CallOK, Holding
<1>2. CASE Tick
  BY <1>2 DEF Tick
<1>3. ASSUME NEW s \in Sources, NEW d \in Digests, Retag(s, d) PROVE MarkInv'
  BY <1>3 DEF Retag
<1>4. CASE Restart
  BY <1>4 DEF Restart, Holding
<1> QED BY <1>1, <1>2, <1>3, <1>4 DEF Environment

LEMMA MarkNext == TypeInv /\ MarkInv /\ [Next]_vars => MarkInv'
<1> SUFFICES ASSUME TypeInv, MarkInv, [Next]_vars PROVE MarkInv'
  OBVIOUS
<1>1. CASE Next
  BY <1>1, MarkCall, MarkStep, MarkEnvironment DEF Next, Call
<1>2. CASE UNCHANGED vars
  BY <1>2 DEF vars, mem, call, MarkInv, NoLeakedMark, Owned, MutualExclusion, CooldownHonoured, holds
<1> QED BY <1>1, <1>2

LEMMA MarksCorrect == Spec => [](TypeInv /\ MarkInv)
BY TypeInit, TypeNext, MarkInit, MarkNext, PTL DEF Spec

(* Every mark in p.pushed belongs to a call that will release it, on all   *)
(* return paths of Mirror and for any number of workers.                   *)
THEOREM MarksNeverLeak == Spec => []NoLeakedMark
<1>1. MarkInv => NoLeakedMark
  BY DEF MarkInv
<1> QED BY MarksCorrect, <1>1, PTL

(* At most one call works on a target, until some deferred                 *)
(* finishProcessing deletes a mark that is not its own.                    *)
THEOREM TargetsAreExclusive == Spec => []MutualExclusion
<1>1. MarkInv => MutualExclusion
  BY DEF MarkInv
<1> QED BY MarksCorrect, <1>1, PTL

(* No call works on a target whose failure is still recorded.              *)
THEOREM CooldownIsHonoured == Spec => []CooldownHonoured
<1>1. MarkInv => CooldownHonoured
  BY DEF MarkInv
<1> QED BY MarksCorrect, <1>1, PTL

-----------------------------------------------------------------------------
(* What a call knows of the target tag while it holds the mark. *)

\* A push that goes ahead finds the tag absent, already at its own digest
\* (a retry of a write that took effect), or allowed to move.
MayWrite(w) == tags[cur[w]] \in {None, digest[w]} \/ mayOverwrite(cur[w])

\* The digest read by the preflight, and the one just pushed, stay true.
Confirmed(w) ==
  \/ pc[w] \in {"preflightSource", "verify"}
  \/ pc[w] = "finish" /\ outcome[w] \in {"present", "pushed"}

TagInv ==
  ~stolen => \A w \in Workers :
    /\ pc[w] \in {"ensure", "push"} => MayWrite(w)
    /\ Confirmed(w) => tags[cur[w]] = digest[w]

LEMMA TagInit == Init => TagInv
BY DEF Init, TagInv, Confirmed

LEMMA TagCall ==
  ASSUME TypeInv, TagInv, NEW w \in Workers, NEW r \in Requests,
         Reject(w, r) \/ beginProcessing(w, r)
  PROVE  TagInv' /\ UNCHANGED tags
<1>0. pc \in [Workers -> Holding \cup {"idle", "released"}] /\ cur \in [Workers -> Targets \cup {None}]
      /\ outcome \in [Workers -> Outcomes]
  BY DEF TypeInv, TypeOK
<1>1. UNCHANGED <<tags, digest, stolen>> /\ pc[w] = "idle" /\ pc'[w] \in {"idle", "auth"}
  BY <1>0 DEF Reject, beginProcessing, returnEarly, goto, at, registry
<1>2. \A v \in Workers \ {w} : pc'[v] = pc[v] /\ cur'[v] = cur[v] /\ outcome'[v] = outcome[v]
  BY <1>0 DEF Reject, beginProcessing, returnEarly, goto
<1> QED BY <1>1, <1>2 DEF TagInv, MayWrite, mayOverwrite, Confirmed

LEMMA TagStep ==
  ASSUME TypeInv, MarkInv, TagInv, NEW w \in Workers, Step(w)
  PROVE  TagInv' /\ (~stolen /\ ~AllowRepush => keepsTags)
<1> USE DEF TagInv, MayWrite, mayOverwrite, Confirmed, at, goto, return, fail, registry, keepsTags
<1>0. /\ pc \in [Workers -> Holding \cup {"idle", "released"}] /\ cur \in [Workers -> Targets \cup {None}]
      /\ outcome \in [Workers -> Outcomes] /\ digest \in [Workers -> Digests \cup {None}]
      /\ tags \in [Targets -> Digests \cup {None}]
  BY DEF TypeInv, TypeOK
<1>1. CASE BasicAuth(w)
  BY <1>0, <1>1 DEF BasicAuth
<1>2. CASE HeadDigest(w)
  BY <1>0, <1>2 DEF HeadDigest
<1>3. CASE PreflightTarget(w)
  BY <1>0, <1>3 DEF PreflightTarget
<1>4. CASE PreflightSource(w)
  <2>1. /\ UNCHANGED <<tags, cur, digest, stolen>> /\ pc[w] = "preflightSource" /\ pc'[w] \in {"finish", "describe"}
        /\ \A v \in Workers \ {w} : pc'[v] = pc[v] /\ outcome'[v] = outcome[v]
    BY <1>0, <1>4 DEF PreflightSource
  <2>2. ~stolen => tags'[cur'[w]] = digest'[w] /\ pc'[w] \notin {"ensure", "push"}
    BY <2>1
  <2>3. \A v \in Workers \ {w} : (Confirmed(v)' <=> Confirmed(v)) /\ (MayWrite(v)' <=> MayWrite(v))
    BY <2>1
  <2>4. TagInv'
    BY <2>1, <2>2, <2>3
  <2> QED BY <2>1, <2>4
<1>5. CASE Describe(w)
  BY <1>0, <1>5 DEF Describe
<1>6. CASE Pull(w)
  BY <1>0, <1>6 DEF Pull
<1>7. CASE reassignProcessing(w)
  <2>1. /\ UNCHANGED <<tags, digest, stolen>> /\ pc'[w] \in {"released", "headTarget"}
        /\ \A v \in Workers \ {w} : pc'[v] = pc[v] /\ cur'[v] = cur[v] /\ outcome'[v] = outcome[v]
    BY <1>0, <1>7 DEF reassignProcessing
  <2> QED BY <2>1
<1>8. CASE HeadTarget(w)
  BY <1>0, <1>8 DEF HeadTarget
<1>9. CASE EnsureRepository(w)
  BY <1>0, <1>9 DEF EnsureRepository
<1>10. CASE PushSucceeds(w)
  <2>1. /\ UNCHANGED <<cur, digest, stolen, outcome>> /\ pc[w] = "push" /\ pc'[w] = "verify"
        /\ \A v \in Workers \ {w} : pc'[v] = pc[v]
        /\ tags' = [tags EXCEPT ![cur[w]] = digest[w]]
    BY <1>0, <1>10 DEF PushSucceeds, written
  <2>2. cur[w] \in Targets
    BY <2>1 DEF TypeInv, CallOK
  <2>3. ~stolen => \A v \in Workers \ {w} : pc[v] \in Holding => cur[v] # cur[w]
    BY <2>1 DEF MarkInv, MutualExclusion, Holding
  <2>4. \A v \in Workers : Confirmed(v) \/ pc[v] \in {"ensure", "push"} => pc[v] \in Holding /\ cur[v] \in Targets
    BY DEF Holding, TypeInv, CallOK
  <2>5. TagInv'
    BY <1>0, <2>1, <2>2, <2>3, <2>4
  <2>6. ~stolen /\ ~AllowRepush => keepsTags
    BY <1>0, <2>1, <2>2
  <2> QED BY <2>5, <2>6
<1>11. CASE PushFails(w)
  <2>1. /\ UNCHANGED <<cur, stolen, outcome>> /\ pc[w] = "push" /\ pc'[w] \in {"push", "fail"}
        /\ \A v \in Workers \ {w} : pc'[v] = pc[v] /\ digest'[v] = digest[v]
        /\ pc'[w] = "push" => digest'[w] = digest[w]
        /\ tags' = tags \/ tags' = [tags EXCEPT ![cur[w]] = digest[w]]
    BY <1>0, <1>11 DEF PushFails, written
  <2>2. cur[w] \in Targets
    BY <2>1 DEF TypeInv, CallOK
  <2>3. ~stolen => \A v \in Workers \ {w} : pc[v] \in Holding => cur[v] # cur[w]
    BY <2>1 DEF MarkInv, MutualExclusion, Holding
  <2>4. \A v \in Workers : Confirmed(v) \/ pc[v] \in {"ensure", "push"} => pc[v] \in Holding /\ cur[v] \in Targets
    BY DEF Holding, TypeInv, CallOK
  <2>5. TagInv'
    BY <1>0, <2>1, <2>2, <2>3, <2>4
  <2>6. ~stolen /\ ~AllowRepush => keepsTags
    BY <1>0, <2>1, <2>2
  <2> QED BY <2>5, <2>6
<1>12. CASE Verify(w)
  <2>1. /\ UNCHANGED <<tags, cur, digest, stolen>> /\ pc[w] = "verify" /\ pc'[w] = "finish"
        /\ \A v \in Workers \ {w} : pc'[v] = pc[v] /\ outcome'[v] = outcome[v]
    BY <1>0, <1>12 DEF Verify
  <2>2. ~stolen => tags'[cur'[w]] = digest'[w] /\ pc'[w] \notin {"ensure", "push"}
    BY <2>1
  <2>3. \A v \in Workers \ {w} : (Confirmed(v)' <=> Confirmed(v)) /\ (MayWrite(v)' <=> MayWrite(v))
    BY <2>1
  <2>4. TagInv'
    BY <2>1, <2>2, <2>3
  <2> QED BY <2>1, <2>4
<1>13. CASE failureResult(w)
  BY <1>0, <1>13 DEF failureResult
<1>14. CASE finishProcessing(w)
  <2>1. /\ UNCHANGED <<tags, outcome>> /\ pc'[w] = "idle" /\ (stolen => stolen')
        /\ \A v \in Workers \ {w} : pc'[v] = pc[v] /\ cur'[v] = cur[v] /\ digest'[v] = digest[v]
    BY <1>0, <1>14 DEF finishProcessing
  <2> QED BY <2>1
<1> QED BY <1>1, <1>2, <1>3, <1>4, <1>5, <1>6, <1>7, <1>8, <1>9, <1>10, <1>11, <1>12, <1>13, <1>14
      DEF Step

LEMMA TagEnvironment ==
  ASSUME TypeInv, TagInv, Environment
  PROVE  TagInv' /\ UNCHANGED tags
<1> USE DEF TagInv, MayWrite, mayOverwrite, Confirmed, registry, call
<1>1. CASE ResetCooldown
  BY <1>1 DEF ResetCooldown
<1>2. CASE Tick
  BY <1>2 DEF Tick
<1>3. ASSUME NEW s \in Sources, NEW d \in Digests, Retag(s, d) PROVE TagInv' /\ UNCHANGED tags
  BY <1>3 DEF Retag
<1>4. CASE Restart
  BY <1>4 DEF Restart
<1> QED BY <1>1, <1>2, <1>3, <1>4 DEF Environment

LEMMA TagNext ==
  TypeInv /\ MarkInv /\ TagInv /\ [Next]_vars => TagInv' /\ (~stolen /\ ~AllowRepush => keepsTags)
<1> SUFFICES ASSUME TypeInv, MarkInv, TagInv, [Next]_vars
             PROVE  TagInv' /\ (~stolen /\ ~AllowRepush => keepsTags)
  OBVIOUS
<1>1. ASSUME UNCHANGED tags PROVE keepsTags
  BY <1>1 DEF keepsTags
<1>2. ASSUME NEW w \in Workers, Call(w) PROVE TagInv' /\ keepsTags
  BY <1>1, <1>2, TagCall DEF Call
<1>3. ASSUME NEW w \in Workers, Step(w) PROVE TagInv' /\ (~stolen /\ ~AllowRepush => keepsTags)
  BY <1>3, TagStep
<1>4. CASE Environment
  BY <1>1, <1>4, TagEnvironment
<1>5. CASE UNCHANGED vars
  BY <1>1, <1>5 DEF vars, registry, call, TagInv, MayWrite, mayOverwrite, Confirmed
<1> QED BY <1>2, <1>3, <1>4, <1>5 DEF Next

LEMMA TagsCorrect == Spec => [](TypeInv /\ MarkInv /\ TagInv)
BY TypeInit, TypeNext, MarkInit, MarkNext, TagInit, TagNext, PTL DEF Spec

(* "Already present" and "pushed" are still true of the target registry    *)
(* when the call returns, as long as no mark was deleted by another call.  *)
THEOREM ResultsStayTrue == Spec => []ResultStillTrue
<1>1. TagInv => ResultStillTrue
  BY DEF TagInv, Confirmed, ResultStillTrue
<1> QED BY TagsCorrect, <1>1, PTL

(* Without allowDifferentDigestRepush no tag but latest moves from one     *)
(* digest to another, as long as no mark was deleted by another call: the  *)
(* HEAD and the push are not atomic, the mark makes them so.               *)
THEOREM TagsAreNotOverwritten == Spec => NoOverwrite
<1>1. TypeInv /\ MarkInv /\ TagInv /\ [Next]_vars => [~stolen /\ ~AllowRepush => keepsTags]_vars
  BY TagNext
<1> QED BY TagsCorrect, <1>1, PTL DEF Spec, NoOverwrite

-----------------------------------------------------------------------------
(* When the proviso can be dropped. *)

\* No $arch in the prefix: the target of a call never changes.
FixedTargets == \A r \in Requests, d \in Digests : ArchRepo[r][d] = r.repo

\* A call that has failed is protected by the entry it has just recorded.
CalmInv ==
  /\ ~stolen
  /\ \A w \in Workers : pc[w] # "reassign"
  /\ \A w \in Workers : pc[w] = "released" => failed[cur[w]] = now /\ cur[w] \notin pushed

LEMMA CalmCall ==
  ASSUME Cooldown > 0, TypeInv, CalmInv, NEW w \in Workers, NEW r \in Requests,
         Reject(w, r) \/ beginProcessing(w, r)
  PROVE  CalmInv'
<1> USE DEF CalmInv
<1> DEFINE t == buildTarget(r, r.repo)
<1>0. /\ pc \in [Workers -> Holding \cup {"idle", "released"}] /\ cur \in [Workers -> Targets \cup {None}]
      /\ failed \in [Targets -> Nat \cup {None}] /\ now \in Nat
  BY ConfigAssumption DEF TypeInv, TypeOK
<1>1. t \in Targets
  BY BuildTargetType, DataAssumption
<1> HIDE DEF t
<1>2. CASE UNCHANGED <<pushed, failed, now, pc, cur, stolen>>
  BY <1>2
<1>3. CASE /\ ~inCooldown(t) /\ failed' = expire(t) /\ UNCHANGED <<now, stolen>>
           /\ \/ UNCHANGED <<pushed, pc, cur>>
              \/ /\ pushed' = pushed \cup {t}
                 /\ pc' = [pc EXCEPT ![w] = "auth"]
                 /\ cur' = [cur EXCEPT ![w] = t]
  <2>1. ASSUME NEW v \in Workers, pc[v] = "released" PROVE cur[v] # t /\ cur[v] \in Targets
    <3>1. cur[v] \in Targets
      BY <2>1 DEF TypeInv, CallOK
    <3>2. failed[cur[v]] = now /\ now # None /\ now < now + Cooldown
      BY <1>0, <2>1, ConfigAssumption, NoneAssumption
    <3> QED BY <1>3, <3>1, <3>2 DEF inCooldown
  <2> QED BY <1>0, <1>1, <1>3, <2>1 DEF expire
<1> QED BY <1>2, <1>3 DEF Reject, beginProcessing, returnEarly, free, at, goto, mem, t

LEMMA CalmStep ==
  ASSUME Cooldown > 0, FixedTargets, TypeInv, MarkInv, CalmInv, NEW w \in Workers, Step(w)
  PROVE  CalmInv'
<1> USE DEF CalmInv
<1>0. /\ pc \in [Workers -> Holding \cup {"idle", "released"}] /\ cur \in [Workers -> Targets \cup {None}]
      /\ failed \in [Targets -> Nat \cup {None}]
  BY DEF TypeInv, TypeOK
<1>1. UNCHANGED now
  BY DEF Step, BasicAuth, HeadDigest, PreflightTarget, PreflightSource, Describe, Pull, reassignProcessing,
         HeadTarget, EnsureRepository, PushSucceeds, PushFails, Verify, failureResult, finishProcessing
<1>2. pc'[w] # "reassign"
  <2>1. ASSUME Pull(w), pc'[w] = "reassign" PROVE FALSE
    <3>1. req[w] \in Requests /\ digest[w] \in Digests
      BY <2>1 DEF Pull, at, TypeInv, CallOK, WithDigest
    <3>2. Selected[req[w]][digest[w]] \in Digests
      BY <3>1, DataAssumption
    <3> QED BY <1>0, <2>1, <3>1, <3>2 DEF Pull, at, goto, fail, FixedTargets
  <2> QED BY <1>0, <2>1 DEF Step, BasicAuth, HeadDigest, PreflightTarget, PreflightSource, Describe,
         reassignProcessing, HeadTarget, EnsureRepository, PushSucceeds, PushFails, Verify, failureResult,
         finishProcessing, at, goto, return, fail
<1>3. CASE Request(w)
  BY <1>1, <1>2, <1>3 DEF Request, Holding
<1>4. CASE failureResult(w)
  <2>1. /\ pc[w] = "fail" /\ UNCHANGED <<cur, stolen>>
        /\ \A v \in Workers \ {w} : pc'[v] = pc[v]
        /\ pushed' = pushed \ {cur[w]} /\ failed' = [failed EXCEPT ![cur[w]] = now]
    BY <1>0, <1>4 DEF failureResult, at, return, goto, release, recordFailure
  <2>2. cur[w] \in Targets
    BY <2>1 DEF TypeInv, CallOK
  <2> QED BY <1>0, <1>1, <1>2, <2>1, <2>2
<1>5. CASE finishProcessing(w)
  BY <1>0, <1>1, <1>2, <1>5 DEF finishProcessing, goto, release
<1>6. CASE reassignProcessing(w)
  BY <1>6 DEF reassignProcessing, at
<1> QED BY <1>3, <1>4, <1>5, <1>6, RequestSteps

LEMMA CalmPreserved ==
  ASSUME Cooldown > 0, FixedTargets, TypeInv, MarkInv, CalmInv, [CalmNext]_vars
  PROVE  CalmInv'
<1>1. ASSUME NEW w \in Workers, Call(w) \/ Step(w) PROVE CalmInv'
  BY <1>1, CalmCall, CalmStep DEF Call
<1>2. CASE CalmEnvironment
  BY <1>2 DEF CalmEnvironment, Tick, Retag, Restart, CalmInv, mem, call
<1>3. CASE UNCHANGED vars
  BY <1>3 DEF vars, mem, call, CalmInv
<1> QED BY <1>1, <1>2, <1>3 DEF CalmNext

(* With a cooldown, without $arch and without /reset-cooldown, no deferred *)
(* release ever hits another call's mark.                                  *)
THEOREM CalmNeverStolen ==
  ASSUME Cooldown > 0, FixedTargets
  PROVE  CalmSpec => []NeverStolen
<1>1. Init => CalmInv
  BY DEF Init, CalmInv
<1>2. [CalmNext]_vars => [Next]_vars
  BY DEF CalmNext, CalmEnvironment, Next, Environment
<1>3. TypeInv /\ MarkInv /\ CalmInv /\ [CalmNext]_vars => CalmInv'
  BY CalmPreserved
<1>4. CalmInv => NeverStolen
  BY DEF CalmInv, NeverStolen
<1> QED BY <1>1, <1>2, <1>3, <1>4, TypeInit, TypeNext, MarkInit, MarkNext, PTL DEF CalmSpec

(* The calm program never moves a tag other than latest when it may not,   *)
(* without any proviso.                                                    *)
THEOREM CalmKeepsTags ==
  ASSUME Cooldown > 0, FixedTargets
  PROVE  CalmSpec => TagsAreKept
<1>1. [CalmNext]_vars => [Next]_vars
  BY DEF CalmNext, CalmEnvironment, Next, Environment
<1>2. TypeInv /\ MarkInv /\ TagInv /\ NeverStolen /\ [Next]_vars => [~AllowRepush => keepsTags]_vars
  BY TagNext DEF NeverStolen
<1> QED BY <1>1, <1>2, CalmNeverStolen, TypeInit, TypeNext, MarkInit, MarkNext, TagInit, TagNext, PTL
      DEF CalmSpec, TagsAreKept

-----------------------------------------------------------------------------
(* The dry modes. *)

\* The labels a call cannot be at in the dry modes.
DryInv ==
  /\ DryRun => \A w \in Workers : pc[w] # "push"
  /\ DryPull => \A w \in Workers : pc[w] \notin {"pull", "reassign", "headTarget", "ensure", "push"}

LEMMA DryStep ==
  ASSUME TypeInv, DryInv, NEW w \in Workers, Step(w)
  PROVE  DryInv' /\ (DryRun \/ DryPull => UNCHANGED registry)
<1>0. pc \in [Workers -> Holding \cup {"idle", "released"}]
  BY DEF TypeInv, TypeOK
<1>1. CASE BasicAuth(w) \/ HeadDigest(w) \/ PreflightTarget(w) \/ PreflightSource(w) \/ Describe(w)
  BY <1>0, <1>1 DEF BasicAuth, HeadDigest, PreflightTarget, PreflightSource, Describe, at, goto, return,
                    fail, DryInv
<1>2. CASE Pull(w) \/ reassignProcessing(w) \/ HeadTarget(w) \/ EnsureRepository(w)
  BY <1>0, <1>2 DEF Pull, reassignProcessing, HeadTarget, EnsureRepository, at, goto, return, fail, DryInv
<1>3. CASE PushSucceeds(w) \/ PushFails(w)
  <2>1. ~DryRun /\ ~DryPull
    BY <1>3 DEF PushSucceeds, PushFails, at, DryInv
  <2> QED BY <2>1 DEF DryInv
<1>4. CASE Verify(w) \/ failureResult(w) \/ finishProcessing(w)
  BY <1>0, <1>4 DEF Verify, failureResult, finishProcessing, at, goto, return, DryInv
<1> QED BY <1>1, <1>2, <1>3, <1>4 DEF Step

(* In dry-run and in dry-pull mode no path of Mirror uploads a manifest or *)
(* moves a tag of the target registry.                                     *)
THEOREM DryModesNeverPush == Spec => DryWritesNothing
<1>1. Init => DryInv
  BY DEF Init, DryInv
<1>2. TypeInv /\ DryInv /\ [Next]_vars => DryInv' /\ [DryRun \/ DryPull => UNCHANGED registry]_vars
  <2> SUFFICES ASSUME TypeInv, DryInv, [Next]_vars
               PROVE  DryInv' /\ (DryRun \/ DryPull => UNCHANGED registry)
    OBVIOUS
  <2>1. ASSUME NEW w \in Workers, Call(w) PROVE DryInv' /\ UNCHANGED registry
    <3>0. pc \in [Workers -> Holding \cup {"idle", "released"}]
      BY DEF TypeInv, TypeOK
    <3> QED BY <2>1, <3>0 DEF Call, Reject, beginProcessing, returnEarly, goto, DryInv
  <2>2. ASSUME NEW w \in Workers, Step(w) PROVE DryInv' /\ (DryRun \/ DryPull => UNCHANGED registry)
    BY <2>2, DryStep
  <2>3. CASE Environment
    BY <2>3 DEF Environment, ResetCooldown, Tick, Retag, Restart, call, DryInv
  <2>4. CASE UNCHANGED vars
    BY <2>4 DEF vars, call, DryInv
  <2> QED BY <2>1, <2>2, <2>3, <2>4 DEF Next
<1> QED BY <1>1, <1>2, TypeInit, TypeNext, PTL DEF Spec, DryWritesNothing

-----------------------------------------------------------------------------
(* The calm program in tag mode implements MirrorService. *)

TagMode == ~PullByDigest /\ ~DryRun /\ ~DryPull

\* In tag mode a call that returns nil has confirmed its tag.
ReturnInv ==
  \A w \in Workers :
    /\ pc[w] # "headDigest"
    /\ pc[w] = "finish" => outcome[w] \in {"present", "pushed"} /\ digest[w] \in Digests

LEMMA ReturnCall ==
  ASSUME TypeInv, ReturnInv, NEW w \in Workers, Call(w)
  PROVE  ReturnInv'
<1>0. pc \in [Workers -> Holding \cup {"idle", "released"}] /\ outcome \in [Workers -> Outcomes]
  BY DEF TypeInv, TypeOK
<1>1. /\ UNCHANGED digest /\ pc'[w] \in {"idle", "auth"}
      /\ \A v \in Workers \ {w} : pc'[v] = pc[v] /\ outcome'[v] = outcome[v]
  BY <1>0 DEF Call, Reject, beginProcessing, returnEarly, goto, at
<1> QED BY <1>1 DEF ReturnInv

LEMMA ReturnStep ==
  ASSUME TagMode, TypeInv, ReturnInv, NEW w \in Workers, Step(w)
  PROVE  ReturnInv'
<1> USE DEF at, goto, return, fail
<1>0. /\ pc \in [Workers -> Holding \cup {"idle", "released"}] /\ outcome \in [Workers -> Outcomes]
      /\ digest \in [Workers -> Digests \cup {None}]
      /\ pc[w] \in WithDigest => digest[w] \in Digests
  BY DEF TypeInv, TypeOK, CallOK
<1>1. \A v \in Workers \ {w} : pc'[v] = pc[v] /\ outcome'[v] = outcome[v] /\ digest'[v] = digest[v]
  BY <1>0 DEF Step, BasicAuth, HeadDigest, PreflightTarget, PreflightSource, Describe, Pull, reassignProcessing,
         HeadTarget, EnsureRepository, PushSucceeds, PushFails, Verify, failureResult, finishProcessing
<1>2. pc'[w] # "headDigest"
  BY <1>0 DEF Step, BasicAuth, HeadDigest, PreflightTarget, PreflightSource, Describe, Pull, reassignProcessing,
         HeadTarget, EnsureRepository, PushSucceeds, PushFails, Verify, failureResult, finishProcessing,
         havePodDigest, usePodDigest, TagMode, ReturnInv
<1>3. ASSUME pc'[w] = "finish" PROVE outcome'[w] \in {"present", "pushed"} /\ digest'[w] \in Digests
  <2>1. CASE PreflightSource(w) \/ HeadTarget(w) \/ Verify(w)
    BY <1>0, <1>3, <2>1 DEF PreflightSource, HeadTarget, Verify, WithDigest
  <2>2. CASE ~(PreflightSource(w) \/ HeadTarget(w) \/ Verify(w))
    BY <1>0, <1>3, <2>2 DEF Step, BasicAuth, HeadDigest, PreflightTarget, Describe, Pull, reassignProcessing,
         EnsureRepository, PushSucceeds, PushFails, failureResult, finishProcessing, TagMode, ReturnInv
  <2> QED BY <2>1, <2>2
<1> QED BY <1>1, <1>2, <1>3 DEF ReturnInv

LEMMA ReturnPreserved ==
  ASSUME TagMode, TypeInv, ReturnInv, [CalmNext]_vars
  PROVE  ReturnInv'
<1>1. CASE CalmEnvironment
  BY <1>1 DEF CalmEnvironment, Tick, Retag, Restart, call, ReturnInv
<1>2. CASE UNCHANGED vars
  BY <1>2 DEF vars, call, ReturnInv
<1> QED BY <1>1, <1>2, ReturnCall, ReturnStep DEF CalmNext

\* The refinement mapping, by name.
Working == [w \in Workers |-> IF pc[w] \in Holding THEN cur[w] ELSE None]
Cooling == {t \in Targets : inCooldown(t)}
Mirrored == {t \in Targets : tags[t] # None}

(* A call is refused, skipped (nothing a caller sees has changed), or it   *)
(* begins, alone on its target.                                            *)
LEMMA ServiceCall ==
  ASSUME Cooldown > 0, TypeInv, MarkInv, CalmInv, NEW w \in Workers, Call(w)
  PROVE  Service!Next \/ UNCHANGED Service!vars
<1>0. /\ pc \in [Workers -> Holding \cup {"idle", "released"}] /\ cur \in [Workers -> Targets \cup {None}]
      /\ failed \in [Targets -> Nat \cup {None}]
  BY DEF TypeInv, TypeOK
<1>1. PICK r \in Requests : Reject(w, r) \/ beginProcessing(w, r)
  BY DEF Call
<1> DEFINE t == buildTarget(r, r.repo)
<1>2. t \in Targets /\ t # None
  BY BuildTargetType, DataAssumption, NoneAssumption
<1> HIDE DEF t
<1>3. pc[w] = "idle" /\ "idle" \notin Holding /\ "auth" \in Holding /\ UNCHANGED <<tags, now>>
  BY <1>1 DEF Reject, beginProcessing, at, registry, Holding
<1>4. ASSUME ~inCooldown(t), failed' = expire(t) PROVE UNCHANGED Cooling
  BY <1>0, <1>2, <1>3, <1>4 DEF Cooling, inCooldown, expire
<1>5. CASE UNCHANGED <<failed, pc, cur>>
  BY <1>3, <1>5 DEF Service!vars, inCooldown
<1>6. CASE ~inCooldown(t) /\ failed' = expire(t) /\ UNCHANGED <<pc, cur>>
  BY <1>3, <1>4, <1>6 DEF Service!vars, Cooling
<1>7. CASE /\ ~inCooldown(t) /\ failed' = expire(t) /\ t \notin pushed
           /\ pc' = [pc EXCEPT ![w] = "auth"]
           /\ cur' = [cur EXCEPT ![w] = t]
  <2>1. Working[w] = None /\ t \notin Cooling
    BY <1>3, <1>7 DEF Working, Cooling
  <2>2. \A v \in Workers : Working[v] # t
    BY <1>2, <1>7 DEF Working, MarkInv, Owned, CalmInv
  <2>3. Working' = [Working EXCEPT ![w] = t]
    BY <1>0, <1>3, <1>7 DEF Working
  <2>4. Service!Begin(w, t)
    BY <1>3, <1>4, <1>7, <2>1, <2>2, <2>3 DEF Service!Begin, Working, Cooling
  <2> QED BY <1>2, <2>4 DEF Service!Next
<1> QED BY <1>1, <1>5, <1>6, <1>7 DEF Reject, beginProcessing, returnEarly, free, at, goto, mem, t

(* A registry request is invisible to the caller, unless it writes.        *)
LEMMA ServiceRequest ==
  ASSUME TypeInv, NEW w \in Workers, Step(w), Request(w), UNCHANGED now
  PROVE  Service!Next \/ UNCHANGED Service!vars
<1>0. /\ pc \in [Workers -> Holding \cup {"idle", "released"}] /\ tags \in [Targets -> Digests \cup {None}]
  BY DEF TypeInv, TypeOK
<1>1. UNCHANGED Working /\ UNCHANGED Cooling
  BY <1>0 DEF Request, Working, Cooling, inCooldown
<1>2. CASE UNCHANGED tags
  BY <1>1, <1>2 DEF Service!vars, Working, Cooling
<1>3. CASE pc[w] = "push" /\ tags' = [tags EXCEPT ![cur[w]] = digest[w]]
  <2>1. cur[w] \in Targets /\ cur[w] # None /\ digest[w] \in Digests /\ digest[w] # None
    BY <1>3, NoneAssumption DEF TypeInv, CallOK, WithDigest
  <2>2. Working[w] = cur[w]
    BY <1>3 DEF Working, Holding
  <2>3. Mirrored' = Mirrored \cup {cur[w]}
    BY <1>0, <1>3, <2>1 DEF Mirrored
  <2>4. Service!Write(w)
    BY <1>1, <2>1, <2>2, <2>3 DEF Service!Write, Working, Cooling, Mirrored
  <2> QED BY <2>4 DEF Service!Next
<1>4. UNCHANGED tags \/ (pc[w] = "push" /\ tags' = [tags EXCEPT ![cur[w]] = digest[w]])
  BY DEF Step, BasicAuth, HeadDigest, PreflightTarget, PreflightSource, Describe, Pull, reassignProcessing,
         HeadTarget, EnsureRepository, PushSucceeds, PushFails, Verify, failureResult, finishProcessing,
         registry, written, at
<1> QED BY <1>2, <1>3, <1>4

(* A call ends with its tag at the target or with its target in cooldown.  *)
LEMMA ServiceEnd ==
  ASSUME Cooldown > 0, TypeInv, MarkInv, TagInv, CalmInv, ReturnInv, NEW w \in Workers,
         failureResult(w) \/ finishProcessing(w)
  PROVE  Service!Next \/ UNCHANGED Service!vars
<1>0. /\ pc \in [Workers -> Holding \cup {"idle", "released"}] /\ cur \in [Workers -> Targets \cup {None}]
      /\ failed \in [Targets -> Nat \cup {None}] /\ now \in Nat
  BY ConfigAssumption DEF TypeInv, TypeOK
<1>1. cur[w] \in Targets /\ cur[w] # None
  BY NoneAssumption DEF failureResult, finishProcessing, at, TypeInv, CallOK
<1>2. /\ UNCHANGED <<tags, now>>
      /\ pc'[w] \notin Holding
      /\ \A v \in Workers \ {w} : pc'[v] = pc[v] /\ cur'[v] = cur[v]
  BY <1>0 DEF failureResult, finishProcessing, return, goto, registry, Holding
<1>3. Working' = [Working EXCEPT ![w] = None]
  BY <1>2 DEF Working
<1>4. CASE failureResult(w)
  <2>1. Working[w] = cur[w]
    BY <1>4 DEF failureResult, at, Working, Holding
  <2>2. failed' = [failed EXCEPT ![cur[w]] = now] /\ now # None /\ now < now + Cooldown
    BY <1>0, <1>4, ConfigAssumption, NoneAssumption DEF failureResult, recordFailure
  <2>3. Cooling' = Cooling \cup {cur[w]}
    BY <1>0, <1>1, <1>2, <2>2 DEF Cooling, inCooldown
  <2>4. Service!Fail(w)
    BY <1>1, <1>2, <1>3, <2>1, <2>3 DEF Service!Fail, Service!ended, Working, Cooling
  <2> QED BY <2>4 DEF Service!Next
<1>5. CASE finishProcessing(w)
  <2>1. UNCHANGED Cooling
    BY <1>2, <1>5 DEF finishProcessing, Cooling, inCooldown
  <2>2. CASE pc[w] = "released"
    <3>1. UNCHANGED Working
      BY <1>2, <2>2 DEF Working, Holding
    <3> QED BY <1>2, <2>1, <3>1 DEF Service!vars, Working, Cooling
  <2>3. CASE pc[w] = "finish"
    <3>1. Working[w] = cur[w]
      BY <2>3 DEF Working, Holding
    <3>2. tags[cur[w]] = digest[w] /\ digest[w] \in Digests
      BY <2>3 DEF ReturnInv, TagInv, Confirmed, CalmInv
    <3>3. Mirrored' = Mirrored \cup {cur[w]}
      BY <1>1, <1>2, <3>2, NoneAssumption DEF Mirrored
    <3>4. Service!Succeed(w)
      BY <1>1, <1>3, <2>1, <3>1, <3>3 DEF Service!Succeed, Service!ended, Working, Cooling, Mirrored
    <3> QED BY <3>4 DEF Service!Next
  <2> QED BY <1>5, <2>2, <2>3 DEF finishProcessing
<1> QED BY <1>4, <1>5

LEMMA ServiceEnvironment ==
  ASSUME TypeInv, CalmEnvironment
  PROVE  Service!Next \/ UNCHANGED Service!vars
<1>0. failed \in [Targets -> Nat \cup {None}] /\ now \in Nat
  BY ConfigAssumption DEF TypeInv, TypeOK
<1>1. CASE Tick
  <2>1. Cooling' \subseteq Cooling
    <3> SUFFICES ASSUME NEW t \in Targets, inCooldown(t)' PROVE inCooldown(t)
      BY DEF Cooling
    <3>1. UNCHANGED failed /\ now' = now + 1
      BY <1>1 DEF Tick, mem
    <3>2. failed[t] \in Nat
      BY <1>0, <3>1 DEF inCooldown
    <3> QED BY <1>0, <3>1, <3>2, ConfigAssumption DEF inCooldown
  <2>2. UNCHANGED <<pc, cur, tags>>
    BY <1>1 DEF Tick, call, registry
  <2>3. Service!Expire
    BY <2>1, <2>2 DEF Service!Expire, Cooling
  <2> QED BY <2>3 DEF Service!Next
<1>2. ASSUME NEW s \in Sources, NEW d \in Digests, Retag(s, d) PROVE UNCHANGED Service!vars
  BY <1>2 DEF Retag, mem, call, registry, Service!vars, inCooldown
<1>3. CASE Restart
  <2>1. Service!Forget
    BY <1>3 DEF Restart, registry, Service!Forget, inCooldown, Holding
  <2> QED BY <2>1 DEF Service!Next
<1> QED BY <1>1, <1>2, <1>3 DEF CalmEnvironment

LEMMA ServiceSimulates ==
  ASSUME Cooldown > 0, TypeInv, MarkInv, TagInv, CalmInv, ReturnInv, [CalmNext]_vars
  PROVE  Service!Next \/ UNCHANGED Service!vars
<1>1. ASSUME NEW w \in Workers, Step(w) PROVE Service!Next \/ UNCHANGED Service!vars
  <2>1. UNCHANGED now
    BY <1>1 DEF Step, BasicAuth, HeadDigest, PreflightTarget, PreflightSource, Describe, Pull,
         reassignProcessing, HeadTarget, EnsureRepository, PushSucceeds, PushFails, Verify, failureResult,
         finishProcessing
  <2>2. ~reassignProcessing(w)
    BY DEF reassignProcessing, at, CalmInv
  <2> QED BY <1>1, <2>1, <2>2, RequestSteps, ServiceRequest, ServiceEnd
<1>2. CASE UNCHANGED vars
  BY <1>2 DEF vars, mem, call, registry, Service!vars, inCooldown
<1> QED BY <1>1, <1>2, ServiceCall, ServiceEnvironment DEF CalmNext

(* With a cooldown, no $arch in the prefix, nobody resetting the cooldown  *)
(* and outside digest and dry modes, every step of the pusher is a step of *)
(* MirrorService or invisible to the callers, for any number of workers,   *)
(* requests and targets.                                                   *)
THEOREM CalmImplementsService ==
  ASSUME Cooldown > 0, FixedTargets, TagMode
  PROVE  CalmSpec => ImplementsService
<1>1. Init => CalmInv /\ ReturnInv
  BY DEF Init, CalmInv, ReturnInv
<1>2. Init => Service!Init
  BY DEF Init, Service!Init, inCooldown, Holding
<1>3. [CalmNext]_vars => [Next]_vars
  BY DEF CalmNext, CalmEnvironment, Next, Environment
<1>4. TypeInv /\ MarkInv /\ CalmInv /\ [CalmNext]_vars => CalmInv'
  BY CalmPreserved
<1>5. TypeInv /\ ReturnInv /\ [CalmNext]_vars => ReturnInv'
  BY ReturnPreserved
<1>6. TypeInv /\ MarkInv /\ TagInv /\ CalmInv /\ ReturnInv /\ [CalmNext]_vars
        => [Service!Next]_(Service!vars)
  BY ServiceSimulates
<1> QED BY <1>1, <1>2, <1>3, <1>4, <1>5, <1>6, TypeInit, TypeNext, MarkInit, MarkNext, TagInit, TagNext, PTL
      DEF CalmSpec, ImplementsService, Service!Spec
=============================================================================
