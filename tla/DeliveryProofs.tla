--------------------------- MODULE DeliveryProofs ---------------------------
(***************************************************************************)
(* Proofs about EcrTarget, for any number of calls and repositories, and   *)
(* about Delivery, for any number of tags and parts as well, any timeout,  *)
(* number of attempts and backoff.                                         *)
(***************************************************************************)
EXTENDS Delivery, TLAPS

-----------------------------------------------------------------------------
(* EnsureRepository, as in EcrTarget. *)

\* A call about to put the policy has created its repository.
PutOwns == \A c \in Callers : pc[c] = "put" => repo[c] \in created

\* A call under way has a repository.
HasRepo == \A c \in Callers : pc[c] # "idle" => repo[c] \in Repos

IInv == TypeOK /\ HasRepo /\ PutOwns /\ PolicyOnOwnOnly /\ PolicyUnlessInterrupted

LEMMA StepKeepsIInv ==
  ASSUME IInv, NEW c \in Callers, Step(c)
  PROVE  IInv'
<1> USE DEF IInv, TypeOK, HasRepo, PutOwns, PolicyOnOwnOnly, goto, return, ecr
<1>1. CASE DescribeRepositories(c)
  <2>1. TypeOK' /\ HasRepo' /\ PutOwns' /\ PolicyOnOwnOnly'
    BY <1>1 DEF DescribeRepositories
  <2>2. PolicyUnlessInterrupted'
    BY <1>1 DEF DescribeRepositories, PolicyUnlessInterrupted
  <2> QED BY <2>1, <2>2
<1>2. CASE CreateRepository(c)
  <2>1. TypeOK' /\ HasRepo'
    BY <1>2 DEF CreateRepository
  <2>2. PutOwns' /\ PolicyOnOwnOnly'
    BY <1>2 DEF CreateRepository
  <2>3. PolicyUnlessInterrupted'
    BY <1>2 DEF CreateRepository, PolicyUnlessInterrupted
  <2> QED BY <2>1, <2>2, <2>3
<1>3. CASE PutLifecyclePolicy(c)
  <2>1. TypeOK' /\ HasRepo'
    BY <1>3 DEF PutLifecyclePolicy
  <2>2. PutOwns' /\ PolicyOnOwnOnly'
    BY <1>3 DEF PutLifecyclePolicy
  <2>3. PolicyUnlessInterrupted'
    BY <1>3 DEF PutLifecyclePolicy, PolicyUnlessInterrupted
  <2> QED BY <2>1, <2>2, <2>3
<1> QED BY <1>1, <1>2, <1>3 DEF Step

LEMMA NextKeepsIInv == IInv /\ [Next]_vars => IInv'
<1> SUFFICES ASSUME IInv, [Next]_vars PROVE IInv'
  OBVIOUS
<1> USE DEF IInv, TypeOK, HasRepo, PutOwns, PolicyOnOwnOnly, PolicyUnlessInterrupted, ecr
<1>1. ASSUME NEW c \in Callers, NEW r \in Repos, EnsureRepository(c, r) PROVE IInv'
  BY <1>1 DEF EnsureRepository, goto
<1>2. ASSUME NEW c \in Callers, Step(c) PROVE IInv'
  BY <1>2, StepKeepsIInv
<1>3. CASE Crash
  BY <1>3 DEF Crash
<1>4. ASSUME NEW r \in Repos, ForeignCreate(r) PROVE IInv'
  BY <1>4 DEF ForeignCreate
<1>5. CASE UNCHANGED vars
  BY <1>5 DEF vars
<1> QED BY <1>1, <1>2, <1>3, <1>4, <1>5 DEF Next

LEMMA InitIInv == Init => IInv
BY DEF Init, IInv, TypeOK, HasRepo, PutOwns, PolicyOnOwnOnly, PolicyUnlessInterrupted

(* Copycat's lifecycle policy only ever reaches repositories that          *)
(* EnsureRepository's own CreateRepository made, however calls race.       *)
THEOREM ForeignRepositoriesUntouched == Spec => []PolicyOnOwnOnly
<1>1. IInv => PolicyOnOwnOnly
  BY DEF IInv
<1> QED BY InitIInv, NextKeepsIInv, <1>1, PTL DEF Spec

(* A created repository lacks the policy only while its creator is about   *)
(* to put it, or after that creator was cut short.                         *)
THEOREM PolicyFollowsCreation == Spec => []PolicyUnlessInterrupted
<1>1. IInv => PolicyUnlessInterrupted
  BY DEF IInv
<1> QED BY InitIInv, NextKeepsIInv, <1>1, PTL DEF Spec

-----------------------------------------------------------------------------
(* The delivery. *)

Stages == {"idle", "filter", "ensure", "ensuring", "push", "backoff"}

\* What the proofs need of the types.
PushTypeOK ==
  /\ stage \in [Callers -> Stages]
  /\ target \in [Callers -> Targets \cup {None}]
  /\ srcLeft \in [Callers -> 0..Timeout]
  /\ left \in [Callers -> Nat]
  /\ spent \in [Callers -> BOOLEAN]

\* A call under way has a target; one that has ended remembers nothing.
HasTarget ==
  \A c \in Callers : IF stage[c] = "idle" THEN ~spent[c] ELSE target[c] \in Targets

(* The descriptor's context is at least as old as the one of the attempt,  *)
(* and both have the same timeout: when the attempt's is over, so is it.   *)
DescriptorOlder ==
  \A c \in Callers :
    /\ stage[c] = "push" /\ Timeout > 0 => srcLeft[c] <= left[c]
    /\ spent[c] => Timeout > 0 /\ srcLeft[c] = 0

PushInv == PushTypeOK /\ HasTarget /\ DescriptorOlder

LEMMA TimesAreNaturals == Timeout \in Nat /\ Backoff \in Nat
BY DeliveryAssumption

LEMMA PushInit == DeliveryInit => PushInv
BY TimesAreNaturals DEF DeliveryInit, PushInv, PushTypeOK, HasTarget, DescriptorOlder, Stages

(* The end of a call, on whatever path, leaves nothing behind.             *)
LEMMA FinishKeepsPushInv ==
  ASSUME PushInv, NEW c \in Callers, finish(c)
  PROVE  PushInv'
<1> USE DEF PushInv, PushTypeOK, Stages, finish, enter
<1>1. PushTypeOK'
  BY TimesAreNaturals
<1>2. HasTarget'
  BY DEF HasTarget
<1>3. DescriptorOlder'
  BY DEF DescriptorOlder
<1> QED BY <1>1, <1>2, <1>3

(* withRetry: a failed attempt is followed by the backoff or by the end.   *)
LEMMA AgainKeepsPushInv ==
  ASSUME PushInv, NEW c \in Callers, stage[c] = "push", again(c),
         attempt[c] < Attempts =>
           \/ UNCHANGED spent
           \/ Timeout > 0 /\ spent' = [spent EXCEPT ![c] = left[c] = 0 \/ @]
  PROVE  PushInv'
<1>1. CASE attempt[c] < Attempts
  <2> USE DEF PushInv, PushTypeOK, Stages
  <2>1. /\ stage' = [stage EXCEPT ![c] = "backoff"]
        /\ left' = [left EXCEPT ![c] = Backoff]
        /\ UNCHANGED <<target, srcLeft>>
    BY <1>1 DEF again, enter
  <2>2. PushTypeOK'
    <3>1. spent' \in [Callers -> BOOLEAN]
      <4>1. (left[c] = 0 \/ spent[c]) \in BOOLEAN
        OBVIOUS
      <4> QED BY <1>1, <4>1, Zenon
    <3> QED BY <2>1, <3>1, TimesAreNaturals
  <2>3. HasTarget'
    BY <1>1, <2>1 DEF HasTarget
  <2>4. DescriptorOlder'
    <3> SUFFICES ASSUME NEW b \in Callers, spent'[b] PROVE Timeout > 0 /\ srcLeft[b] = 0
      BY <2>1 DEF DescriptorOlder
    <3>1. CASE spent[b]
      BY <3>1 DEF DescriptorOlder
    <3>2. CASE ~spent[b]
      <4>1. b = c /\ Timeout > 0 /\ left[c] = 0
        BY <1>1, <3>2
      <4> QED BY <4>1, TimesAreNaturals DEF DescriptorOlder
    <3> QED BY <3>1, <3>2
  <2> QED BY <2>2, <2>3, <2>4
<1>2. CASE ~(attempt[c] < Attempts)
  BY <1>2, FinishKeepsPushInv DEF again
<1> QED BY <1>1, <1>2

LEMMA CallKeepsPushInv ==
  ASSUME PushInv, NEW c \in Callers, CallStep(c)
  PROVE  PushInv'
<1> USE DEF PushInv, PushTypeOK, Stages, HasTarget, DescriptorOlder
<1>1. CASE FilterIndex(c)
  BY <1>1 DEF FilterIndex, enter
<1>2. CASE FilterFails(c) \/ EnsureFails(c) \/ PartGone(c)
  BY <1>2, FinishKeepsPushInv DEF FilterFails, EnsureFails, PartGone, fails
<1>3. CASE Ensure(c)
  BY <1>3 DEF Ensure, enter
<1>4. CASE EnsureStep(c)
  BY <1>4 DEF EnsureStep, push
<1>5. CASE BeginAttempt(c)
  BY <1>5, TimesAreNaturals DEF BeginAttempt, ensured, enter
<1>6. CASE AttemptTimesOut(c)
  BY <1>6, AgainKeepsPushInv DEF AttemptTimesOut
<1>7. CASE AttemptFails(c)
  BY <1>7, AgainKeepsPushInv, FinishKeepsPushInv DEF AttemptFails, pushing
<1>8. CASE PutIndex(c)
  BY <1>8, FinishKeepsPushInv DEF PutIndex
<1>9. ASSUME NEW p \in Parts, UploadLayers(c, p) \/ PutManifest(c, p) PROVE PushInv'
  BY <1>9 DEF UploadLayers, PutManifest, push
<1> QED BY <1>1, <1>2, <1>3, <1>4, <1>5, <1>6, <1>7, <1>8, <1>9 DEF CallStep, storeStep

LEMMA NextKeepsPushInv == PushInv /\ [DeliveryNext]_all => PushInv'
<1> SUFFICES ASSUME PushInv, [DeliveryNext]_all PROVE PushInv'
  OBVIOUS
<1> USE DEF PushInv, PushTypeOK, Stages, HasTarget, DescriptorOlder
<1>1. ASSUME NEW c \in Callers, NEW t \in Targets, Describe(c, t) PROVE PushInv'
  BY <1>1, TimesAreNaturals DEF Describe, enter
<1>2. ASSUME NEW c \in Others, OtherCall(c) PROVE PushInv'
  BY <1>2 DEF OtherCall, push
<1>3. ASSUME NEW m \in Repos \X Parts, Expire(m) PROVE PushInv'
  BY <1>3 DEF Expire, push
<1>4. CASE Tick
  <2>1. \A c \in Callers : /\ srcLeft'[c] = IF srcLeft[c] > 0 THEN srcLeft[c] - 1 ELSE 0
                           /\ left'[c] = IF left[c] > 0 THEN left[c] - 1 ELSE 0
    BY <1>4 DEF Tick, minus1
  <2>2. PushTypeOK'
    BY <1>4, TimesAreNaturals DEF Tick, minus1
  <2>3. HasTarget' /\ DescriptorOlder'
    BY <1>4, <2>1, TimesAreNaturals DEF Tick
  <2> QED BY <2>2, <2>3
<1>5. CASE Die
  BY <1>5, TimesAreNaturals DEF Die
<1>6. ASSUME NEW r \in Repos, OtherClient(r) PROVE PushInv'
  BY <1>6 DEF OtherClient, push
<1>7. CASE UNCHANGED all
  BY <1>7 DEF all, push
<1> QED BY <1>1, <1>2, <1>3, <1>4, <1>5, <1>6, <1>7, CallKeepsPushInv DEF DeliveryNext

(* A retry after a timed-out push reads no layer from the source any more, *)
(* whatever the number of attempts and the length of backoff and timeout:  *)
(* the descriptor's context, older than the push's, is over as well.       *)
THEOREM TimedOutReadsNothing == DeliverySpec => NoReadAfterTimeout
<1>1. PushInv => (\A c \in Callers, p \in Parts : UploadLayers(c, p) => ~spent[c])
  BY TimesAreNaturals DEF PushInv, PushTypeOK, DescriptorOlder, UploadLayers, readable
<1> QED BY PushInit, NextKeepsPushInv, <1>1, PTL DEF DeliverySpec, NoReadAfterTimeout

-----------------------------------------------------------------------------
(* Delivery composed with EcrTarget still is EcrTarget. *)

LEMMA DeliverySimulatesEcr == PushInv /\ [DeliveryNext]_all => [Next]_vars
<1> SUFFICES ASSUME PushInv, [DeliveryNext]_all PROVE Next \/ UNCHANGED vars
  OBVIOUS
<1>1. ASSUME NEW c \in Callers, CallStep(c) PROVE Next \/ UNCHANGED vars
  <2>1. CASE Ensure(c)
    <3>1. target[c][1] \in Repos
      BY <2>1 DEF Ensure, PushInv, HasTarget, Targets
    <3> QED BY <2>1, <3>1 DEF Ensure, Next
  <2>2. CASE EnsureStep(c)
    BY <2>2 DEF EnsureStep, Next
  <2>3. CASE FilterIndex(c) \/ FilterFails(c) \/ EnsureFails(c) \/ BeginAttempt(c) \/ PartGone(c)
    BY <2>3 DEF FilterIndex, FilterFails, EnsureFails, BeginAttempt, PartGone, fails
  <2>4. CASE AttemptTimesOut(c) \/ AttemptFails(c) \/ storeStep(c)
    BY <2>4 DEF AttemptTimesOut, AttemptFails, storeStep, PutIndex, UploadLayers, PutManifest
  <2> QED BY <1>1, <2>1, <2>2, <2>3, <2>4 DEF CallStep
<1>2. ASSUME NEW c \in Callers, NEW t \in Targets, Describe(c, t) PROVE UNCHANGED vars
  BY <1>2 DEF Describe
<1>3. ASSUME NEW c \in Others, OtherCall(c) PROVE Next
  BY <1>3, DeliveryAssumption DEF OtherCall, Next
<1>4. CASE Die
  BY <1>4 DEF Die, Next
<1>5. ASSUME NEW r \in Repos, OtherClient(r) PROVE Next
  BY <1>5 DEF OtherClient, Next
<1>6. CASE Tick \/ UNCHANGED all
  BY <1>6 DEF Tick, all
<1>7. ASSUME NEW m \in Repos \X Parts, Expire(m) PROVE UNCHANGED vars
  BY <1>7 DEF Expire
<1> QED BY <1>1, <1>2, <1>3, <1>4, <1>5, <1>6, <1>7 DEF DeliveryNext

(* Whatever Mirror does around it, with deadlines, retries and crashes,    *)
(* what happens at ECR's repositories is what EcrTarget says.              *)
THEOREM DeliveryImplementsEcrTarget == DeliverySpec => Spec
<1>1. DeliveryInit => Init
  BY DEF DeliveryInit
<1> QED BY <1>1, PushInit, NextKeepsPushInv, DeliverySimulatesEcr, PTL DEF DeliverySpec, Spec

(* So the lifecycle policy stays with copycat's own repositories, and is   *)
(* missing only where its creation was cut short, also under Delivery.     *)
THEOREM DeliveryKeepsPolicies == DeliverySpec => [](PolicyOnOwnOnly /\ PolicyUnlessInterrupted)
BY DeliveryImplementsEcrTarget, ForeignRepositoriesUntouched, PolicyFollowsCreation, PTL
=============================================================================
