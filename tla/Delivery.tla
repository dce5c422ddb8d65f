------------------------------ MODULE Delivery ------------------------------
(***************************************************************************)
(* How an index subset reaches Amazon ECR: the part of Mirror between the  *)
(* descriptor and the tag, with its contexts, composed with EcrTarget.     *)
(*                                                                         *)
(* Every request has a context with the same timeout.  The context of the  *)
(* descriptor outlives its request: go-containerregistry reads the layers  *)
(* lazily, during the push, under the context the image was fetched with.  *)
(* A manifest that is already at the target is fetched from there under a  *)
(* context that is cancelled at once, so its layers cannot be read at all. *)
(* Layers and manifests stay at the target when a push fails; a lifecycle  *)
(* policy may remove a manifest no tag needs.                              *)
(*                                                                         *)
(* A part is one platform's manifest with its layers.  Time is what is     *)
(* left of a context, in clock units.                                      *)
(***************************************************************************)
EXTENDS EcrTarget, Naturals

CONSTANTS
  Others,       \* calls of which only EnsureRepository is followed
  Tags, Parts,
  Content,      \* [Tags -> SUBSET Parts]: what the filtered index of a tag names
  Timeout,      \* requestTimeout, 0 for none
  Attempts,     \* registryRetry.Attempts
  Backoff,      \* registryRetry.Backoff
  MaxExpiries   \* bound on the removals by a lifecycle policy

Targets == Repos \X Tags

ASSUME DeliveryAssumption ==
  /\ Others \subseteq Callers
  /\ Content \in [Tags -> SUBSET Parts]
  /\ {Timeout, Backoff, MaxExpiries} \subseteq Nat
  /\ Attempts \in Nat \ {0}
  /\ None \notin Targets

VARIABLES
  layers,    \* ECR: <<repo, part>> whose layers are stored
  stored,    \* ECR: <<repo, part>> whose manifest is stored
  tagged,    \* ECR: tags that exist
  expiries,  \* removals so far
  stage,     \* where each call is
  target,    \* its target
  held,      \* the parts it fetched from the target
  srcLeft,   \* what is left of its descriptor's context
  left,      \* what is left of its push context, or of its backoff
  attempt,   \* withRetry's attempt
  spent      \* history: an attempt of the call ran into its deadline

store == <<layers, stored, tagged, expiries>>
push == <<stage, target, held, srcLeft, left, attempt, spent>>
all == <<vars, store, push>>

DeliveryInit ==
  /\ Init
  /\ layers = {} /\ stored = {} /\ tagged = {} /\ expiries = 0
  /\ stage = [c \in Callers |-> "idle"]
  /\ target = [c \in Callers |-> None]
  /\ held = [c \in Callers |-> {}]
  /\ srcLeft = [c \in Callers |-> 0] /\ left = [c \in Callers |-> 0]
  /\ attempt = [c \in Callers |-> 0]
  /\ spent = [c \in Callers |-> FALSE]

-----------------------------------------------------------------------------
content(c) == Content[target[c][2]]

at(c, p) == <<target[c][1], p>>

enter(c, label) == stage' = [stage EXCEPT ![c] = label]

\* The mark is released; what the call knew is gone.
finish(c) ==
  /\ enter(c, "idle")
  /\ target' = [target EXCEPT ![c] = None]
  /\ held' = [held EXCEPT ![c] = {}]
  /\ srcLeft' = [srcLeft EXCEPT ![c] = 0] /\ left' = [left EXCEPT ![c] = 0]
  /\ attempt' = [attempt EXCEPT ![c] = 0]
  /\ spent' = [spent EXCEPT ![c] = FALSE]

fails(c) == finish(c) /\ UNCHANGED <<vars, store>>

\* getDescriptor, by the one call beginProcessing lets through; a call for a
\* tag that is there ends before it pushes.
Describe(c, t) ==
  /\ stage[c] = "idle" /\ t \notin tagged
  /\ \A b \in Callers : target[b] # t
  /\ enter(c, "filter")
  /\ target' = [target EXCEPT ![c] = t]
  /\ srcLeft' = [srcLeft EXCEPT ![c] = Timeout]
  /\ UNCHANGED <<vars, store, held, left, attempt, spent>>

\* The parts a HEAD finds; an unreadable manifest falls back to the source.
fetchableMutant(c) == {content(c)}
fetchable(c) == SUBSET {p \in content(c) : at(c, p) \in stored}

FilterIndex(c) ==
  /\ stage[c] = "filter"
  /\ enter(c, "ensure")
  /\ \E ps \in fetchable(c) : held' = [held EXCEPT ![c] = ps]
  /\ UNCHANGED <<vars, store, target, srcLeft, left, attempt, spent>>

FilterFails(c) == stage[c] = "filter" /\ fails(c)

Ensure(c) ==
  /\ stage[c] = "ensure"
  /\ enter(c, "ensuring")
  /\ EnsureRepository(c, target[c][1])
  /\ UNCHANGED <<store, target, held, srcLeft, left, attempt, spent>>

EnsureStep(c) == Step(c) /\ UNCHANGED <<store, push>>

ensured(c, value) == stage[c] = "ensuring" /\ pc[c] = "idle" /\ result[c] = value

EnsureFails(c) == ensured(c, "error") /\ fails(c)

\* operationContext for one attempt of withRetry, at once or after the backoff.
BeginAttempt(c) ==
  /\ ensured(c, "nil") \/ (stage[c] = "backoff" /\ left[c] = 0)
  /\ enter(c, "push")
  /\ left' = [left EXCEPT ![c] = Timeout]
  /\ attempt' = [attempt EXCEPT ![c] = @ + 1]
  /\ UNCHANGED <<vars, store, target, held, srcLeft, spent>>

-----------------------------------------------------------------------------
(* One attempt: remote.WriteIndex. *)

pushing(c) == stage[c] = "push" /\ (Timeout = 0 \/ left[c] > 0)

\* The context of the descriptor, under which layers are read.
readableMutant(c) == TRUE
readable(c) == Timeout = 0 \/ srcLeft[c] > 0

UploadLayers(c, p) ==
  /\ pushing(c)
  /\ p \in content(c) \ held[c] /\ at(c, p) \notin layers \cup stored
  /\ readable(c)
  /\ layers' = layers \cup {at(c, p)}
  /\ UNCHANGED <<vars, stored, tagged, expiries, push>>

\* The manifest is in memory since the index was filtered.
PutManifest(c, p) ==
  /\ pushing(c)
  /\ p \in content(c) \ held[c] /\ at(c, p) \in layers \ stored
  /\ stored' = stored \cup {at(c, p)}
  /\ UNCHANGED <<vars, layers, tagged, expiries, push>>

PutIndex(c) ==
  /\ pushing(c)
  /\ \A p \in content(c) : at(c, p) \in stored
  /\ tagged' = tagged \cup {target[c]}
  /\ finish(c)
  /\ UNCHANGED <<vars, layers, stored, expiries>>

\* withRetry after a failed attempt.
again(c) ==
  IF attempt[c] < Attempts
  THEN /\ enter(c, "backoff")
       /\ left' = [left EXCEPT ![c] = Backoff]
       /\ UNCHANGED <<target, held, srcLeft, attempt>>
  ELSE finish(c)

\* The push context is over, or the read of a layer hits the descriptor's.
AttemptTimesOut(c) ==
  /\ stage[c] = "push" /\ Timeout > 0
  /\ \/ left[c] = 0
     \/ srcLeft[c] = 0 /\ \E p \in content(c) \ held[c] : at(c, p) \notin layers \cup stored
  /\ again(c)
  /\ attempt[c] < Attempts => spent' = [spent EXCEPT ![c] = left[c] = 0 \/ @]
  /\ UNCHANGED <<vars, store>>

\* 5xx, 429, a broken connection: retried; anything else is not.
AttemptFails(c) ==
  /\ pushing(c)
  /\ \/ again(c) /\ (attempt[c] < Attempts => UNCHANGED spent)
     \/ finish(c)
  /\ UNCHANGED <<vars, store>>

\* A part fetched from the target is gone: its layers cannot be read, the
\* context is cancelled (not found, without a timeout), and neither is retried.
PartGone(c) ==
  /\ pushing(c)
  /\ \E p \in held[c] : at(c, p) \notin stored
  /\ fails(c)

-----------------------------------------------------------------------------
(* Surroundings. *)

needed(m) == \E t \in tagged : t[1] = m[1] /\ m[2] \in Content[t[2]]

\* The lifecycle policy removes a manifest no tagged index refers to.
Expire(m) ==
  /\ expiries < MaxExpiries
  /\ m[1] \in policy /\ m \in stored /\ ~needed(m)
  /\ stored' = stored \ {m}
  /\ layers' \in {layers, layers \ {m}}
  /\ expiries' = expiries + 1
  /\ UNCHANGED <<vars, tagged, push>>

minus1(f) == [c \in Callers |-> IF f[c] > 0 THEN f[c] - 1 ELSE 0]

\* No attempt outlives its context and no backoff its timer.
Tick ==
  /\ \E c \in Callers : srcLeft[c] > 0 \/ left[c] > 0
  /\ \A c \in Callers : left[c] > 0 \/ ~(stage[c] = "backoff" \/ (stage[c] = "push" /\ Timeout > 0))
  /\ srcLeft' = minus1(srcLeft) /\ left' = minus1(left)
  /\ UNCHANGED <<vars, store, stage, target, held, attempt, spent>>

Die ==
  /\ Crash
  /\ stage' = [c \in Callers |-> "idle"]
  /\ target' = [c \in Callers |-> None]
  /\ held' = [c \in Callers |-> {}]
  /\ srcLeft' = [c \in Callers |-> 0] /\ left' = [c \in Callers |-> 0]
  /\ attempt' = [c \in Callers |-> 0]
  /\ spent' = [c \in Callers |-> FALSE]
  /\ UNCHANGED store

OtherClient(r) == ForeignCreate(r) /\ UNCHANGED <<store, push>>

\* A call for another tag of the repository.
OtherCall(c) ==
  /\ (\E r \in Repos : EnsureRepository(c, r)) \/ Step(c)
  /\ UNCHANGED <<store, push>>

storeStep(c) == PutIndex(c) \/ \E p \in Parts : UploadLayers(c, p) \/ PutManifest(c, p)

CallStep(c) ==
  \/ FilterIndex(c) \/ FilterFails(c) \/ Ensure(c) \/ EnsureStep(c) \/ EnsureFails(c)
  \/ BeginAttempt(c) \/ AttemptTimesOut(c) \/ AttemptFails(c) \/ PartGone(c) \/ storeStep(c)

DeliveryNext ==
  \/ \E c \in Callers \ Others : CallStep(c) \/ \E t \in Targets : Describe(c, t)
  \/ \E c \in Others : OtherCall(c)
  \/ \E m \in Repos \X Parts : Expire(m)
  \/ Tick \/ Die
  \/ \E r \in Repos : OtherClient(r)

fresh(c) == srcLeft[c] = Timeout

\* Calls go on and come back (the controllers see to it): requests to Amazon ECR, which
\* have no deadline, are assumed to be answered or refused.  A kind of request that
\* is made again and again succeeds sometimes, soon after the descriptor was read;
\* which call has the luck is left open.  If what precedes the push always took
\* longer than the timeout nothing could be delivered.
Fairness ==
  /\ WF_all(Tick)
  /\ \A c \in Callers \ Others : WF_all(CallStep(c))
  /\ \A t \in Targets : WF_all(\E c \in Callers \ Others : Describe(c, t))
  /\ SF_all(\E c \in Callers \ Others : fresh(c) /\ FilterIndex(c))
  /\ SF_all(\E c \in Callers \ Others : fresh(c) /\ Ensure(c))
  /\ SF_all(\E c \in Callers \ Others : fresh(c) /\ DescribeRepositories(c) /\ EnsureStep(c) /\ result'[c] # "error")
  /\ SF_all(\E c \in Callers \ Others : fresh(c) /\ CreateRepository(c) /\ EnsureStep(c) /\ result'[c] # "error")
  /\ SF_all(\E c \in Callers \ Others : fresh(c) /\ BeginAttempt(c))
  /\ SF_all(\E c \in Callers \ Others : storeStep(c))

DeliverySpec == DeliveryInit /\ [][DeliveryNext]_all /\ Fairness

-----------------------------------------------------------------------------
(* An index too large for one timeout still arrives: what earlier calls    *)
(* stored is not uploaded again, so although a descriptor whose context    *)
(* has expired makes every further attempt fail, and although a part that  *)
(* expires at the target after it was found there fails the whole call,    *)
(* later calls finish the work.                                            *)
Delivered == \A t \in Targets : <>(t \in tagged)

(* Once an attempt has run into the deadline of its push, no later attempt *)
(* of the same call stores another layer: its descriptor's context is at   *)
(* least as old.  Progress after a timed-out push is left to later calls.  *)
NoReadAfterTimeout ==
  [][\A c \in Callers, p \in Parts : UploadLayers(c, p) => ~spent[c]]_all
=============================================================================
