------------------------------ MODULE EcrTarget ------------------------------
(***************************************************************************)
(* EnsureRepository of internal/registry/ecr.go.  The pusher's marks are   *)
(* per target (repository and tag), so several calls may be ensuring one   *)
(* repository at a time; each is a sequence of separate AWS requests:      *)
(* describe, create, put the lifecycle policy.                             *)
(***************************************************************************)
CONSTANTS Callers, Repos, None,
          CreateRepo,   \* cfg.CreateRepo
          HasPolicy     \* strings.TrimSpace(cfg.LifecyclePolicy) != ""

ASSUME EcrAssumption == {CreateRepo, HasPolicy} \subseteq BOOLEAN /\ None \notin Repos

VARIABLES
  exists,       \* ECR: repositories that exist
  policy,       \* ECR: repositories with copycat's lifecycle policy
  pc, repo,     \* where each call is, and its repository
  result,       \* what its last call returned
  created,      \* history: repositories copycat's CreateRepository made
  interrupted   \* history: repositories whose set-up was cut short

ecr == <<exists, policy>>
vars == <<ecr, pc, repo, result, created, interrupted>>

Init ==
  /\ exists \in SUBSET Repos
  /\ policy = {}
  /\ pc = [c \in Callers |-> "idle"]
  /\ repo = [c \in Callers |-> None]
  /\ result = [c \in Callers |-> "none"]
  /\ created = {}
  /\ interrupted = {}

goto(c, label) == pc' = [pc EXCEPT ![c] = label]

return(c, value) ==
  /\ goto(c, "idle")
  /\ result' = [result EXCEPT ![c] = value]

EnsureRepository(c, r) ==
  /\ pc[c] = "idle"
  /\ goto(c, "describe")
  /\ repo' = [repo EXCEPT ![c] = r]
  /\ result' = [result EXCEPT ![c] = "none"]
  /\ UNCHANGED <<ecr, created, interrupted>>

DescribeRepositories(c) ==
  /\ pc[c] = "describe"
  /\ \/ /\ repo[c] \in exists
        /\ return(c, "nil")
     \/ /\ repo[c] \notin exists /\ CreateRepo
        /\ goto(c, "create")
        /\ UNCHANGED result
     \/ return(c, "error")      \* not found and not to be created, or any other error
  /\ UNCHANGED <<ecr, repo, created, interrupted>>

\* A lost answer may hide a creation; RepositoryAlreadyExists is an error too.
CreateRepositoryMutant(c) ==
  /\ pc[c] = "create"
  /\ exists' = exists \cup {repo[c]}
  /\ created' = IF repo[c] \in exists THEN created ELSE created \cup {repo[c]}
  /\ goto(c, "put")
  /\ UNCHANGED <<policy, repo, result, interrupted>>
CreateRepository(c) ==
  /\ pc[c] = "create"
  /\ \/ /\ repo[c] \notin exists
        /\ exists' = exists \cup {repo[c]}
        /\ created' = created \cup {repo[c]}
        /\ IF HasPolicy THEN goto(c, "put") /\ UNCHANGED result ELSE return(c, "nil")
        /\ UNCHANGED interrupted
     \/ /\ repo[c] \notin exists
        /\ exists' = exists \cup {repo[c]}
        /\ created' = created \cup {repo[c]}
        /\ interrupted' = interrupted \cup {repo[c]}
        /\ return(c, "error")
     \/ /\ return(c, "error")
        /\ UNCHANGED <<exists, created, interrupted>>
  /\ UNCHANGED <<policy, repo>>

PutLifecyclePolicyMutant(c) ==
  /\ pc[c] = "put"
  /\ return(c, "nil")
  /\ UNCHANGED <<ecr, repo, created, interrupted>>
PutLifecyclePolicy(c) ==
  /\ pc[c] = "put"
  /\ \/ /\ repo[c] \in exists
        /\ policy' = policy \cup {repo[c]}
        /\ return(c, "nil")
        /\ UNCHANGED interrupted
     \/ /\ interrupted' = interrupted \cup {repo[c]}
        /\ return(c, "error")
        /\ UNCHANGED policy
  /\ UNCHANGED <<exists, repo, created>>

\* The process dies: calls disappear between any two requests.
Crash ==
  /\ interrupted' = interrupted \cup {repo[c] : c \in {d \in Callers : pc[d] = "put"}}
  /\ pc' = [c \in Callers |-> "idle"]
  /\ result' = [c \in Callers |-> "none"]
  /\ UNCHANGED <<ecr, repo, created>>

\* Somebody else creates a repository.
ForeignCreate(r) ==
  /\ r \notin exists
  /\ exists' = exists \cup {r}
  /\ UNCHANGED <<policy, pc, repo, result, created, interrupted>>

Step(c) == DescribeRepositories(c) \/ CreateRepository(c) \/ PutLifecyclePolicy(c)

Next ==
  \/ \E c \in Callers : (\E r \in Repos : EnsureRepository(c, r)) \/ Step(c)
  \/ Crash
  \/ \E r \in Repos : ForeignCreate(r)

Spec == Init /\ [][Next]_vars

-----------------------------------------------------------------------------
(* Every variable has its type.                                            *)
TypeOK ==
  /\ exists \subseteq Repos /\ policy \subseteq Repos
  /\ created \subseteq Repos /\ interrupted \subseteq Repos
  /\ pc \in [Callers -> {"idle", "describe", "create", "put"}]
  /\ repo \in [Callers -> Repos \cup {None}]
  /\ result \in [Callers -> {"none", "nil", "error"}]

(* The policy is put on repositories copycat created and on no other, even *)
(* if somebody creates the repository between describe and create, or two  *)
(* calls race for it.                                                      *)
PolicyOnOwnOnly == policy \subseteq created

(* A repository copycat created is without the policy only while the call  *)
(* that created it is about to put it, or because that call was cut short. *)
PolicyUnlessInterrupted ==
  HasPolicy => \A r \in created :
    \/ r \in policy \cup interrupted
    \/ \E c \in Callers : pc[c] = "put" /\ repo[c] = r

=============================================================================
