---------------------------- MODULE MCOwnerSkips ----------------------------
(* A pod of a skipped Deployment, with its ReplicaSet; a pod of a Job of a *)
(* CronJob whose name is skipped in another namespace only; and a pod in a *)
(* skipped namespace.                                                      *)
EXTENDS OwnerSkips

CONSTANTS prod, kube, prodAny, web, webRs, webPod, sync, syncJob, syncPod, dns

PatternMatches == [p \in Patterns |-> {prod}]

Kind == [o \in Refs |->
  CASE o = web -> "Deployment" [] o = webRs -> "ReplicaSet" [] o = webPod -> "Pod"
    [] o = sync -> "CronJob" [] o = syncJob -> "Job" [] o \in {syncPod, dns} -> "Pod"]
Owner == [o \in Refs |->
  CASE o = webRs -> web [] o = webPod -> webRs
    [] o = syncJob -> sync [] o = syncPod -> syncJob [] OTHER -> None]
Namespace == [o \in Refs |-> IF o = dns THEN kube ELSE prod]
Name == [o \in Refs |-> o]
Lists == [k \in Kinds |->
  CASE k = "Deployment" -> {web} [] k = "CronJob" -> {<<kube, sync>>} [] OTHER -> {}]
=============================================================================
