---------------------------- MODULE MCPlatforms ----------------------------
(* An index of two platforms with an attestation, named by a tag, and a    *)
(* plain manifest, named by its digest alone, so that it is mirrored to    *)
(* latest; two pods on nodes of different platforms.                       *)
EXTENDS Platforms

CONSTANTS app, tool, onAmd, onArm

amd64 == <<"linux", "amd64">>
arm64 == <<"linux", "arm64">>

entry(p) == [platform |-> p, attestation |-> FALSE]
attestation == [platform |-> <<"unknown", "unknown">>, attestation |-> TRUE]

SourceImages == [i \in Images |-> IF i = app THEN <<attestation, entry(amd64), entry(arm64)>>
                                  ELSE <<entry(amd64)>>]
Nodes == [p \in Pods |-> IF p = onAmd THEN amd64 ELSE arm64]

\* One platform, and a list with a duplicate, an unknown and an invalid one.
one  == <<<<"arm64">>>>
many == <<<<"linux", "arm64">>, <<"amd64">>, <<"", "arm64">>, <<"s390x">>, <<"linux", "">>>>

\* By tag neither nodes nor lists are looked at: one of each will do.
AllConfigurations ==
  [digestPull : {TRUE}, ignoredTags : {{}}, checkNode : BOOLEAN, repush : BOOLEAN, mirrorPlatforms : {<<>>, many}]
    \cup [digestPull : {TRUE}, ignoredTags : {{}}, checkNode : BOOLEAN, repush : {TRUE}, mirrorPlatforms : {one}]
    \cup [digestPull : {TRUE}, ignoredTags : {{app}}, checkNode : {TRUE}, repush : {FALSE}, mirrorPlatforms : {<<>>, many}]
    \cup [digestPull : {FALSE}, ignoredTags : {{}}, checkNode : {TRUE}, repush : BOOLEAN, mirrorPlatforms : {many}]
=============================================================================
