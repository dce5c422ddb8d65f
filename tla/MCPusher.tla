------------------------------ MODULE MCPusher ------------------------------
(* Small instances of Pusher.                                              *)
EXTENDS Pusher, TLC

CONSTANTS r1, r2, v1, latest, d1, d2, s1, w1, w2

\* One request for tag v1 of one source, and what tests vary about it.
base == [src |-> s1, pinned |-> None, imageID |-> None, tag |-> v1, repo |-> r1,
         ignored |-> FALSE, excluded |-> FALSE, malformed |-> FALSE]

\* With digestPull: pods that report d1 or nothing yet, a tag and latest in
\* digestPullIgnoredTags (mirrored by tag, as without digestPull), a
\* reference pinned to d2, and two that are rejected.
Mixed == { base, [base EXCEPT !.imageID = d1], [base EXCEPT !.pinned = d2],
           [base EXCEPT !.ignored = TRUE], [base EXCEPT !.ignored = TRUE, !.tag = None],
           [base EXCEPT !.excluded = TRUE], [base EXCEPT !.malformed = TRUE] }

\* $arch in the prefix: one call learns the platform from the pulled image,
\* the other already had it from the node.
ArchRequests == { base, [base EXCEPT !.repo = r2] }

\* Tag mode: an ordinary image and its latest tag, or the former alone.
TagRequests == { base, [base EXCEPT !.tag = None] }
TagRequest == { base }

Swap == Permutations(Workers)
SwapAll == Permutations(Workers) \cup Permutations(Digests)

Same == [r \in Requests |-> [d \in Digests |-> d]]
SameRepo == [r \in Requests |-> [d \in Digests |-> r.repo]]
ToR2 == [r \in Requests |-> [d \in Digests |-> r2]]
NoChildren == [d \in Digests |-> {}]
D2OfD1 == [d \in Digests |-> IF d = d1 THEN {d2} ELSE {}]
=============================================================================
