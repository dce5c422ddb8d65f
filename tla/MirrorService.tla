---------------------------- MODULE MirrorService ----------------------------
(***************************************************************************)
(* What the pusher promises its callers, whatever it does to keep it: a    *)
(* caller is refused, skipped, or works on a target, alone and not while   *)
(* the target is in cooldown; the work ends with the image at the target   *)
(* or with a failure, which starts the cooldown.  Being refused and being  *)
(* skipped change nothing and are stuttering steps.                        *)
(*                                                                         *)
(* Pusher implements this module and Controllers relies on it: both state  *)
(* so, with a refinement mapping.                                          *)
(***************************************************************************)
CONSTANTS Callers, Targets, None, CooldownOn

VARIABLES
  working,   \* the target each caller works on
  cooling,   \* targets in failure cooldown
  mirrored   \* targets whose image is at the target registry

vars == <<working, cooling, mirrored>>

Init ==
  /\ working = [c \in Callers |-> None]
  /\ cooling = {}
  /\ mirrored \in SUBSET Targets

Begin(c, t) ==
  /\ working[c] = None
  /\ t \notin cooling /\ \A b \in Callers : working[b] # t
  /\ working' = [working EXCEPT ![c] = t]
  /\ UNCHANGED <<cooling, mirrored>>

ended(c) == working' = [working EXCEPT ![c] = None]

\* The image may be there before the caller learns of it, or although it never does.
Write(c) ==
  /\ working[c] # None
  /\ mirrored' = mirrored \cup {working[c]}
  /\ UNCHANGED <<working, cooling>>

Succeed(c) ==
  /\ working[c] # None
  /\ ended(c)
  /\ mirrored' = mirrored \cup {working[c]}
  /\ UNCHANGED cooling

Fail(c) ==
  /\ working[c] # None
  /\ ended(c)
  /\ cooling' = IF CooldownOn THEN cooling \cup {working[c]} ELSE cooling
  /\ UNCHANGED mirrored

\* Cooldowns end, one or several at a time.
Expire ==
  /\ cooling' \in SUBSET cooling
  /\ UNCHANGED <<working, mirrored>>

\* A restart forgets the calls and the cooldowns, and nothing else.
Forget ==
  /\ working' = [c \in Callers |-> None]
  /\ cooling' = {}
  /\ UNCHANGED mirrored

Next ==
  \/ \E c \in Callers : Write(c) \/ Succeed(c) \/ Fail(c) \/ \E t \in Targets : Begin(c, t)
  \/ Expire \/ Forget

Spec == Init /\ [][Next]_vars
=============================================================================
