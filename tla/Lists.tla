------------------------------- MODULE Lists -------------------------------
(* Filtering a Go slice: what SelectSeq does, for a set instead of a test, *)
(* as a recursive function, which unlike SelectSeq can be reasoned about.  *)
EXTENDS Integers, SequencesExt

isSequence(s) == s \in Seq(ToSet(s))

\* The entries of s that are members of T, in their order.
keep(s, T) ==
  LET f[n \in 0..Len(s)] ==
        IF n = 0 THEN <<>> ELSE IF s[n] \in T THEN Append(f[n - 1], s[n]) ELSE f[n - 1]
  IN  f[Len(s)]
=============================================================================
