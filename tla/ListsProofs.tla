---------------------------- MODULE ListsProofs ----------------------------
(***************************************************************************)
(* What keep computes, and the lemmas on recursive functions over 0..N and *)
(* on sequences that it takes.  Induction has the form "a set of naturals  *)
(* that is not empty has a least element", which needs no operator as a    *)
(* parameter.                                                              *)
(***************************************************************************)
EXTENDS Lists, SequenceTheorems, WellFoundedInduction, TLAPS

-----------------------------------------------------------------------------
(* Recursion. *)

LEMMA LeastElement ==
  ASSUME NEW T \in SUBSET Nat, T # {}
  PROVE  \E x \in T : \A y \in T : x <= y
<1>1. IsWellFoundedOn(OpToRel(<, Nat), Nat)
  BY NatLessThanWellFounded
<1>2. PICK x \in T : \A y \in T : ~(<<y, x>> \in OpToRel(<, Nat))
  BY <1>1, WFMin
<1>3. \A y \in T : ~(y < x)
  BY <1>2 DEF OpToRel
<1> QED BY <1>3

LEMMA GreatestElement ==
  ASSUME NEW N \in Nat, NEW T \in SUBSET (0..N), T # {}
  PROVE  \E x \in T : \A y \in T : y <= x
<1> DEFINE U == {k \in 0..N : N - k \in T}
<1>1. U \in SUBSET Nat /\ U # {}
  <2>1. PICK x \in T : x \in 0..N
    OBVIOUS
  <2>2. N - x \in 0..N /\ N - (N - x) = x
    BY <2>1
  <2>3. N - x \in U
    BY <2>1, <2>2
  <2>4. U \in SUBSET Nat
    OBVIOUS
  <2> HIDE DEF U
  <2> QED BY <2>3, <2>4
<1>2. PICK u \in U : \A y \in U : u <= y
  <2> HIDE DEF U
  <2> QED BY <1>1, LeastElement
<1>3. ASSUME NEW y \in T PROVE y <= N - u
  <2>1. y \in 0..N /\ N - y \in 0..N /\ N - (N - y) = y
    OBVIOUS
  <2>2. N - y \in U
    BY <2>1
  <2>3. u <= N - y
    BY <1>2, <2>2
  <2> QED BY <1>2, <2>1, <2>3
<1> QED BY <1>2, <1>3

\* Induction up to N for the set of numbers where the claim holds.
LEMMA BoundedInduction ==
  ASSUME NEW N \in Nat, NEW P, 0 \in P, \A n \in 1..N : n - 1 \in P => n \in P
  PROVE  0..N \subseteq P
<1> DEFINE T == {n \in 0..N : n \notin P}
<1> SUFFICES ASSUME T # {} PROVE FALSE
  OBVIOUS
<1>1. T \in SUBSET Nat
  OBVIOUS
<1>2. PICK x \in T : \A y \in T : x <= y
  BY <1>1, LeastElement
<1>3. x \in 1..N
  OBVIOUS
<1>4. x - 1 \notin T /\ x - 1 \in 0..N
  BY <1>2, <1>3
<1> QED BY <1>3, <1>4

\* f starts with a, and has at n what G makes of the value before.
iterates(f, N, S, a, G) ==
  /\ f \in [0..N -> S]
  /\ f[0] = a /\ \A n \in 1..N : f[n] = G[n][f[n - 1]]

LEMMA IterationExists ==
  ASSUME NEW N \in Nat, NEW S, NEW a \in S, NEW G \in [1..N -> [S -> S]]
  PROVE  \E f : iterates(f, N, S, a, G)
<1> DEFINE upTo(m, f) == f[0] = a /\ \A n \in 1..m : f[n] = G[n][f[n - 1]]
           P == {m \in 0..N : \E f \in [0..N -> S] : upTo(m, f)}
<1>1. 0 \in P
  <2>1. [n \in 0..N |-> a] \in [0..N -> S] /\ upTo(0, [n \in 0..N |-> a])
    OBVIOUS
  <2> HIDE DEF upTo
  <2> QED BY <2>1
<1>2. ASSUME NEW m \in 1..N, m - 1 \in P PROVE m \in P
  <2>1. PICK f \in [0..N -> S] : upTo(m - 1, f)
    BY <1>2
  <2> DEFINE v == G[m][f[m - 1]]
             g == [f EXCEPT ![m] = v]
  <2>2. v \in S
    BY <2>1
  <2>3. g \in [0..N -> S]
    BY <2>2
  <2>4. g[0] = a
    BY <2>1
  <2>5. ASSUME NEW n \in 1..m PROVE g[n] = G[n][g[n - 1]]
    <3>1. g[n - 1] = f[n - 1]
      BY <2>5
    <3>2. CASE n = m
      <4>1. g[m] = v
        OBVIOUS
      <4> HIDE DEF g
      <4> QED BY <3>1, <3>2, <4>1
    <3>3. CASE n # m
      <4>1. n \in 1..(m - 1) /\ g[n] = f[n]
        BY <3>3, <2>5
      <4> QED BY <2>1, <3>1, <4>1
    <3> QED BY <3>2, <3>3
  <2>6. upTo(m, g)
    BY <2>4, <2>5
  <2> HIDE DEF g, upTo
  <2> QED BY <2>3, <2>6
<1>3. N \in P
  <2> HIDE DEF P
  <2>1. 0..N \subseteq P
    BY <1>1, <1>2, BoundedInduction
  <2> QED BY <2>1
<1> QED BY <1>3 DEF iterates

\* The values of a recursive function, step by step.
LEMMA IterationTyped ==
  ASSUME NEW N \in Nat, NEW S, NEW F, F[0] \in S, \A n \in 1..N : F[n - 1] \in S => F[n] \in S
  PROVE  \A n \in 0..N : F[n] \in S
<1> DEFINE P == {n \in 0..N : F[n] \in S}
<1>1. 0 \in P
  OBVIOUS
<1>2. ASSUME NEW n \in 1..N, n - 1 \in P PROVE n \in P
  <2>1. n \in 0..N
    OBVIOUS
  <2> QED BY <1>2, <2>1
<1>3. 0..N \subseteq P
  <2> HIDE DEF P
  <2> QED BY <1>1, <1>2, BoundedInduction
<1> QED BY <1>3

-----------------------------------------------------------------------------
(* Sequences. *)

LEMMA SeqIsSequence ==
  ASSUME NEW S, NEW q \in Seq(S)
  PROVE  isSequence(q)
<1>1. Len(q) \in Nat /\ DOMAIN q = 1..Len(q) /\ q \in [1..Len(q) -> S]
  BY LenProperties
<1>2. q = [n \in 1..Len(q) |-> q[n]] /\ \A n \in 1..Len(q) : q[n] \in ToSet(q)
  BY <1>1 DEF ToSet
<1>3. q \in [1..Len(q) -> ToSet(q)]
  BY <1>2
<1> HIDE DEF ToSet
<1> QED BY <1>1, <1>3, SeqDef DEF isSequence

LEMMA InToSet ==
  ASSUME NEW S, NEW q \in Seq(S), NEW x
  PROVE  x \in ToSet(q) <=> \E n \in 1..Len(q) : x = q[n]
BY LenProperties DEF ToSet

LEMMA ToSetAppend ==
  ASSUME NEW S, NEW q \in Seq(S), NEW x \in S
  PROVE  ToSet(Append(q, x)) = ToSet(q) \cup {x}
<1> DEFINE r == Append(q, x)
<1>1. /\ r \in Seq(S) /\ Len(q) \in Nat /\ Len(r) = Len(q) + 1
      /\ \A i \in 1..Len(q) : r[i] = q[i]
      /\ r[Len(q) + 1] = x
  BY AppendProperties, LenProperties
<1> HIDE DEF r
<1>2. ASSUME NEW y PROVE y \in ToSet(r) <=> y \in ToSet(q) \/ y = x
  <2>1. (\E n \in 1..Len(r) : y = r[n]) <=> (\E n \in 1..Len(q) : y = q[n]) \/ y = x
    <3>1. 1..Len(r) = 1..Len(q) \cup {Len(q) + 1}
      BY <1>1
    <3> QED BY <1>1, <3>1
  <2> QED BY <1>1, <2>1, InToSet
<1> QED BY <1>2 DEF r

\* Sequences of one, two and three entries.
LEMMA OneEntry ==
  ASSUME NEW S, NEW s \in Seq(S), Len(s) = 1
  PROVE  s = <<s[1]>>
<1>1. s[1] \in S
  BY ElementOfSeq
<1>2. <<s[1]>> \in Seq(S) /\ Len(<<s[1]>>) = 1
  BY <1>1
<1>3. \A i \in 1..1 : s[i] = <<s[1]>>[i]
  OBVIOUS
<1> QED BY <1>2, <1>3, SeqEqual

LEMMA ShortLists ==
  ASSUME NEW a, NEW b, NEW c
  PROVE  /\ <<a>> \o <<b>> = <<a, b>>
         /\ Tail(<<a, b>>) = <<b>> /\ Tail(<<a, b, c>>) = <<b, c>>
         /\ SubSeq(<<a, b>>, 1, 1) = <<a>>
<1> DEFINE S == {a, b, c}
           p == <<a, b>>
           u == <<a>> \o <<b>>
           x == Tail(<<a, b>>)
           y == Tail(<<a, b, c>>)
           z == SubSeq(<<a, b>>, 1, 1)
<1>1. p \in Seq(S) /\ Len(p) = 2 /\ p[1] = a /\ p[2] = b
  OBVIOUS
<1>2. u \in Seq(S) /\ Len(u) = 2 /\ u[1] = a /\ u[2] = b
  OBVIOUS
<1>3. x \in Seq(S) /\ Len(x) = 1 /\ x[1] = b
  OBVIOUS
<1>4. y \in Seq(S) /\ Len(y) = 2 /\ y[1] = b /\ y[2] = c
  OBVIOUS
<1>5. z \in Seq(S) /\ Len(z) = 1 /\ z[1] = a
  OBVIOUS
<1>6. <<b, c>> \in Seq(S) /\ Len(<<b, c>>) = 2 /\ <<b, c>>[1] = b /\ <<b, c>>[2] = c
  OBVIOUS
<1>7. u = p
  <2> HIDE DEF u, p, S
  <2>1. \A i \in 1..Len(u) : u[i] = p[i]
    BY <1>1, <1>2
  <2> QED BY <1>1, <1>2, <2>1, SeqEqual
<1>8. x = <<b>> /\ z = <<a>>
  <2> HIDE DEF x, z, S
  <2> QED BY <1>3, <1>5, OneEntry
<1>9. y = <<b, c>>
  <2> DEFINE w == <<b, c>>
  <2> HIDE DEF y, S
  <2>1. w \in Seq(S) /\ Len(w) = 2 /\ w[1] = b /\ w[2] = c
    BY <1>6
  <2> HIDE DEF w
  <2>2. \A i \in 1..Len(y) : y[i] = w[i]
    BY <1>4, <2>1
  <2>3. y = w
    BY <1>4, <2>1, <2>2, SeqEqual
  <2> QED BY <2>3 DEF w
<1> QED BY <1>7, <1>8, <1>9

LEMMA PairAndOne == \A a, b, c : <<a, b>> \o <<c>> = <<a, b, c>>
<1>1. ASSUME NEW a, NEW b, NEW c PROVE <<a, b>> \o <<c>> = <<a, b, c>>
  <2> DEFINE v == <<a, b>> \o <<c>>
             q == <<a, b, c>>
             S == {a, b, c}
  <2>1. q \in Seq(S) /\ Len(q) = 3 /\ q[1] = a /\ q[2] = b /\ q[3] = c
    OBVIOUS
  <2>2. v \in Seq(S) /\ Len(v) = 3 /\ v[1] = a /\ v[2] = b /\ v[3] = c
    OBVIOUS
  <2> HIDE DEF v, q, S
  <2>3. \A i \in 1..Len(v) : v[i] = q[i]
    BY <2>1, <2>2
  <2>4. v = q
    BY <2>1, <2>2, <2>3, SeqEqual
  <2> QED BY <2>4 DEF v, q
<1> QED BY <1>1

LEMMA ToSetConcat ==
  ASSUME NEW S, NEW q \in Seq(S), NEW r \in Seq(S)
  PROVE  ToSet(q \o r) = ToSet(q) \cup ToSet(r)
<1> DEFINE t == q \o r
<1>1. /\ t \in Seq(S) /\ Len(q) \in Nat /\ Len(r) \in Nat /\ Len(t) = Len(q) + Len(r)
      /\ \A i \in 1..(Len(q) + Len(r)) : t[i] = IF i <= Len(q) THEN q[i] ELSE r[i - Len(q)]
  BY ConcatProperties, LenProperties
<1> HIDE DEF t
<1>2. ASSUME NEW y PROVE y \in ToSet(t) <=> y \in ToSet(q) \/ y \in ToSet(r)
  <2>1. ASSUME NEW n \in 1..Len(t), y = t[n]
        PROVE  (\E k \in 1..Len(q) : y = q[k]) \/ (\E k \in 1..Len(r) : y = r[k])
    <3>1. CASE n <= Len(q)
      BY <1>1, <2>1, <3>1
    <3>2. CASE n > Len(q)
      <4>1. n - Len(q) \in 1..Len(r) /\ y = r[n - Len(q)]
        BY <1>1, <2>1, <3>2
      <4> QED BY <4>1
    <3> QED BY <1>1, <3>1, <3>2
  <2>2. ASSUME NEW k \in 1..Len(q), y = q[k] PROVE \E n \in 1..Len(t) : y = t[n]
    <3>1. k \in 1..Len(t) /\ t[k] = y
      BY <1>1, <2>2
    <3> QED BY <3>1
  <2>3. ASSUME NEW k \in 1..Len(r), y = r[k] PROVE \E n \in 1..Len(t) : y = t[n]
    <3> DEFINE n == Len(q) + k
    <3>1. n \in 1..Len(t) /\ ~(n <= Len(q)) /\ n - Len(q) = k
      BY <1>1
    <3>2. t[n] = y
      BY <1>1, <2>3, <3>1
    <3> QED BY <3>1, <3>2
  <2>4. t \in Seq(S)
    BY <1>1
  <2>5. y \in ToSet(t) <=> \E n \in 1..Len(t) : y = t[n]
    BY <2>4, InToSet
  <2>6. y \in ToSet(q) <=> \E n \in 1..Len(q) : y = q[n]
    BY InToSet
  <2>7. y \in ToSet(r) <=> \E n \in 1..Len(r) : y = r[n]
    BY InToSet
  <2> QED BY <2>1, <2>2, <2>3, <2>5, <2>6, <2>7
<1> QED BY <1>2 DEF t

\* f[n] is what keep has of the first n entries.
keeps(f, S, s, T) ==
  /\ f \in [0..Len(s) -> Seq(S)]
  /\ f[0] = <<>> /\ keep(s, T) = f[Len(s)]
  /\ \A n \in 1..Len(s) : f[n] = IF s[n] \in T THEN Append(f[n - 1], s[n]) ELSE f[n - 1]

\* keep is the recursive function it is written as.
LEMMA KeepUnfolds ==
  ASSUME NEW S, NEW s \in Seq(S), NEW T
  PROVE  \E f : keeps(f, S, s, T)
<1> DEFINE N == Len(s)
           body(f) == [n \in 0..N |-> IF n = 0 THEN <<>>
                                       ELSE IF s[n] \in T THEN Append(f[n - 1], s[n]) ELSE f[n - 1]]
           G == [n \in 1..N |-> [q \in Seq(S) |-> IF s[n] \in T THEN Append(q, s[n]) ELSE q]]
           F == CHOOSE f : f = body(f)
<1>1. N \in Nat /\ <<>> \in Seq(S) /\ \A n \in 1..N : s[n] \in S
  OBVIOUS
<1>2. G \in [1..N -> [Seq(S) -> Seq(S)]]
  BY <1>1
<1>3. \A n \in 1..N, q \in Seq(S) : G[n][q] = IF s[n] \in T THEN Append(q, s[n]) ELSE q
  OBVIOUS
<1>4. PICK f \in [0..N -> Seq(S)] : f[0] = <<>> /\ \A n \in 1..N : f[n] = G[n][f[n - 1]]
  <2> DEFINE Q == Seq(S)
             e == <<>>
  <2>1. N \in Nat
    BY <1>1
  <2>2. e \in Q
    BY <1>1
  <2>3. G \in [1..N -> [Q -> Q]]
    BY <1>2
  <2> HIDE DEF G, N, Q, e
  <2>4. \E f : iterates(f, N, Q, e, G)
    BY <2>1, <2>2, <2>3, IterationExists
  <2> QED BY <2>4 DEF Q, e, iterates
<1>5. \A n \in 1..N : f[n - 1] \in Seq(S)
  BY <1>1, <1>4
<1>6. f = body(f)
  <2>1. \A n \in 1..N : f[n] = IF s[n] \in T THEN Append(f[n - 1], s[n]) ELSE f[n - 1]
    <3> HIDE DEF G
    <3> QED BY <1>3, <1>4, <1>5
  <2>2. ASSUME NEW n \in 0..N PROVE f[n] = body(f)[n]
    <3>1. CASE n = 0
      BY <1>4, <3>1
    <3>2. CASE n # 0
      <4>1. n \in 1..N
        BY <3>2
      <4> QED BY <2>1, <3>2, <4>1
    <3> QED BY <3>1, <3>2
  <2> HIDE DEF G
  <2> QED BY <1>4, <2>2
<1>7. F = body(F)
  <2> HIDE DEF body
  <2> QED BY <1>6
<1>8. /\ F[0] = <<>> /\ DOMAIN F = 0..N
      /\ \A n \in 1..N : F[n] = IF s[n] \in T THEN Append(F[n - 1], s[n]) ELSE F[n - 1]
  <2> HIDE DEF F
  <2>1. DOMAIN F = 0..N
    BY <1>7
  <2>2. \A n \in 0..N : F[n] = body(F)[n]
    BY <1>7
  <2>3. F[0] = <<>>
    BY <2>2, <1>1
  <2>4. ASSUME NEW n \in 1..N PROVE F[n] = IF s[n] \in T THEN Append(F[n - 1], s[n]) ELSE F[n - 1]
    <3>1. n \in 0..N /\ n # 0
      BY <1>1
    <3> QED BY <2>2, <3>1
  <2> QED BY <2>1, <2>3, <2>4
<1>9. keep(s, T) = F[N]
  BY DEF keep
<1>10. \A n \in 0..N : F[n] \in Seq(S)
  <2> DEFINE P == {n \in 0..N : F[n] \in Seq(S)}
  <2> HIDE DEF F
  <2>1. 0 \in P
    <3>1. F[0] = <<>> /\ 0 \in 0..N
      BY <1>1, <1>8
    <3> QED BY <1>1, <3>1
  <2>2. ASSUME NEW n \in 1..N, n - 1 \in P PROVE n \in P
    <3>1. F[n - 1] \in Seq(S) /\ s[n] \in S
      BY <1>1, <2>2
    <3>2. Append(F[n - 1], s[n]) \in Seq(S)
      BY <3>1, AppendProperties
    <3>3. F[n] \in {F[n - 1], Append(F[n - 1], s[n])}
      BY <1>8
    <3>4. F[n] \in Seq(S)
      BY <3>1, <3>2, <3>3
    <3>5. n \in 0..N
      BY <1>1
    <3> QED BY <3>4, <3>5
  <2> HIDE DEF P
  <2>3. 0..N \subseteq P
    BY <1>1, <2>1, <2>2, BoundedInduction
  <2> QED BY <2>3 DEF P
<1>11. F \in [0..N -> Seq(S)]
  <2>1. F = [n \in 0..N |-> F[n]]
    BY <1>7, <1>8
  <2> HIDE DEF F
  <2> QED BY <1>10, <2>1
<1> HIDE DEF F
<1> QED BY <1>8, <1>9, <1>11 DEF keeps

\* keep has the members of T, no others, and is a sequence.
LEMMA KeepProperties ==
  ASSUME NEW S, NEW s \in Seq(S), NEW T
  PROVE  keep(s, T) \in Seq(S) /\ ToSet(keep(s, T)) = ToSet(s) \cap T
<1> DEFINE N == Len(s)
<1>1. PICK f : keeps(f, S, s, T)
  BY KeepUnfolds
<1> DEFINE P == {n \in 0..N : ToSet(f[n]) = {s[k] : k \in 1..n} \cap T}
<1>2. N \in Nat /\ (\A n \in 1..N : s[n] \in S) /\ DOMAIN s = 1..N
  OBVIOUS
<1>3. 0 \in P
  BY <1>1 DEF keeps, ToSet
<1>4. ASSUME NEW n \in 1..N, n - 1 \in P PROVE n \in P
  <2>1. {s[k] : k \in 1..n} = {s[k] : k \in 1..(n - 1)} \cup {s[n]}
    <3>1. 1..n = 1..(n - 1) \cup {n}
      BY <1>2
    <3> QED BY <3>1
  <2>2. f[n - 1] \in Seq(S) /\ s[n] \in S /\ n \in 0..N
    BY <1>1, <1>2 DEF keeps
  <2>3. ToSet(f[n - 1]) = {s[k] : k \in 1..(n - 1)} \cap T
    BY <1>4
  <2>4. f[n] = IF s[n] \in T THEN Append(f[n - 1], s[n]) ELSE f[n - 1]
    BY <1>1 DEF keeps
  <2>5. ToSet(Append(f[n - 1], s[n])) = ToSet(f[n - 1]) \cup {s[n]}
    BY <2>2, ToSetAppend
  <2>6. ToSet(f[n]) = {s[k] : k \in 1..n} \cap T
    BY <2>1, <2>3, <2>4, <2>5
  <2> QED BY <2>2, <2>6
<1>5. 0..N \subseteq P
  <2> HIDE DEF P, N
  <2> QED BY <1>2, <1>3, <1>4, BoundedInduction
<1>6. ToSet(f[N]) = {s[k] : k \in 1..N} \cap T
  BY <1>2, <1>5
<1>7. f[N] \in Seq(S) /\ keep(s, T) = f[N]
  BY <1>1, <1>2 DEF keeps
<1>8. ToSet(s) = {s[k] : k \in 1..N}
  BY <1>2 DEF ToSet
<1> QED BY <1>6, <1>7, <1>8
=============================================================================
