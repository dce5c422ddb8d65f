--------------------------- MODULE RoutingProofs ---------------------------
(***************************************************************************)
(* What the pure functions of Routing compute, for every reference, rule,  *)
(* prefix and credential: the lemmas that StartupProofs needs about them.  *)
(***************************************************************************)
EXTENDS Routing, ListsProofs, FiniteSetTheorems

-----------------------------------------------------------------------------
(* References. *)

\* lower works token by token, and leaves alone what the parser looks at.
LEMMA LowerProperties ==
  ASSUME NEW S, NEW s \in Seq(S)
  PROVE  /\ isSequence(lower(s)) /\ Len(lower(s)) = Len(s)
         /\ \A n \in 1..Len(s) :
              /\ lower(s)[n] = IF s[n] \in DOMAIN LowerCase THEN LowerCase[s[n]] ELSE s[n]
              /\ lower(s)[n] = "/" <=> s[n] = "/"
              /\ lower(s)[n] = ":" <=> s[n] = ":"
              /\ lower(s)[n] \in Dotted <=> s[n] \in Dotted
<1> DEFINE N == Len(s)
           r == lower(s)
<1>1. N \in Nat /\ DOMAIN s = 1..N
  BY LenProperties
<1>2. r = [n \in 1..N |-> IF s[n] \in DOMAIN LowerCase THEN LowerCase[s[n]] ELSE s[n]]
  BY <1>1 DEF lower
<1>3. \A n \in 1..N : r[n] \in ToSet(r)
  BY <1>2 DEF ToSet
<1>4. r \in Seq(ToSet(r)) /\ Len(r) = N
  <2>1. r \in [1..N -> ToSet(r)]
    BY <1>2, <1>3
  <2> HIDE DEF r, N
  <2> QED BY <1>1, <2>1
<1> QED BY <1>2, <1>4, TokenAssumption DEF isSequence

\* The first slash, or 0.
LEMMA FirstSlash ==
  ASSUME NEW S, NEW s \in Seq(S)
  PROVE  \/ firstSlash(s) = 0 /\ \A k \in 1..Len(s) : s[k] # "/"
         \/ /\ firstSlash(s) \in 1..Len(s) /\ s[firstSlash(s)] = "/"
            /\ \A k \in 1..Len(s) : k < firstSlash(s) => s[k] # "/"
<1> DEFINE I == {k \in 1..Len(s) : s[k] = "/"}
<1>1. firstSlash(s) = IF I # {} THEN Min(I) ELSE 0
  BY DEF firstSlash, SelectInSeq
<1>2. CASE I = {}
  BY <1>1, <1>2
<1>3. CASE I # {}
  <2>1. I \in SUBSET Nat
    OBVIOUS
  <2> DEFINE m == Min(I)
  <2>2. m \in I /\ \A y \in I : m <= y
    <3> HIDE DEF I
    <3>1. \E x \in I : \A y \in I : x <= y
      BY <1>3, <2>1, LeastElement
    <3> QED BY <3>1 DEF Min
  <2>3. firstSlash(s) = m
    BY <1>1, <1>3
  <2> HIDE DEF m
  <2> QED BY <2>2, <2>3
<1> QED BY <1>2, <1>3

LEMMA LowerKeepsHost ==
  ASSUME NEW S, NEW s \in Seq(S)
  PROVE  firstSlash(lower(s)) = firstSlash(s) /\ (isHost(lower(s)) <=> isHost(s))
<1> DEFINE r == lower(s)
           N == Len(s)
<1>1. /\ N \in Nat /\ Len(r) = N
      /\ \A n \in 1..N : (r[n] = "/" <=> s[n] = "/") /\ (r[n] = ":" <=> s[n] = ":") /\ (r[n] \in Dotted <=> s[n] \in Dotted)
  BY LowerProperties, LenProperties
<1> HIDE DEF r
<1>2. {k \in 1..Len(r) : r[k] = "/"} = {k \in 1..Len(s) : s[k] = "/"}
  BY <1>1
<1>3. firstSlash(r) = firstSlash(s)
  BY <1>2 DEF firstSlash, SelectInSeq
<1>4. \A n \in 1..(firstSlash(s) - 1) : n \in 1..N
  BY <1>1, FirstSlash
<1>5. isHost(r) <=> isHost(s)
  BY <1>1, <1>3, <1>4 DEF isHost
<1> QED BY <1>3, <1>5 DEF r

\* A host of one name.
LEMMA OneNameHost ==
  ASSUME NEW S, NEW s \in Seq(S), Len(s) >= 2, s[1] \in Dotted, s[2] = "/"
  PROVE  firstSlash(s) = 2 /\ isHost(s)
<1>1. Len(s) \in Nat /\ s[1] # "/"
  BY TokenAssumption
<1>2. firstSlash(s) = 2
  BY <1>1, FirstSlash
<1>3. 1 \in 1..(firstSlash(s) - 1)
  BY <1>2
<1> QED BY <1>2, <1>3 DEF isHost

\* What the functions below start from.
LEMMA ReferenceProperties ==
  ASSUME NEW src, isReference(src)
  PROVE  /\ src \in Seq(ToSet(src)) /\ lower(src) \in Seq(ToSet(lower(src)))
         /\ Len(src) \in Nat \ {0} /\ Len(lower(src)) = Len(src) /\ lower(src) # <<>>
         /\ stripScheme(lower(src)) = lower(src)
         /\ firstSlash(src) = 0 \/ firstSlash(src) \in 2..Len(src)
<1>1. src \in Seq(ToSet(src)) /\ src # <<>> /\ lower(src)[1] \notin Schemes /\ lower(src)[1] # "/"
  BY DEF isReference, isSequence
<1>2. Len(src) \in Nat \ {0}
  BY <1>1, EmptySeq
<1>3. lower(src) \in Seq(ToSet(lower(src))) /\ Len(lower(src)) = Len(src)
  BY <1>1, LowerProperties DEF isSequence
<1>4. lower(src) # <<>>
  BY <1>2, <1>3, EmptySeq
<1>5. stripScheme(lower(src)) = lower(src)
  BY <1>1 DEF stripScheme
<1>6. src[1] # "/"
  <2>1. 1 \in 1..Len(src)
    BY <1>2
  <2> QED BY <1>1, <2>1, LowerProperties
<1>7. firstSlash(src) = 0 \/ firstSlash(src) \in 2..Len(src)
  BY <1>1, <1>2, <1>6, FirstSlash
<1> QED BY <1>1, <1>2, <1>3, <1>4, <1>5, <1>7

LEMMA LowerPrefix ==
  ASSUME NEW S, NEW s \in Seq(S), NEW n \in 0..Len(s)
  PROVE  lower(SubSeq(s, 1, n)) = SubSeq(lower(s), 1, n)
<1> DEFINE p == SubSeq(s, 1, n)
           r == lower(s)
           low(t) == IF t \in DOMAIN LowerCase THEN LowerCase[t] ELSE t
<1>1. Len(s) \in Nat /\ Len(r) = Len(s) /\ r \in Seq(ToSet(r)) /\ \A k \in 1..Len(s) : r[k] = low(s[k])
  BY LowerProperties, LenProperties DEF isSequence
<1>2. p = [k \in 1..n |-> s[k]]
  BY <1>1
<1>3. lower(p) = [k \in 1..n |-> low(s[k])]
  BY <1>2 DEF lower
<1> HIDE DEF low, r
<1>4. SubSeq(r, 1, n) = [k \in 1..n |-> r[k]]
  BY <1>1
<1>5. \A k \in 1..n : k \in 1..Len(s)
  BY <1>1
<1> QED BY <1>1, <1>3, <1>4, <1>5 DEF r

\* Docker Hub's names have no capitals.
LEMMA LowerHub == lower(<<"docker.io">>) = <<"docker.io">> /\ lower(hub) = hub
<1>1. \A t : t \notin DOMAIN LowerCase => lower(<<t>>) = <<t>>
  BY DEF lower
<1> QED BY <1>1, TokenAssumption DEF hub

\* The label of an image, by the shape of its first component.
LEMMA LabelOfReference ==
  ASSUME NEW image, isReference(image)
  PROVE  registryLabel(image) = lower(metaRegistry(image)) \/ lower(image)[1] \in {"index.docker.io", "localhost"}
<1> DEFINE s == lower(image)
           fs == firstSlash(image)
           host == SubSeq(image, 1, fs - 1)
           first == SubSeq(s, 1, fs - 1)
<1>1. /\ image \in Seq(ToSet(image)) /\ s \in Seq(ToSet(s)) /\ s # <<>> /\ stripScheme(s) = s
      /\ Len(image) \in Nat \ {0} /\ Len(s) = Len(image) /\ (fs = 0 \/ fs \in 2..Len(image))
  BY ReferenceProperties
<1>2. firstSlash(s) = fs /\ (isHost(s) <=> isHost(image))
  BY <1>1, LowerKeepsHost
<1>3. registryLabel(image) =
        CASE s = <<>> \/ (fs # 0 /\ first = <<>>) -> <<>>
          [] fs > 1 /\ (isHost(s) \/ first = <<"localhost">>) -> first
          [] OTHER -> <<"docker.io">>
  BY <1>1, <1>2 DEF registryLabel
<1>4. metaRegistry(image) = IF ~isHost(image) \/ host \in {<<"docker.io">>, hub} THEN <<"docker.io">> ELSE host
  BY DEF metaRegistry, registryStr
<1> HIDE DEF s, fs
<1>5. CASE fs = 0
  <2>1. ~isHost(image)
    BY <1>5 DEF isHost, fs
  <2> QED BY <1>1, <1>3, <1>4, <1>5, <2>1, LowerHub
<1>6. CASE fs # 0
  <2>1. fs - 1 \in 0..Len(image) /\ fs - 1 \in 1..Len(image)
    BY <1>1, <1>6
  <2>2. lower(host) = first
    BY <1>1, <2>1, LowerPrefix DEF s
  <2>3. Len(first) = fs - 1 /\ first[1] = s[1] /\ Len(host) = fs - 1 /\ host[1] = image[1]
    BY <1>1, <2>1
  <2> HIDE DEF host, first
  <2>4. first # <<>>
    BY <1>1, <2>1, <2>3
  <2>5. CASE ~isHost(image)
    <3>1. CASE first = <<"localhost">>
      BY <2>3, <3>1 DEF s
    <3>2. CASE first # <<"localhost">>
      BY <1>1, <1>2, <1>3, <1>4, <2>4, <2>5, <3>2, LowerHub
    <3> QED BY <3>1, <3>2
  <2>6. CASE isHost(image)
    <3>1. registryLabel(image) = lower(host)
      BY <1>1, <1>2, <1>3, <1>6, <2>2, <2>4, <2>6
    <3>2. CASE host = hub
      BY <2>2, <2>3, <3>2, LowerHub DEF hub, s
    <3>3. CASE host # hub
      BY <1>4, <2>6, <3>1, <3>3
    <3> QED BY <3>2, <3>3
  <2> QED BY <2>5, <2>6
<1> QED BY <1>5, <1>6

-----------------------------------------------------------------------------
(* Exclusions. *)

\* The name under which both sides are compared.
comparedAs(h) == IF h = "index.docker.io" THEN "docker.io" ELSE h

\* What is pulled from h is compared as a path under h.
LEMMA PulledImage ==
  ASSUME NEW image, isReference(image), NEW h \in Dotted,
         lower(registryStr(image)) = <<h>> \/ (lower(registryStr(image)) = hub /\ h = "docker.io")
  PROVE  LET r == normalizeImageReference(image) IN
         Len(r) \in Nat /\ Len(r) >= 2 /\ r[1] = comparedAs(h) /\ r[2] = "/"
<1> DEFINE s == lower(image)
           fs == firstSlash(image)
           host == SubSeq(image, 1, fs - 1)
           t == IF underHub(s) THEN <<"docker.io">> \o Tail(s) ELSE s
           r == normalizeImageReference(image)
<1>1. /\ image \in Seq(ToSet(image)) /\ s \in Seq(ToSet(s)) /\ s # <<>> /\ stripScheme(s) = s
      /\ Len(image) \in Nat \ {0} /\ Len(s) = Len(image) /\ (fs = 0 \/ fs \in 2..Len(image))
  BY ReferenceProperties
<1>2. firstSlash(s) = fs /\ (isHost(s) <=> isHost(image))
  BY <1>1, LowerKeepsHost
<1>3. r = CASE t = <<>> -> t
            [] t # <<>> /\ firstSlash(t) = 0 -> <<"docker.io", "/", "library", "/">> \o t
            [] firstSlash(t) # 0 /\ ~isHost(t) -> <<"docker.io", "/">> \o t
            [] OTHER -> t
  BY <1>1 DEF normalizeImageReference
<1>4. registryStr(image) = IF ~isHost(image) \/ host = <<"docker.io">> THEN hub ELSE host
  BY DEF registryStr
<1> HIDE DEF s, fs, r
<1>5. ASSUME fs # 0
      PROVE  /\ lower(host) = SubSeq(s, 1, fs - 1) /\ Len(lower(host)) = fs - 1 /\ lower(host)[1] = s[1]
             /\ s[fs] = "/"
  <2>1. fs - 1 \in 0..Len(image) /\ fs - 1 \in 1..Len(image)
    BY <1>1, <1>5
  <2>2. lower(host) = SubSeq(s, 1, fs - 1)
    BY <1>1, <2>1, LowerPrefix DEF s
  <2>3. s[fs] = "/"
    BY <1>1, <1>2, <1>5, FirstSlash
  <2> QED BY <1>1, <2>1, <2>2, <2>3
<1>6. lower(registryStr(image)) = hub => comparedAs(h) = "docker.io"
  BY DEF comparedAs, hub
<1>7. ~isHost(image) => lower(registryStr(image)) = hub
  BY <1>4, LowerHub
<1>8. CASE underHub(s)
  <2>1. s[1] = "index.docker.io" /\ s[2] = "/" /\ Len(s) >= 2
    BY <1>1, <1>8 DEF underHub
  <2>2. fs = 2 /\ isHost(image)
    BY <1>1, <1>2, <2>1, OneNameHost, TokenAssumption
  <2>3. lower(host) = hub
    <3>1. SubSeq(s, 1, 1) \in Seq(ToSet(s)) /\ Len(SubSeq(s, 1, 1)) = 1 /\ SubSeq(s, 1, 1)[1] = s[1]
      BY <1>1, <2>1
    <3>2. SubSeq(s, 1, 1) = <<s[1]>>
      BY <3>1, OneEntry
    <3> QED BY <1>5, <2>1, <2>2, <3>2 DEF hub
  <2>4. lower(registryStr(image)) = hub
    BY <1>4, <2>3, LowerHub
  <2>5. t \in Seq(ToSet(s) \cup {"docker.io"}) /\ Len(t) = Len(s) /\ t[1] = "docker.io" /\ t[2] = "/"
    BY <1>1, <1>8, <2>1
  <2> HIDE DEF t
  <2>6. firstSlash(t) = 2 /\ isHost(t) /\ t # <<>>
    BY <1>1, <2>1, <2>5, OneNameHost, TokenAssumption
  <2>7. r = t
    BY <1>3, <2>6
  <2> QED BY <1>1, <1>6, <2>1, <2>4, <2>5, <2>7 DEF r
<1>9. CASE ~underHub(s) /\ ~isHost(image)
  <2>1. t = s
    BY <1>9
  <2> HIDE DEF t
  <2>2. CASE fs = 0
    <3>1. r = <<"docker.io", "/", "library", "/">> \o s
      BY <1>1, <1>2, <1>3, <2>1, <2>2
    <3> QED BY <1>1, <1>6, <1>7, <1>9, <3>1 DEF r
  <2>3. CASE fs # 0
    <3>1. r = <<"docker.io", "/">> \o s
      BY <1>1, <1>2, <1>3, <1>9, <2>1, <2>3
    <3> QED BY <1>1, <1>6, <1>7, <1>9, <3>1 DEF r
  <2> QED BY <2>2, <2>3
<1>10. CASE ~underHub(s) /\ isHost(image)
  <2>1. fs # 0
    BY <1>10 DEF isHost, fs
  <2>2. t = s
    BY <1>10
  <2>3. r = s
    <3> HIDE DEF t
    <3> QED BY <1>1, <1>2, <1>3, <1>10, <2>1, <2>2
  <2>4. CASE host = <<"docker.io">>
    <3>1. lower(host) = <<"docker.io">>
      BY <2>4, LowerHub
    <3>2. fs = 2 /\ s[1] = "docker.io"
      <4> HIDE DEF host
      <4> QED BY <1>1, <1>5, <2>1, <3>1
    <3>3. lower(registryStr(image)) = hub
      BY <1>4, <2>4, LowerHub
    <3> QED BY <1>1, <1>5, <1>6, <2>3, <3>2, <3>3 DEF r
  <2>5. CASE host # <<"docker.io">>
    <3>1. registryStr(image) = host
      BY <1>4, <1>10, <2>5
    <3> HIDE DEF host
    <3>2. \A x : lower(host) = <<x>> => fs = 2 /\ s[1] = x /\ s[2] = "/" /\ Len(s) >= 2
      BY <1>1, <1>5, <2>1
    <3>3. lower(host) # hub
      BY <1>10, <3>2 DEF hub, underHub
    <3>4. lower(host) = <<h>>
      BY <3>1, <3>3
    <3>5. comparedAs(h) = h
      BY <3>3, <3>4 DEF comparedAs, hub
    <3> QED BY <1>1, <2>3, <3>2, <3>4, <3>5 DEF r
  <2> QED BY <2>4, <2>5
<1> QED BY <1>8, <1>9, <1>10 DEF r

-----------------------------------------------------------------------------
(* Credentials. *)

\* What SelectInSeq finds is the first that passes; 0 means that none does.
LEMMA FirstMatch ==
  ASSUME NEW S, NEW s \in Seq(S), NEW host
  PROVE  LET n == SelectInSeq(s, LAMBDA a : <<a, host>> \in Matching) IN
         \/ n = 0 /\ \A k \in 1..Len(s) : <<s[k], host>> \notin Matching
         \/ n \in 1..Len(s) /\ <<s[n], host>> \in Matching
<1> DEFINE I == {k \in 1..Len(s) : <<s[k], host>> \in Matching}
<1>1. CASE I = {}
  BY <1>1 DEF SelectInSeq
<1>2. CASE I # {}
  <2>1. I \in SUBSET Nat
    OBVIOUS
  <2>2. \E x \in I : \A y \in I : x <= y
    <3> HIDE DEF I
    <3> QED BY <1>2, <2>1, LeastElement
  <2>3. Min(I) \in I
    <3> HIDE DEF I
    <3> QED BY <2>2 DEF Min
  <2>4. SelectInSeq(s, LAMBDA a : <<a, host>> \in Matching) = Min(I)
    BY <1>2 DEF SelectInSeq
  <2> QED BY <2>3, <2>4
<1> QED BY <1>1, <1>2

\* An order of a finite set is a sequence of its members, all of them.
LEMMA OrderIsComplete ==
  ASSUME NEW S, IsFiniteSet(S), NEW o \in SetToSeqs(S)
  PROVE  o \in Seq(S) /\ \A a \in S : \E k \in 1..Len(o) : o[k] = a
<1> DEFINE N == Cardinality(S)
           D == 1..N
<1>1. N \in Nat
  BY FS_CardinalityType
<1>2. o \in [D -> S] /\ \A i, j \in D : i # j => o[i] # o[j]
  BY DEF SetToSeqs
<1>3. o \in Seq(S) /\ Len(o) = N
  <2> HIDE DEF N
  <2> QED BY <1>1, <1>2
<1>4. ASSUME NEW a \in S, \A k \in D : o[k] # a PROVE FALSE
  <2> DEFINE T == S \ {a}
  <2>1. IsFiniteSet(T) /\ Cardinality(T) = N - 1
    BY FS_RemoveElement
  <2>2. IsFiniteSet(D) /\ Cardinality(D) = N
    <3> HIDE DEF N
    <3>1. 1 \in Int /\ N \in Int
      BY <1>1
    <3>2. IsFiniteSet(1..N) /\ Cardinality(1..N) = IF 1 > N THEN 0 ELSE N - 1 + 1
      BY <3>1, FS_Interval
    <3> QED BY <1>1, <3>2
  <2>3. o \in [D -> T]
    <3> HIDE DEF D
    <3> QED BY <1>2, <1>4
  <2> HIDE DEF D, T, N
  <2>4. Cardinality(T) < Cardinality(D)
    BY <1>1, <2>1, <2>2
  <2>5. \E x, y \in D : x # y /\ o[x] = o[y]
    BY <2>1, <2>2, <2>3, <2>4, FS_PigeonHole
  <2> QED BY <1>2, <2>5
<1> QED BY <1>3, <1>4

\* A keychain has finitely many names.
LEMMA KeychainIsFinite ==
  ASSUME NEW creds, isSequence(creds), \A n \in DOMAIN creds : IsFiniteSet(creds[n].aliases)
  PROVE  IsFiniteSet(patterns(buildKeychainFromConfig(creds)))
<1> DEFINE usable == {n \in DOMAIN creds : authenticator(creds[n]) # anonymous}
           names == {registryAliases(creds[n]) : n \in usable}
<1>1. IsFiniteSet(usable)
  <2>1. Len(creds) \in Nat /\ DOMAIN creds = 1..Len(creds)
    BY LenProperties DEF isSequence
  <2>2. 1 \in Int /\ Len(creds) \in Int
    BY <2>1
  <2>3. IsFiniteSet(1..Len(creds))
    BY <2>2, FS_Interval
  <2>4. usable \in SUBSET (1..Len(creds))
    BY <2>1
  <2> QED BY <2>3, <2>4, FS_Subset
<1>2. IsFiniteSet(names)
  <2> DEFINE f == [n \in usable |-> registryAliases(creds[n])]
  <2>1. f \in Surjection(usable, names)
    BY DEF Surjection
  <2> HIDE DEF f, usable, names
  <2> QED BY <1>1, <2>1, FS_Surjection
<1>3. ASSUME NEW T \in names PROVE IsFiniteSet(T)
  <2>1. PICK n \in usable : T = registryAliases(creds[n])
    OBVIOUS
  <2> DEFINE given == {creds[n].registry} \cup creds[n].aliases
             lowered == {lower(a) : a \in given}
             f == [a \in given |-> lower(a)]
  <2>2. IsFiniteSet(given)
    <3>1. IsFiniteSet(creds[n].aliases)
      OBVIOUS
    <3>2. IsFiniteSet({creds[n].registry})
      BY FS_Singleton
    <3> QED BY <3>1, <3>2, FS_Union
  <2>3. f \in Surjection(given, lowered)
    BY DEF Surjection
  <2>4. IsFiniteSet(lowered)
    <3> HIDE DEF f, given, lowered
    <3> QED BY <2>2, <2>3, FS_Surjection
  <2>5. T \in SUBSET lowered
    BY <2>1 DEF registryAliases
  <2> HIDE DEF lowered
  <2> QED BY <2>4, <2>5, FS_Subset
<1>4. IsFiniteSet(UNION names)
  <2> HIDE DEF names
  <2> QED BY <1>2, <1>3, FS_UNION
<1>5. patterns(buildKeychainFromConfig(creds)) \in SUBSET (UNION names)
  BY DEF patterns, buildKeychainFromConfig
<1> HIDE DEF names
<1> QED BY <1>4, <1>5, FS_Subset

-----------------------------------------------------------------------------
(* Names of repositories. *)

\* t is found in s, entry by entry.
within(t, s) == \E k \in Nat : k + Len(t) <= Len(s) /\ \A n \in 1..Len(t) : t[n] = s[k + n]

LEMMA WithinKeepsSegments ==
  ASSUME NEW S, NEW s \in Seq(S), NEW t \in Seq(S), within(t, s), doubled(t)
  PROVE  doubled(s)
<1>1. PICK k \in Nat : k + Len(t) <= Len(s) /\ \A n \in 1..Len(t) : t[n] = s[k + n]
  BY DEF within
<1>2. PICK n \in 2..Len(t) : t[n - 1] = "/" /\ t[n] = "/"
  BY DEF doubled
<1>3. Len(s) \in Nat /\ Len(t) \in Nat
  OBVIOUS
<1>4. n \in 1..Len(t) /\ n - 1 \in 1..Len(t) /\ k + n \in 2..Len(s) /\ (k + n) - 1 = k + (n - 1)
  BY <1>1, <1>3
<1> QED BY <1>1, <1>2, <1>4 DEF doubled

LEMMA BodyProperties ==
  ASSUME NEW S, NEW s \in Seq(S), body(s) # {}
  PROVE  /\ Min(body(s)) \in 1..Len(s) /\ Max(body(s)) \in 1..Len(s) /\ Min(body(s)) <= Max(body(s))
         /\ s[Min(body(s))] \notin Separators /\ s[Max(body(s))] \notin Separators
         /\ \A n \in 1..Len(s) : s[n] \notin Separators => Min(body(s)) <= n /\ n <= Max(body(s))
<1> DEFINE B == body(s)
<1>1. Len(s) \in Nat /\ B = {n \in 1..Len(s) : s[n] \notin Separators}
  BY LenProperties DEF body
<1>2. B \in SUBSET (0..Len(s)) /\ B \in SUBSET Nat /\ B # {}
  BY <1>1
<1> HIDE DEF B
<1>3. Min(B) \in B /\ \A y \in B : Min(B) <= y
  <2>1. \E x \in B : \A y \in B : x <= y
    BY <1>2, LeastElement
  <2> QED BY <2>1 DEF Min
<1>4. Max(B) \in B /\ \A y \in B : Max(B) >= y
  <2>1. \E x \in B : \A y \in B : y <= x
    BY <1>1, <1>2, GreatestElement
  <2>2. \E x \in B : \A y \in B : x >= y
    BY <1>2, <2>1
  <2> QED BY <2>2 DEF Max
<1> QED BY <1>1, <1>2, <1>3, <1>4 DEF B

LEMMA TrimProperties ==
  ASSUME NEW S, NEW s \in Seq(S)
  PROVE  /\ trim(s) \in Seq(S) /\ within(trim(s), s)
         /\ trim(s) # <<>> => trim(s)[1] \notin Separators /\ Last(trim(s)) \notin Separators
         /\ s # <<>> /\ s[1] \notin Separators /\ Last(s) \notin Separators => trim(s) = s
<1>0. Len(s) \in Nat
  OBVIOUS
<1>1. CASE body(s) = {}
  <2>1. trim(s) = <<>>
    BY <1>1 DEF trim
  <2>2. within(<<>>, s)
    BY <1>0 DEF within
  <2>3. s # <<>> => s[1] \in Separators
    BY <1>0, <1>1, LenProperties, EmptySeq DEF body
  <2> QED BY <2>1, <2>2, <2>3
<1>2. CASE body(s) # {}
  <2> DEFINE a == Min(body(s))
             b == Max(body(s))
             t == SubSeq(s, a, b)
  <2>1. /\ a \in 1..Len(s) /\ b \in 1..Len(s) /\ a <= b /\ s[a] \notin Separators /\ s[b] \notin Separators
        /\ \A n \in 1..Len(s) : s[n] \notin Separators => a <= n /\ n <= b
    BY <1>2, BodyProperties
  <2>2. trim(s) = t
    BY <1>2 DEF trim
  <2> HIDE DEF a, b
  <2>3. t \in Seq(S) /\ Len(t) = b - a + 1 /\ \A n \in 1..(b - a + 1) : t[n] = s[a + n - 1]
    BY <1>0, <2>1
  <2>4. within(t, s)
    <3> HIDE DEF t
    <3>1. a - 1 \in Nat /\ (a - 1) + Len(t) <= Len(s) /\ \A n \in 1..Len(t) : t[n] = s[(a - 1) + n]
      BY <1>0, <2>1, <2>3
    <3> QED BY <3>1 DEF within
  <2>5. t[1] \notin Separators /\ Last(t) \notin Separators
    <3> HIDE DEF t
    <3> QED BY <1>0, <2>1, <2>3 DEF Last
  <2>6. ASSUME s[1] \notin Separators, Last(s) \notin Separators PROVE t = s
    <3>1. a = 1 /\ b = Len(s)
      BY <1>0, <2>1, <2>6 DEF Last
    <3> HIDE DEF t
    <3> QED BY <1>0, <2>3, <3>1, SeqEqual
  <2> HIDE DEF t
  <2> QED BY <2>2, <2>3, <2>4, <2>5, <2>6
<1> QED BY <1>1, <1>2

LEMMA TrimRightProperties ==
  ASSUME NEW S, NEW s \in Seq(S)
  PROVE  /\ trimRight(s) \in Seq(S) /\ Len(trimRight(s)) <= Len(s)
         /\ \A n \in 1..Len(trimRight(s)) : trimRight(s)[n] = s[n]
<1>0. Len(s) \in Nat
  OBVIOUS
<1>1. CASE body(s) = {}
  BY <1>0, <1>1 DEF trimRight
<1>2. CASE body(s) # {}
  <2> DEFINE b == Max(body(s))
             t == SubSeq(s, 1, b)
  <2>1. b \in 1..Len(s)
    BY <1>2, BodyProperties
  <2>2. trimRight(s) = t
    BY <1>2 DEF trimRight
  <2> HIDE DEF b
  <2>3. t \in Seq(S) /\ Len(t) = b /\ \A n \in 1..b : t[n] = s[n]
    BY <1>0, <2>1
  <2> HIDE DEF t
  <2> QED BY <1>0, <2>1, <2>2, <2>3
<1> QED BY <1>1, <1>2

\* Nothing but small letters and what a repository may have.
allowedOnly(s) == \A n \in 1..Len(s) : s[n] \notin Unusual \cup DOMAIN LowerCase

acceptable(r) ==
  /\ isSequence(r) /\ Len(r) \in 1..MaxRepoName
  /\ r[1] \notin Separators /\ Last(r) \notin Separators
  /\ allowedOnly(r)

LEMMA SpelledProperties ==
  ASSUME NEW p, isSequence(p)
  PROVE  /\ isSequence(spelled(p)) /\ allowedOnly(spelled(p))
         /\ spelled(p) # <<>> => spelled(p)[1] \notin Separators /\ Last(spelled(p)) \notin Separators
         /\ doubled(spelled(p)) => doubled(p)
         /\ p # <<>> /\ p[1] \notin Separators /\ Last(p) \notin Separators /\ allowedOnly(p) => spelled(p) = p
<1> DEFINE N == Len(p)
           q == [n \in DOMAIN p |-> IF lower(p)[n] \in Unusual THEN "-" ELSE lower(p)[n]]
           s == trim(q)
           low(n) == lower(p)[n]
<1>0. p \in Seq(ToSet(p))
  BY DEF isSequence
<1>1. /\ N \in Nat /\ DOMAIN p = 1..N
      /\ \A n \in 1..N : low(n) = IF p[n] \in DOMAIN LowerCase THEN LowerCase[p[n]] ELSE p[n]
      /\ \A n \in 1..N : low(n) = "/" => p[n] = "/"
  BY <1>0, LowerProperties, LenProperties
<1> HIDE DEF low
<1>2. q = [n \in 1..N |-> IF low(n) \in Unusual THEN "-" ELSE low(n)]
  BY <1>1 DEF low
<1>21. \A n \in 1..N : q[n] = IF low(n) \in Unusual THEN "-" ELSE low(n)
  <2> HIDE DEF q
  <2> QED BY <1>2
<1>3. \A n \in 1..N : q[n] \notin Unusual \cup DOMAIN LowerCase
  <2> HIDE DEF q
  <2>1. "-" \notin Unusual \cup DOMAIN LowerCase
    BY SpellingAssumption DEF Separators
  <2>2. \A n \in 1..N : low(n) \notin DOMAIN LowerCase
    BY <1>1, TokenAssumption
  <2> QED BY <1>21, <2>1, <2>2
<1>4. \A n \in 1..N : q[n] = "/" => p[n] = "/"
  <2> HIDE DEF q
  <2> QED BY <1>1, <1>21
<1>5. q \in Seq(ToSet(q)) /\ Len(q) = N
  <2> HIDE DEF q, N
  <2>1. \A n \in 1..N : q[n] \in ToSet(q)
    BY <1>2 DEF ToSet
  <2>2. q \in [1..N -> ToSet(q)]
    BY <1>2, <2>1
  <2> QED BY <1>1, <2>2
<1>6. spelled(p) = s
  BY DEF spelled
<1>7. (\A n \in 1..N : p[n] \notin Unusual \cup DOMAIN LowerCase) => q = p
  <2>1. ASSUME \A n \in 1..N : p[n] \notin Unusual \cup DOMAIN LowerCase
        PROVE  \A n \in 1..N : q[n] = p[n]
    <3> HIDE DEF q
    <3> QED BY <1>1, <1>21, <2>1
  <2>2. p = [n \in 1..N |-> p[n]]
    BY <1>0, <1>1
  <2> HIDE DEF q
  <2> QED BY <1>2, <2>1, <2>2
<1> HIDE DEF q
<1>8. /\ s \in Seq(ToSet(q)) /\ within(s, q)
      /\ s # <<>> => s[1] \notin Separators /\ Last(s) \notin Separators
      /\ q # <<>> /\ q[1] \notin Separators /\ Last(q) \notin Separators => s = q
  BY <1>5, TrimProperties
<1> HIDE DEF s
<1>9. isSequence(s)
  BY <1>8, SeqIsSequence
<1>10. allowedOnly(s)
  <2>1. PICK k \in Nat : k + Len(s) <= Len(q) /\ \A n \in 1..Len(s) : s[n] = q[k + n]
    BY <1>8 DEF within
  <2>2. Len(s) \in Nat
    BY <1>8
  <2>3. \A n \in 1..Len(s) : k + n \in 1..N
    BY <1>1, <1>5, <2>1, <2>2
  <2> QED BY <1>3, <2>1, <2>3 DEF allowedOnly
<1>11. doubled(s) => doubled(p)
  <2>1. doubled(s) => doubled(q)
    BY <1>5, <1>8, WithinKeepsSegments
  <2>2. doubled(q) => doubled(p)
    BY <1>1, <1>4, <1>5 DEF doubled
  <2> QED BY <2>1, <2>2
<1>12. p # <<>> /\ p[1] \notin Separators /\ Last(p) \notin Separators /\ allowedOnly(p) => s = p
  BY <1>7, <1>8 DEF allowedOnly
<1> QED BY <1>6, <1>8, <1>9, <1>10, <1>11, <1>12

\* A name that is cut ends in its hash and is a name all the same.
LEMMA ShortenedProperties ==
  ASSUME NEW s, isSequence(s), Len(s) > MaxRepoName, allowedOnly(s), s[1] \notin Separators,
         Digest(s) \notin Separators \cup Unusual \cup DOMAIN LowerCase
  PROVE  acceptable(shortened(s)) /\ (doubled(shortened(s)) => doubled(s)) /\ Last(shortened(s)) = Digest(s)
<1> DEFINE M == MaxRepoName
           u == SubSeq(s, 1, M - 2)
           kept == trimRight(u)
           d == Digest(s)
           r == shortened(s)
           T == ToSet(s) \cup {"-", d}
<1>1. M \in Nat /\ M >= 4 /\ s \in Seq(ToSet(s)) /\ Len(s) \in Nat /\ Len(s) > M
  BY LengthAssumption DEF isSequence
<1>2. u \in Seq(ToSet(s)) /\ Len(u) = M - 2 /\ \A n \in 1..(M - 2) : u[n] = s[n]
  BY <1>1
<1> HIDE DEF u, M
<1>3. /\ kept \in Seq(ToSet(s)) /\ Len(kept) \in Nat /\ Len(kept) <= M - 2
      /\ \A n \in 1..Len(kept) : kept[n] = s[n]
  <2>1. kept \in Seq(ToSet(s)) /\ Len(kept) <= Len(u) /\ \A n \in 1..Len(kept) : kept[n] = u[n]
    BY <1>2, TrimRightProperties
  <2> HIDE DEF kept
  <2>2. Len(kept) \in Nat
    BY <2>1
  <2>3. \A n \in 1..Len(kept) : n \in 1..(M - 2)
    BY <1>1, <1>2, <2>1, <2>2
  <2> QED BY <1>2, <2>1, <2>2, <2>3
<1>4. r = (IF kept = <<>> THEN <<>> ELSE Append(kept, "-")) \o <<d>>
  BY DEF shortened, ShortDigest, u, M
<1>5. /\ "-" \notin Unusual \cup DOMAIN LowerCase /\ d \notin Separators \cup Unusual \cup DOMAIN LowerCase
      /\ d # "/" /\ "-" # "/"
  BY SpellingAssumption DEF Separators
<1> HIDE DEF kept, d, r
<1>6. CASE kept = <<>>
  <2>1. r \in Seq(T) /\ Len(r) = 1 /\ r[1] = d
    BY <1>4, <1>6
  <2>2. isSequence(r)
    BY <2>1, SeqIsSequence
  <2>3. acceptable(r) /\ Last(r) = d
    BY <1>1, <1>5, <2>1, <2>2 DEF acceptable, allowedOnly, Last, M
  <2>4. ~doubled(r)
    BY <2>1 DEF doubled
  <2> QED BY <2>3, <2>4 DEF r, d
<1>7. CASE kept # <<>>
  <2> DEFINE K == Len(kept)
  <2>1. K \in Nat \ {0}
    BY <1>3, <1>7, EmptySeq
  <2>2. /\ r \in Seq(T) /\ Len(r) = K + 2 /\ r[K + 1] = "-" /\ r[K + 2] = d
        /\ \A n \in 1..K : r[n] = kept[n]
    <3>1. kept \in Seq(T)
      BY <1>3, SeqMonotonic
    <3>2. r = Append(kept, "-") \o <<d>>
      BY <1>4, <1>7
    <3> QED BY <3>1, <3>2
  <2>3. \A n \in 1..K : r[n] = s[n] /\ n \in 1..Len(s)
    BY <1>1, <1>3, <2>1, <2>2
  <2>4. isSequence(r)
    BY <2>2, SeqIsSequence
  <2>5. allowedOnly(r)
    <3>1. ASSUME NEW n \in 1..(K + 2) PROVE r[n] \notin Unusual \cup DOMAIN LowerCase
      <4>1. CASE n \in 1..K
        BY <2>3, <4>1 DEF allowedOnly
      <4>2. CASE n = K + 1 \/ n = K + 2
        BY <1>5, <2>2, <4>2
      <4> QED BY <2>1, <4>1, <4>2
    <3> QED BY <2>2, <3>1 DEF allowedOnly
  <2>6. r[1] \notin Separators /\ Last(r) = d /\ Len(r) \in 1..M
    BY <1>1, <1>3, <2>1, <2>2, <2>3 DEF Last
  <2>7. acceptable(r)
    BY <1>5, <2>4, <2>5, <2>6 DEF acceptable, M
  <2>8. ASSUME NEW n \in 2..Len(r), r[n - 1] = "/", r[n] = "/" PROVE doubled(s)
    <3>1. n \in 2..K
      BY <1>5, <2>1, <2>2, <2>8
    <3>2. n \in 1..K /\ n - 1 \in 1..K /\ n \in 2..Len(s)
      BY <1>1, <1>3, <2>1, <3>1
    <3> QED BY <2>3, <2>8, <3>2 DEF doubled
  <2> QED BY <2>6, <2>7, <2>8 DEF doubled, r, d
<1> QED BY <1>6, <1>7

LEMMA CleanProperties ==
  ASSUME NEW p, isSequence(p),
         Len(spelled(p)) > MaxRepoName => Digest(spelled(p)) \notin Separators \cup Unusual \cup DOMAIN LowerCase
  PROVE  acceptable(CleanRepoName(p)) /\ (doubled(CleanRepoName(p)) => doubled(p))
<1> DEFINE s == spelled(p)
           unknown == <<"library", "/", "unknown">>
<1>1. /\ isSequence(s) /\ allowedOnly(s) /\ (doubled(s) => doubled(p))
      /\ s # <<>> => s[1] \notin Separators /\ Last(s) \notin Separators
  BY SpelledProperties
<1>2. CleanRepoName(p) = CASE s = <<>> -> unknown [] Len(s) > MaxRepoName -> shortened(s) [] OTHER -> s
  BY DEF CleanRepoName
<1> HIDE DEF s
<1>3. Len(s) \in Nat /\ (s # <<>> => Len(s) # 0) /\ MaxRepoName \in Nat /\ MaxRepoName >= 4
  BY <1>1, LengthAssumption, EmptySeq DEF isSequence
<1>4. CASE s = <<>>
  <2>1. /\ unknown \in Seq({"library", "/", "unknown"}) /\ Len(unknown) = 3
        /\ unknown[1] = "library" /\ unknown[2] = "/" /\ unknown[3] = "unknown"
    OBVIOUS
  <2>2. CleanRepoName(p) = unknown
    <3> HIDE DEF unknown
    <3>1. ~(Len(s) > MaxRepoName)
      BY <1>3, <1>4, EmptySeq
    <3> QED BY <1>2, <1>4, <3>1
  <2> HIDE DEF unknown
  <2>3. isSequence(unknown)
    BY <2>1, SeqIsSequence
  <2>4. allowedOnly(unknown)
    BY <2>1, SpellingAssumption DEF allowedOnly, Separators
  <2>5. acceptable(unknown)
    BY <1>3, <2>1, <2>3, <2>4 DEF acceptable, Separators, Last
  <2>6. ~doubled(unknown)
    BY <2>1 DEF doubled
  <2> QED BY <2>2, <2>5, <2>6
<1>5. CASE s # <<>> /\ Len(s) > MaxRepoName
  <2>1. CleanRepoName(p) = shortened(s)
    BY <1>2, <1>5, <1>3, EmptySeq
  <2>2. acceptable(shortened(s)) /\ (doubled(shortened(s)) => doubled(s))
    BY <1>1, <1>5, ShortenedProperties DEF s
  <2> QED BY <1>1, <2>1, <2>2
<1>6. CASE s # <<>> /\ ~(Len(s) > MaxRepoName)
  <2>1. CleanRepoName(p) = s
    BY <1>2, <1>6
  <2>2. acceptable(s)
    BY <1>1, <1>3, <1>6 DEF acceptable
  <2> QED BY <1>1, <2>1, <2>2
<1> QED BY <1>4, <1>5, <1>6

-----------------------------------------------------------------------------
(* Prefixes. *)

\* Names with single slashes between them.
segmented(q) == ~doubled(q) /\ (q # <<>> => q[1] # "/" /\ Last(q) # "/")

LEMMA SegmentAppended ==
  ASSUME NEW T, "/" \in T, NEW q \in Seq(T), segmented(q), NEW x \in T, x # "/"
  PROVE  /\ Append(q, x) \in Seq(T) /\ segmented(Append(q, x))
         /\ q # <<>> => q \o <<"/", x>> \in Seq(T) /\ segmented(q \o <<"/", x>>)
<1> DEFINE K == Len(q)
           a == Append(q, x)
           b == q \o <<"/", x>>
<1>1. /\ K \in Nat /\ a \in Seq(T) /\ Len(a) = K + 1 /\ a[K + 1] = x /\ \A n \in 1..K : a[n] = q[n]
      /\ b \in Seq(T) /\ Len(b) = K + 2 /\ b[K + 1] = "/" /\ b[K + 2] = x /\ \A n \in 1..K : b[n] = q[n]
      /\ q = <<>> => K = 0
      /\ q # <<>> => K # 0
  BY EmptySeq
<1>2. q # <<>> => q[1] # "/" /\ q[K] # "/"
  BY DEF segmented, Last
<1>3. \A n \in 2..K : ~(q[n - 1] = "/" /\ q[n] = "/")
  BY DEF segmented, doubled
<1> HIDE DEF a, b, K
<1>4. \A n \in 2..(K + 1) : ~(a[n - 1] = "/" /\ a[n] = "/")
  BY <1>1, <1>3
<1>5. segmented(a)
  BY <1>1, <1>2, <1>4 DEF segmented, doubled, Last
<1>6. q # <<>> => \A n \in 2..(K + 2) : ~(b[n - 1] = "/" /\ b[n] = "/")
  BY <1>1, <1>2, <1>3
<1>7. q # <<>> => segmented(b)
  BY <1>1, <1>2, <1>6 DEF segmented, doubled, Last
<1> QED BY <1>1, <1>5, <1>7 DEF a, b

\* The value of dropEmptySegments after an entry x with the entry y before it.
joins(q, y, x) == IF x = "/" THEN q ELSE IF q # <<>> /\ y = "/" THEN q \o <<"/", x>> ELSE Append(q, x)

drops(f, T, s) ==
  /\ f \in [0..Len(s) -> {q \in Seq(T) : segmented(q)}]
  /\ f[0] = <<>> /\ dropEmptySegments(s) = f[Len(s)]
  /\ \A n \in 1..Len(s) : f[n] = joins(f[n - 1], s[n - 1], s[n])

LEMMA DropUnfolds ==
  ASSUME NEW T, "/" \in T, NEW s \in Seq(T)
  PROVE  \E f : drops(f, T, s)
<1> DEFINE N == Len(s)
           S == {q \in Seq(T) : segmented(q)}
           rec(f) == [n \in 0..N |-> IF n = 0 THEN <<>>
                                     ELSE IF s[n] = "/" THEN f[n - 1]
                                     ELSE IF f[n - 1] # <<>> /\ s[n - 1] = "/" THEN f[n - 1] \o <<"/", s[n]>>
                                     ELSE Append(f[n - 1], s[n])]
           G == [n \in 1..N |-> [q \in S |-> joins(q, s[n - 1], s[n])]]
           F == CHOOSE f : f = rec(f)
<1>1. N \in Nat /\ \A n \in 1..N : s[n] \in T
  OBVIOUS
<1>2. <<>> \in S
  BY DEF segmented, doubled
<1>3. ASSUME NEW q \in S, NEW y, NEW x \in T PROVE joins(q, y, x) \in S
  <2>1. q \in Seq(T) /\ segmented(q)
    OBVIOUS
  <2>2. x # "/" => /\ Append(q, x) \in Seq(T) /\ segmented(Append(q, x))
                   /\ q # <<>> => q \o <<"/", x>> \in Seq(T) /\ segmented(q \o <<"/", x>>)
    BY <2>1, SegmentAppended
  <2> QED BY <2>1, <2>2 DEF joins
<1> HIDE DEF S
<1>4. G \in [1..N -> [S -> S]]
  BY <1>1, <1>3
<1>5. PICK f : iterates(f, N, S, <<>>, G)
  <2> HIDE DEF G, N
  <2> QED BY <1>1, <1>2, <1>4, IterationExists
<1>6. f = rec(f)
  <2>1. f \in [0..N -> S] /\ f[0] = <<>>
    BY <1>5 DEF iterates
  <2>2. ASSUME NEW n \in 1..N PROVE f[n] = joins(f[n - 1], s[n - 1], s[n])
    <3>1. f[n - 1] \in S
      BY <1>1, <2>1
    <3>2. f[n] = G[n][f[n - 1]]
      BY <1>5 DEF iterates
    <3> QED BY <3>1, <3>2
  <2>3. ASSUME NEW n \in 0..N PROVE f[n] = rec(f)[n]
    <3>1. CASE n = 0
      BY <2>1, <3>1
    <3>2. CASE n # 0
      <4>1. n \in 1..N
        BY <1>1, <3>2
      <4> QED BY <2>2, <3>2, <4>1 DEF joins
    <3> QED BY <3>1, <3>2
  <2> QED BY <2>1, <2>3
<1>7. F = rec(F)
  <2> HIDE DEF rec
  <2> QED BY <1>6
<1>8. dropEmptySegments(s) = F[N]
  BY DEF dropEmptySegments
<1> HIDE DEF F
<1>9. \A n \in 0..N : F[n] = rec(F)[n]
  BY <1>7
<1>10. F[0] = <<>>
  <2>1. 0 \in 0..N
    BY <1>1
  <2>2. rec(F)[0] = <<>>
    BY <2>1
  <2> HIDE DEF rec
  <2> QED BY <1>9, <2>1, <2>2
<1>11. ASSUME NEW n \in 1..N PROVE F[n] = joins(F[n - 1], s[n - 1], s[n])
  <2>1. n \in 0..N /\ n # 0
    BY <1>1
  <2> QED BY <1>9, <2>1 DEF joins
<1>12. \A n \in 0..N : F[n] \in S
  <2>1. \A n \in 1..N : F[n - 1] \in S => F[n] \in S
    BY <1>1, <1>3, <1>11
  <2>2. F[0] \in S
    BY <1>2, <1>10
  <2> HIDE DEF N
  <2> QED BY <1>1, <2>1, <2>2, IterationTyped
<1>13. F \in [0..N -> S]
  <2>1. F = [n \in 0..N |-> F[n]]
    BY <1>7
  <2> QED BY <1>12, <2>1
<1> QED BY <1>8, <1>10, <1>11, <1>13 DEF drops, S

LEMMA DropProperties ==
  ASSUME NEW T, "/" \in T, NEW s \in Seq(T)
  PROVE  /\ dropEmptySegments(s) \in Seq(T) /\ segmented(dropEmptySegments(s))
         /\ segmented(s) => dropEmptySegments(s) = s
<1> DEFINE N == Len(s)
<1>1. PICK f : drops(f, T, s)
  BY DropUnfolds
<1>2. N \in Nat /\ f \in [0..N -> {q \in Seq(T) : segmented(q)}] /\ f[0] = <<>> /\ dropEmptySegments(s) = f[N]
  BY <1>1 DEF drops
<1>3. f[N] \in Seq(T) /\ segmented(f[N])
  BY <1>2
<1>4. ASSUME segmented(s) PROVE f[N] = s
  <2> DEFINE upTo(n) == SubSeq(s, 1, IF n # 0 /\ s[n] = "/" THEN n - 1 ELSE n)
             P == {n \in 0..N : f[n] = upTo(n)}
  <2>1. 0 \in P
    <3>1. SubSeq(s, 1, 0) = <<>>
      OBVIOUS
    <3> QED BY <1>2, <3>1
  <2>2. ASSUME NEW n \in 1..N, n - 1 \in P PROVE n \in P
    <3>1. f[n] = joins(f[n - 1], s[n - 1], s[n]) /\ f[n - 1] = upTo(n - 1) /\ n \in 0..N
      BY <1>1, <1>2, <2>2 DEF drops
    <3>2. n # 1 => ~(s[n - 1] = "/" /\ s[n] = "/")
      BY <1>2, <1>4 DEF segmented, doubled
    <3>3. s[1] # "/"
      BY <1>2, <1>4, EmptySeq DEF segmented
    <3>4. CASE s[n] = "/"
      <4>1. n # 1 /\ s[n - 1] # "/"
        BY <3>2, <3>3, <3>4
      <4>2. upTo(n - 1) = SubSeq(s, 1, n - 1) /\ upTo(n) = SubSeq(s, 1, n - 1)
        BY <3>4, <4>1
      <4> HIDE DEF upTo
      <4> QED BY <3>1, <3>4, <4>2 DEF joins
    <3>5. CASE s[n] # "/" /\ (n = 1 \/ s[n - 1] # "/")
      <4>1. upTo(n - 1) = SubSeq(s, 1, n - 1) /\ upTo(n) = SubSeq(s, 1, n)
        BY <3>5
      <4>2. Append(SubSeq(s, 1, n - 1), s[n]) = SubSeq(s, 1, n)
        BY <1>2
      <4>3. n = 1 => f[n - 1] = <<>>
        BY <1>2
      <4> HIDE DEF upTo
      <4> QED BY <3>1, <3>5, <4>1, <4>2, <4>3 DEF joins
    <3>6. CASE s[n] # "/" /\ n # 1 /\ s[n - 1] = "/"
      <4>1. n - 1 # 1 /\ n - 2 \in 1..N
        BY <1>2, <3>3, <3>6
      <4>2. upTo(n - 1) = SubSeq(s, 1, n - 2) /\ upTo(n) = SubSeq(s, 1, n)
        BY <3>6
      <4>3. SubSeq(s, 1, n - 2) \o <<"/", s[n]>> = SubSeq(s, 1, n)
        BY <1>2, <3>6, <4>1
      <4>4. SubSeq(s, 1, n - 2) # <<>>
        <5>1. Len(SubSeq(s, 1, n - 2)) = n - 2 /\ Len(<<>>) = 0 /\ n - 2 # 0
          BY <1>2, <4>1
        <5> QED BY <5>1
      <4> HIDE DEF upTo
      <4> QED BY <3>1, <3>6, <4>2, <4>3, <4>4 DEF joins
    <3> QED BY <3>4, <3>5, <3>6
  <2>3. 0..N \subseteq P
    <3> HIDE DEF P, N
    <3> QED BY <1>2, <2>1, <2>2, BoundedInduction
  <2>4. f[N] = upTo(N)
    BY <1>2, <2>3
  <2>5. N # 0 => s[N] # "/"
    BY <1>2, <1>4, EmptySeq DEF segmented, Last
  <2>6. SubSeq(s, 1, N) = s
    BY <1>2
  <2> QED BY <2>4, <2>5, <2>6
<1> QED BY <1>2, <1>3, <1>4

\* What replaced has after n entries of the prefix.
replacement(t, meta) == IF t \in DOMAIN meta THEN meta[t] ELSE <<t>>

replaces(f, T, prefix, meta) ==
  /\ f \in [0..Len(prefix) -> Seq(T)]
  /\ f[0] = <<>> /\ replaced(prefix, meta) = f[Len(prefix)]
  /\ \A n \in 1..Len(prefix) : f[n] = f[n - 1] \o replacement(prefix[n], meta)

LEMMA ReplacedUnfolds ==
  ASSUME NEW T, NEW prefix, isSequence(prefix), NEW meta,
         \A n \in 1..Len(prefix) : replacement(prefix[n], meta) \in Seq(T)
  PROVE  \E f : replaces(f, T, prefix, meta)
<1> DEFINE N == Len(prefix)
           S == Seq(T)
           rec(f) == [n \in 0..N |-> IF n = 0 THEN <<>> ELSE f[n - 1] \o (IF prefix[n] \in DOMAIN meta THEN meta[prefix[n]] ELSE <<prefix[n]>>)]
           G == [n \in 1..N |-> [q \in S |-> q \o replacement(prefix[n], meta)]]
           F == CHOOSE f : f = rec(f)
<1>1. N \in Nat /\ <<>> \in S
  BY LenProperties DEF isSequence
<1>2. ASSUME NEW q \in S, NEW n \in 1..N PROVE q \o replacement(prefix[n], meta) \in S
  <2>1. replacement(prefix[n], meta) \in Seq(T)
    OBVIOUS
  <2> QED BY <2>1
<1> HIDE DEF S
<1>3. G \in [1..N -> [S -> S]]
  BY <1>2
<1>4. PICK f : iterates(f, N, S, <<>>, G)
  <2> HIDE DEF G, N
  <2> QED BY <1>1, <1>3, IterationExists
<1>5. f = rec(f)
  <2>1. f \in [0..N -> S] /\ f[0] = <<>>
    BY <1>4 DEF iterates
  <2>2. ASSUME NEW n \in 1..N PROVE f[n] = f[n - 1] \o replacement(prefix[n], meta)
    <3>1. f[n - 1] \in S
      BY <1>1, <2>1
    <3>2. f[n] = G[n][f[n - 1]]
      BY <1>4 DEF iterates
    <3> QED BY <3>1, <3>2
  <2>3. ASSUME NEW n \in 0..N PROVE f[n] = rec(f)[n]
    <3>1. CASE n = 0
      BY <2>1, <3>1
    <3>2. CASE n # 0
      <4>1. n \in 1..N
        BY <1>1, <3>2
      <4> QED BY <2>2, <3>2, <4>1 DEF replacement
    <3> QED BY <3>1, <3>2
  <2> QED BY <2>1, <2>3
<1>6. F = rec(F)
  <2> HIDE DEF rec
  <2> QED BY <1>5
<1>7. replaced(prefix, meta) = F[N]
  BY DEF replaced
<1> HIDE DEF F
<1>8. \A n \in 0..N : F[n] = rec(F)[n]
  BY <1>6
<1>9. F[0] = <<>>
  <2>1. 0 \in 0..N
    BY <1>1
  <2>2. rec(F)[0] = <<>>
    BY <2>1
  <2> HIDE DEF rec
  <2> QED BY <1>8, <2>1, <2>2
<1>10. ASSUME NEW n \in 1..N PROVE F[n] = F[n - 1] \o replacement(prefix[n], meta)
  <2>1. n \in 0..N /\ n # 0
    BY <1>1
  <2> QED BY <1>8, <2>1 DEF replacement
<1>11. \A n \in 0..N : F[n] \in S
  <2>1. ASSUME NEW n \in 1..N, F[n - 1] \in S PROVE F[n] \in S
    BY <1>2, <1>10, <2>1
  <2>2. F[0] \in S
    BY <1>1, <1>9
  <2> HIDE DEF N
  <2> QED BY <1>1, <2>1, <2>2, IterationTyped
<1>12. F \in [0..N -> S]
  <2>1. F = [n \in 0..N |-> F[n]]
    BY <1>6
  <2> QED BY <1>11, <2>1
<1> QED BY <1>7, <1>9, <1>10, <1>12 DEF replaces, S

LEMMA ExpandedProperties ==
  ASSUME NEW prefix, isSequence(prefix), NEW meta, \A k \in DOMAIN meta : isSequence(meta[k])
  PROVE  isSequence(expandRepoPrefix(prefix, meta)) /\ segmented(expandRepoPrefix(prefix, meta))
<1> DEFINE T == ToSet(prefix) \cup {"/"} \cup UNION {ToSet(meta[k]) : k \in DOMAIN meta}
           N == Len(prefix)
           e == replaced(prefix, meta)
<1>1. N \in Nat /\ "/" \in T /\ \A n \in 1..N : prefix[n] \in T
  BY ElementOfSeq, LenProperties DEF isSequence
<1>2. ASSUME NEW n \in 1..N PROVE replacement(prefix[n], meta) \in Seq(T)
  <2>1. CASE prefix[n] \in DOMAIN meta
    <3> DEFINE k == prefix[n]
    <3>1. ToSet(meta[k]) \subseteq T /\ meta[k] \in Seq(ToSet(meta[k]))
      BY <2>1 DEF isSequence
    <3> HIDE DEF T
    <3>2. meta[k] \in Seq(T)
      BY <3>1, SeqMonotonic
    <3> QED BY <2>1, <3>2 DEF replacement
  <2>2. CASE prefix[n] \notin DOMAIN meta
    <3> HIDE DEF T
    <3>1. <<prefix[n]>> \in Seq(T)
      BY <1>1
    <3> QED BY <2>2, <3>1 DEF replacement
  <2> QED BY <2>1, <2>2
<1> HIDE DEF T
<1>3. PICK f : replaces(f, T, prefix, meta)
  BY <1>2, ReplacedUnfolds
<1>4. e \in Seq(T)
  BY <1>1, <1>3 DEF replaces
<1> HIDE DEF e
<1>5. dropEmptySegments(e) \in Seq(T) /\ segmented(dropEmptySegments(e))
  BY <1>1, <1>4, DropProperties
<1> QED BY <1>5, SeqIsSequence DEF expandRepoPrefix, e

\* A name without slashes, and more than nothing.
oneSegment(s) == isSequence(s) /\ s # <<>> /\ "/" \notin ToSet(s)

LEMMA OneSegmentProperties ==
  ASSUME NEW s, oneSegment(s)
  PROVE  s \in Seq(ToSet(s)) /\ Len(s) \in Nat \ {0} /\ \A n \in 1..Len(s) : s[n] # "/" /\ s[n] \in ToSet(s)
<1>1. s \in Seq(ToSet(s)) /\ s # <<>>
  BY DEF oneSegment, isSequence
<1>2. Len(s) \in Nat \ {0}
  BY <1>1, EmptySeq
<1>3. \A n \in 1..Len(s) : s[n] \in ToSet(s)
  BY <1>1
<1> QED BY <1>1, <1>2, <1>3 DEF oneSegment

LEMMA ExpandedPair ==
  ASSUME NEW meta, NEW a \in DOMAIN meta, NEW b \in DOMAIN meta, "/" \notin DOMAIN meta,
         oneSegment(meta[a]), oneSegment(meta[b])
  PROVE  expandRepoPrefix(<<a, "/", b>>, meta) = (meta[a] \o <<"/">>) \o meta[b]
<1> DEFINE A == meta[a]
           B == meta[b]
           T == ToSet(A) \cup ToSet(B) \cup {"/"}
           prefix == <<a, "/", b>>
           x == (A \o <<"/">>) \o B
<1>1. /\ A \in Seq(ToSet(A)) /\ Len(A) \in Nat \ {0} /\ \A n \in 1..Len(A) : A[n] # "/"
      /\ B \in Seq(ToSet(B)) /\ Len(B) \in Nat \ {0} /\ \A n \in 1..Len(B) : B[n] # "/"
  BY OneSegmentProperties
<1>2. ToSet(A) \subseteq T /\ ToSet(B) \subseteq T /\ "/" \in T
  OBVIOUS
<1>3. isSequence(prefix) /\ Len(prefix) = 3 /\ prefix[1] = a /\ prefix[2] = "/" /\ prefix[3] = b
  <2>1. prefix \in Seq({a, "/", b}) /\ Len(prefix) = 3 /\ prefix[1] = a /\ prefix[2] = "/" /\ prefix[3] = b
    OBVIOUS
  <2> HIDE DEF prefix
  <2> QED BY <2>1, SeqIsSequence
<1> HIDE DEF T, prefix
<1>4. A \in Seq(T) /\ B \in Seq(T) /\ <<"/">> \in Seq(T)
  <2> HIDE DEF A, B
  <2> QED BY <1>1, <1>2, SeqMonotonic
<1>5. replacement(a, meta) = A /\ replacement("/", meta) = <<"/">> /\ replacement(b, meta) = B
  BY DEF replacement
<1>6. \A n \in 1..Len(prefix) : replacement(prefix[n], meta) \in Seq(T)
  <2> HIDE DEF A, B
  <2>1. ASSUME NEW n \in 1..Len(prefix) PROVE replacement(prefix[n], meta) \in Seq(T)
    <3>1. n = 1 \/ n = 2 \/ n = 3
      BY <1>3
    <3>2. prefix[n] = a \/ prefix[n] = "/" \/ prefix[n] = b
      BY <1>3, <3>1
    <3> QED BY <1>4, <1>5, <3>2, Zenon
  <2> QED BY <2>1
<1>7. PICK f : replaces(f, T, prefix, meta)
  BY <1>3, <1>6, ReplacedUnfolds
<1> HIDE DEF A, B
<1>8. replaced(prefix, meta) = x
  <2>1. f[0] = <<>> /\ replaced(prefix, meta) = f[3] /\ \A n \in 1..3 : f[n] = f[n - 1] \o replacement(prefix[n], meta)
    BY <1>3, <1>7 DEF replaces
  <2>2. f[1] = <<>> \o A /\ f[2] = f[1] \o <<"/">> /\ f[3] = f[2] \o B
    <3>0. 1 \in 1..3 /\ 2 \in 1..3 /\ 3 \in 1..3
      OBVIOUS
    <3>1. /\ f[1] = f[1 - 1] \o replacement(prefix[1], meta)
          /\ f[2] = f[2 - 1] \o replacement(prefix[2], meta)
          /\ f[3] = f[3 - 1] \o replacement(prefix[3], meta)
      BY <2>1, <3>0, Zenon
    <3>2. 1 - 1 = 0 /\ 2 - 1 = 1 /\ 3 - 1 = 2
      OBVIOUS
    <3> QED BY <1>3, <1>5, <2>1, <3>1, <3>2
  <2>3. <<>> \o A = A
    BY <1>4, ConcatEmptySeq
  <2> QED BY <2>1, <2>2, <2>3
<1>9. x \in Seq(T) /\ segmented(x)
  <2> DEFINE K == Len(A)
             L == Len(B)
  <2>1. /\ K \in Nat \ {0} /\ L \in Nat \ {0} /\ x \in Seq(T) /\ Len(x) = K + 1 + L
        /\ \A n \in 1..K : x[n] = A[n]
        /\ \A n \in (K + 2)..(K + 1 + L) : x[n] = B[n - (K + 1)] /\ n - (K + 1) \in 1..L
    BY <1>1, <1>4
  <2> HIDE DEF x, K, L
  <2>2. ASSUME NEW n \in 1..(K + 1 + L), n # K + 1 PROVE x[n] # "/"
    <3>1. (\A k \in 1..K : A[k] # "/") /\ \A k \in 1..L : B[k] # "/"
      BY <1>1 DEF K, L
    <3>2. CASE n \in 1..K
      BY <2>1, <3>1, <3>2
    <3>3. CASE n \in (K + 2)..(K + 1 + L)
      BY <2>1, <3>1, <3>3
    <3> QED BY <2>1, <2>2, <3>2, <3>3
  <2>3. ~doubled(x)
    BY <2>1, <2>2 DEF doubled
  <2> QED BY <2>1, <2>2, <2>3 DEF segmented, Last
<1> HIDE DEF x
<1>10. dropEmptySegments(x) = x
  BY <1>2, <1>9, DropProperties
<1> QED BY <1>8, <1>10 DEF expandRepoPrefix, prefix, x, A, B

\* Names under an expanded prefix.
LEMMA UnderPrefix ==
  ASSUME NEW e, isSequence(e), segmented(e), e # <<>>, NEW c, isSequence(c), Len(c) # 0, c[1] # "/"
  PROVE  LET x == (e \o <<"/">>) \o c IN
         /\ isSequence(x) /\ Len(x) = Len(e) + 1 + Len(c) /\ Last(x) = Last(c)
         /\ doubled(x) => doubled(c)
<1> DEFINE x == (e \o <<"/">>) \o c
           T == ToSet(e) \cup ToSet(c) \cup {"/"}
           K == Len(e)
           L == Len(c)
<1>1. e \in Seq(T) /\ c \in Seq(T) /\ "/" \in T
  <2>1. ToSet(e) \subseteq T /\ ToSet(c) \subseteq T /\ "/" \in T
    OBVIOUS
  <2>2. e \in Seq(ToSet(e)) /\ c \in Seq(ToSet(c))
    BY DEF isSequence
  <2> HIDE DEF T
  <2> QED BY <2>1, <2>2, SeqMonotonic
<1> HIDE DEF T
<1>2. K \in Nat \ {0} /\ L \in Nat \ {0}
  BY <1>1, EmptySeq
<1>3. /\ x \in Seq(T) /\ Len(x) = K + 1 + L /\ x[K + 1] = "/"
      /\ \A n \in 1..K : x[n] = e[n]
      /\ \A n \in (K + 2)..(K + 1 + L) : x[n] = c[n - (K + 1)] /\ n - (K + 1) \in 1..L
  BY <1>1, <1>2
<1> HIDE DEF x
<1>4. isSequence(x)
  BY <1>3, SeqIsSequence
<1>5. Last(x) = Last(c)
  BY <1>2, <1>3 DEF Last
<1>6. ASSUME NEW n \in 2..Len(x), x[n - 1] = "/", x[n] = "/" PROVE doubled(c)
  <2>1. e[K] # "/" /\ \A k \in 2..K : ~(e[k - 1] = "/" /\ e[k] = "/")
    BY DEF segmented, doubled, Last
  <2>2. ~(n <= K)
    BY <1>2, <1>3, <1>6, <2>1
  <2>3. n # K + 1
    BY <1>2, <1>3, <1>6, <2>1
  <2>4. n # K + 2
    BY <1>2, <1>3, <1>6
  <2> DEFINE k == n - (K + 1)
  <2>5. n \in (K + 2)..(K + 1 + L) /\ n - 1 \in (K + 2)..(K + 1 + L) /\ (n - 1) - (K + 1) = k - 1
    BY <1>2, <1>3, <2>2, <2>3, <2>4
  <2>6. c[k - 1] = "/" /\ c[k] = "/"
    BY <1>3, <1>6, <2>5
  <2>7. k \in 2..L
    BY <1>2, <2>5
  <2> QED BY <2>6, <2>7 DEF doubled
<1> QED BY <1>3, <1>4, <1>5, <1>6 DEF doubled, x

\* x starts with a, a slash, b and a slash.
startsWith(x, a, b) ==
  /\ Len(a) \in Nat /\ Len(b) \in Nat
  /\ x[Len(a) + 1] = "/" /\ x[Len(a) + 1 + Len(b) + 1] = "/"
  /\ \A n \in 1..Len(a) : x[n] = a[n]
  /\ \A n \in 1..Len(b) : x[Len(a) + 1 + n] = b[n]

LEMMA TwoSegments ==
  ASSUME NEW T, "/" \in T, NEW a \in Seq(T), NEW b \in Seq(T), NEW r \in Seq(T)
  PROVE  startsWith((((a \o <<"/">>) \o b) \o <<"/">>) \o r, a, b)
<1> DEFINE e == (a \o <<"/">>) \o b
           x == (e \o <<"/">>) \o r
           A == Len(a)
           B == Len(b)
<1>1. /\ A \in Nat /\ B \in Nat /\ e \in Seq(T) /\ Len(e) = A + 1 + B /\ e[A + 1] = "/"
      /\ \A n \in 1..A : e[n] = a[n]
      /\ \A n \in 1..B : e[A + 1 + n] = b[n]
  OBVIOUS
<1> HIDE DEF e
<1>2. x[Len(e) + 1] = "/" /\ \A n \in 1..Len(e) : x[n] = e[n]
  BY <1>1
<1> HIDE DEF x, A, B
<1>3. A + 1 \in 1..(A + 1 + B) /\ (\A n \in 1..A : n \in 1..(A + 1 + B)) /\ \A n \in 1..B : A + 1 + n \in 1..(A + 1 + B)
  BY <1>1
<1>4. /\ x[A + 1] = "/" /\ x[A + 1 + B + 1] = "/"
      /\ \A n \in 1..A : x[n] = a[n]
      /\ \A n \in 1..B : x[A + 1 + n] = b[n]
  BY <1>1, <1>2, <1>3
<1> QED BY <1>1, <1>4 DEF startsWith, x, e, A, B

\* The first two slashes tell where the first two segments end.
LEMMA SameSegments ==
  ASSUME NEW T, NEW a \in Seq(T), NEW b \in Seq(T), NEW c \in Seq(T), NEW d \in Seq(T),
         \A n \in 1..Len(a) : a[n] # "/", \A n \in 1..Len(b) : b[n] # "/",
         \A n \in 1..Len(c) : c[n] # "/", \A n \in 1..Len(d) : d[n] # "/",
         NEW x, startsWith(x, a, b), startsWith(x, c, d)
  PROVE  a = c /\ b = d
<1>1. /\ Len(a) \in Nat /\ Len(b) \in Nat
      /\ x[Len(a) + 1] = "/" /\ x[Len(a) + 1 + Len(b) + 1] = "/"
      /\ \A n \in 1..Len(a) : x[n] = a[n]
      /\ \A n \in 1..Len(b) : x[Len(a) + 1 + n] = b[n]
  BY DEF startsWith
<1>2. /\ Len(c) \in Nat /\ Len(d) \in Nat
      /\ x[Len(c) + 1] = "/" /\ x[Len(c) + 1 + Len(d) + 1] = "/"
      /\ \A n \in 1..Len(c) : x[n] = c[n]
      /\ \A n \in 1..Len(d) : x[Len(c) + 1 + n] = d[n]
  BY DEF startsWith
<1>3. Len(a) = Len(c)
  <2>1. ASSUME Len(a) < Len(c) PROVE FALSE
    <3>1. Len(a) + 1 \in 1..Len(c)
      BY <1>1, <1>2, <2>1
    <3> QED BY <1>1, <1>2, <3>1
  <2>2. ASSUME Len(c) < Len(a) PROVE FALSE
    <3>1. Len(c) + 1 \in 1..Len(a)
      BY <1>1, <1>2, <2>2
    <3> QED BY <1>1, <1>2, <3>1
  <2> QED BY <1>1, <1>2, <2>1, <2>2
<1>4. Len(b) = Len(d)
  <2> DEFINE K == Len(a) + 1
  <2>0. /\ K \in Nat /\ x[K + (Len(b) + 1)] = "/" /\ x[K + (Len(d) + 1)] = "/"
        /\ \A n \in 1..Len(b) : x[K + n] = b[n]
        /\ \A n \in 1..Len(d) : x[K + n] = d[n]
    BY <1>1, <1>2, <1>3
  <2> HIDE DEF K
  <2>1. ASSUME Len(b) < Len(d) PROVE FALSE
    <3>1. Len(b) + 1 \in 1..Len(d)
      BY <1>1, <1>2, <2>1
    <3> QED BY <2>0, <3>1
  <2>2. ASSUME Len(d) < Len(b) PROVE FALSE
    <3>1. Len(d) + 1 \in 1..Len(b)
      BY <1>1, <1>2, <2>2
    <3> QED BY <2>0, <3>1
  <2> QED BY <1>1, <1>2, <2>1, <2>2
<1>5. a = c
  BY <1>1, <1>2, <1>3, SeqEqual
<1>6. b = d
  BY <1>1, <1>2, <1>3, <1>4, SeqEqual
<1> QED BY <1>5, <1>6

\* An empty segment, also one at the front.
gapped(s) == doubled(s) \/ (s # <<>> /\ s[1] = "/")

LEMMA PathProperties ==
  ASSUME NEW src, isReference(src)
  PROVE  isSequence(path(src)) /\ (gapped(path(src)) => doubled(src))
<1> DEFINE fs == firstSlash(src)
           S == ToSet(src)
           rest == IF isHost(src) THEN SubSeq(src, fs + 1, Len(src)) ELSE src
           I == {k \in 1..Len(rest) : rest[k] \in {":", "@"}}
           end == SelectInSeq(rest, LAMBDA t : t \in {":", "@"})
           p == IF end = 0 THEN rest ELSE SubSeq(rest, 1, end - 1)
           N == Len(src)
<1>1. src \in Seq(S) /\ N \in Nat \ {0} /\ (fs = 0 \/ fs \in 2..N)
  BY ReferenceProperties
<1>2. path(src) = p
  BY DEF path
<1>3. src[1] # "/"
  <2>1. lower(src)[1] # "/" /\ 1 \in 1..Len(src)
    BY <1>1 DEF isReference
  <2> QED BY <1>1, <2>1, LowerProperties
<1>4. isHost(src) => fs \in 2..N /\ src[fs] = "/"
  <2>1. isHost(src) => fs # 0
    BY DEF isHost
  <2> QED BY <1>1, <2>1, FirstSlash
<1> HIDE DEF fs
<1>5. PICK k \in 0..N : /\ rest \in Seq(S) /\ Len(rest) \in Nat /\ Len(rest) = N - k
                        /\ \A n \in 1..Len(rest) : rest[n] = src[k + n]
                        /\ k # 0 => src[k] = "/"
  <2>1. CASE isHost(src)
    <3>1. fs \in 0..N /\ fs + 1 \in 1..(N + 1)
      BY <1>1, <1>4, <2>1
    <3>2. rest = SubSeq(src, fs + 1, N)
      BY <2>1
    <3>3. /\ rest \in Seq(S) /\ Len(rest) \in Nat /\ Len(rest) = N - fs
          /\ \A n \in 1..Len(rest) : rest[n] = src[fs + n]
      <4> HIDE DEF rest
      <4> QED BY <1>1, <3>1, <3>2
    <3> QED BY <1>4, <2>1, <3>1, <3>3
  <2>2. CASE ~isHost(src)
    <3>1. rest = src
      BY <2>2
    <3> HIDE DEF rest
    <3>2. 0 \in 0..N /\ Len(rest) = N - 0 /\ \A n \in 1..Len(rest) : rest[n] = src[0 + n]
      BY <1>1, <3>1
    <3> QED BY <1>1, <3>1, <3>2
  <2> QED BY <2>1, <2>2
<1> HIDE DEF rest
<1>6. end = 0 \/ end \in 1..Len(rest)
  <2>1. I \in SUBSET Nat /\ I \in SUBSET (1..Len(rest))
    OBVIOUS
  <2>2. end = IF I # {} THEN Min(I) ELSE 0
    BY DEF SelectInSeq
  <2> HIDE DEF I, end
  <2>3. I # {} => Min(I) \in I
    <3>1. I # {} => \E x \in I : \A y \in I : x <= y
      BY <2>1, LeastElement
    <3> QED BY <3>1 DEF Min
  <2> QED BY <2>1, <2>2, <2>3
<1> HIDE DEF end
<1>7. p \in Seq(S) /\ Len(p) \in Nat /\ Len(p) <= Len(rest) /\ \A n \in 1..Len(p) : p[n] = rest[n]
  BY <1>5, <1>6
<1> HIDE DEF p, N
<1>8. within(p, src)
  <2>1. k \in Nat /\ k + Len(p) <= Len(src)
    BY <1>1, <1>5, <1>7 DEF N
  <2>2. \A n \in 1..Len(p) : p[n] = src[k + n]
    BY <1>5, <1>7
  <2> QED BY <2>1, <2>2 DEF within
<1>9. ASSUME p # <<>>, p[1] = "/" PROVE doubled(src)
  <2>1. Len(p) # 0
    BY <1>7, <1>9, EmptySeq
  <2>2. 1 \in 1..Len(p) /\ 1 \in 1..Len(rest)
    BY <1>5, <1>7, <2>1
  <2>3. src[k + 1] = "/" /\ k # 0
    BY <1>3, <1>5, <1>7, <1>9, <2>2
  <2>4. k + 1 \in 2..Len(src) /\ src[(k + 1) - 1] = "/"
    BY <1>1, <1>5, <2>2, <2>3 DEF N
  <2> QED BY <2>3, <2>4 DEF doubled
<1>10. doubled(p) => doubled(src)
  BY <1>1, <1>7, <1>8, WithinKeepsSegments
<1> QED BY <1>2, <1>7, <1>9, <1>10, SeqIsSequence DEF gapped

LEMMA RepositoryProperties ==
  ASSUME NEW src, isReference(src)
  PROVE  isSequence(repositoryStr(src)) /\ (gapped(repositoryStr(src)) => doubled(src))
<1> DEFINE p == path(src)
           lib == <<"library", "/">>
           r == lib \o p
           T == ToSet(p) \cup {"library", "/"}
<1>1. isSequence(p) /\ (gapped(p) => doubled(src))
  BY PathProperties
<1>2. repositoryStr(src) = p \/ repositoryStr(src) = r
  BY DEF repositoryStr
<1> HIDE DEF p
<1>3. p \in Seq(T)
  <2>1. ToSet(p) \subseteq T /\ p \in Seq(ToSet(p))
    BY <1>1 DEF isSequence
  <2> HIDE DEF T
  <2> QED BY <2>1, SeqMonotonic
<1>4. /\ r \in Seq(T) /\ Len(p) \in Nat /\ Len(r) = 2 + Len(p) /\ r[1] = "library" /\ r[2] = "/"
      /\ \A n \in 3..Len(r) : r[n] = p[n - 2]
  <2>1. lib \in Seq(T) /\ Len(lib) = 2 /\ lib[1] = "library" /\ lib[2] = "/"
    OBVIOUS
  <2> HIDE DEF lib, T
  <2>2. /\ r \in Seq(T) /\ Len(p) \in Nat /\ Len(r) = 2 + Len(p)
        /\ \A n \in 1..Len(r) : r[n] = IF n <= 2 THEN lib[n] ELSE p[n - 2]
    <3>1. Len(p) \in Nat
      BY <1>3
    <3>2. r \in Seq(T) /\ Len(r) = Len(lib) + Len(p)
      BY <1>3, <2>1, ConcatProperties, Zenon
    <3>3. \A n \in 1..(Len(lib) + Len(p)) : r[n] = IF n <= Len(lib) THEN lib[n] ELSE p[n - Len(lib)]
      BY <1>3, <2>1, ConcatProperties
    <3> HIDE DEF r
    <3> QED BY <2>1, <3>1, <3>2, <3>3
  <2> HIDE DEF r
  <2>3. r[1] = "library" /\ r[2] = "/"
    BY <2>1, <2>2
  <2>4. \A n \in 3..Len(r) : r[n] = p[n - 2]
    BY <2>2
  <2> QED BY <2>2, <2>3, <2>4
<1> HIDE DEF r, T
<1>5. ASSUME gapped(r) PROVE gapped(p)
  <2>1. PICK n \in 2..Len(r) : r[n - 1] = "/" /\ r[n] = "/"
    BY <1>4, <1>5 DEF gapped, doubled
  <2>2. n # 2
    BY <1>4, <2>1
  <2>3. CASE n = 3
    BY <1>3, <1>4, <2>1, <2>3, EmptySeq DEF gapped
  <2>4. CASE n > 3
    <3>1. n \in 3..Len(r) /\ n - 1 \in 3..Len(r) /\ n - 2 \in 2..Len(p) /\ (n - 1) - 2 = (n - 2) - 1
      BY <1>4, <2>4
    <3> QED BY <1>4, <2>1, <3>1 DEF gapped, doubled
  <2> QED BY <2>2, <2>3, <2>4
<1> QED BY <1>1, <1>2, <1>4, <1>5, SeqIsSequence

LEMMA RegistryIsSequence ==
  ASSUME NEW src, isReference(src)
  PROVE  isSequence(metaRegistry(src))
<1> DEFINE host == SubSeq(src, 1, firstSlash(src) - 1)
<1>1. src \in Seq(ToSet(src)) /\ Len(src) \in Nat /\ (firstSlash(src) = 0 \/ firstSlash(src) \in 2..Len(src))
  BY ReferenceProperties
<1>2. isHost(src) => host \in Seq(ToSet(src))
  <2>1. isHost(src) => firstSlash(src) # 0
    BY DEF isHost
  <2> QED BY <1>1, <2>1
<1>3. isHost(src) => isSequence(host)
  <2> HIDE DEF host
  <2> QED BY <1>2, SeqIsSequence
<1>4. isSequence(<<"docker.io">>)
  <2>1. <<"docker.io">> \in Seq({"docker.io"})
    OBVIOUS
  <2> QED BY <2>1, SeqIsSequence
<1>5. metaRegistry(src) = <<"docker.io">> \/ (isHost(src) /\ metaRegistry(src) = host)
  BY DEF metaRegistry, registryStr
<1> HIDE DEF host
<1> QED BY <1>3, <1>4, <1>5

LEMMA ArchitectureIsSequence ==
  ASSUME NEW useIndex \in BOOLEAN, NEW archs, isSequence(archs), NEW sorted, isSequence(sorted)
  PROVE  isSequence(resolveArchitecture(useIndex, archs, sorted))
<1> DEFINE seen == keep(sorted, ToSet(archs) \ {"", "unknown"})
           joined == [k \in 1..(2 * Len(seen) - 1) |-> IF k % 2 = 1 THEN seen[(k + 1) \div 2] ELSE "-"]
           one == keep(archs, ToSet(archs) \ {""})
           multi == <<"multiarch">>
<1>1. resolveArchitecture(useIndex, archs, sorted) =
        CASE ~useIndex -> one [] useIndex /\ seen = <<>> -> multi [] useIndex /\ seen # <<>> -> joined
  BY DEF resolveArchitecture
<1>2. seen \in Seq(ToSet(sorted)) /\ one \in Seq(ToSet(archs))
  BY KeepProperties DEF isSequence
<1>3. multi \in Seq({"multiarch"})
  OBVIOUS
<1> HIDE DEF seen, one, multi
<1>4. seen # <<>> => joined \in Seq(ToSet(joined))
  <2> DEFINE M == 2 * Len(seen) - 1
  <2>1. seen # <<>> => M \in Nat
    BY <1>2, EmptySeq
  <2>2. joined = [k \in 1..M |-> joined[k]]
    OBVIOUS
  <2> HIDE DEF joined, M
  <2>3. DOMAIN joined = 1..M
    BY <2>2
  <2>4. joined \in [1..M -> ToSet(joined)]
    BY <2>2, <2>3 DEF ToSet
  <2> QED BY <2>1, <2>4
<1> HIDE DEF joined
<1>5. resolveArchitecture(useIndex, archs, sorted) = one \/ resolveArchitecture(useIndex, archs, sorted) = multi
      \/ (seen # <<>> /\ resolveArchitecture(useIndex, archs, sorted) = joined)
  BY <1>1
<1> QED BY <1>2, <1>3, <1>4, <1>5, SeqIsSequence DEF isSequence

LEMMA AllowedConcat ==
  ASSUME NEW T, NEW a \in Seq(T), NEW b \in Seq(T), allowedOnly(a), allowedOnly(b)
  PROVE  allowedOnly(a \o b)
<1> DEFINE x == a \o b
           A == Len(a)
           B == Len(b)
<1>1. /\ A \in Nat /\ B \in Nat /\ Len(x) = A + B
      /\ \A n \in 1..(A + B) : x[n] = IF n <= A THEN a[n] ELSE b[n - A]
  BY ConcatProperties, LenProperties
<1>2. (\A n \in 1..A : a[n] \notin Unusual \cup DOMAIN LowerCase) /\ \A n \in 1..B : b[n] \notin Unusual \cup DOMAIN LowerCase
  BY DEF allowedOnly
<1> HIDE DEF x, A, B
<1>3. \A n \in 1..(A + B) : n \in 1..A \/ (~(n <= A) /\ n - A \in 1..B)
  BY <1>1
<1>4. ASSUME NEW n \in 1..(A + B) PROVE x[n] \notin Unusual \cup DOMAIN LowerCase
  <2>1. CASE n \in 1..A
    <3>1. x[n] = a[n]
      BY <1>1, <2>1
    <3> QED BY <1>2, <2>1, <3>1
  <2>2. CASE ~(n <= A) /\ n - A \in 1..B
    <3>1. x[n] = b[n - A]
      BY <1>1, <2>2
    <3> QED BY <1>2, <2>2, <3>1
  <2> QED BY <1>3, <2>1, <2>2
<1> QED BY <1>1, <1>4 DEF allowedOnly, x

\* How a name ends that CleanRepoName returns.
LEMMA LastOfCleaned ==
  ASSUME NEW p, isSequence(p),
         Len(spelled(p)) > MaxRepoName => Digest(spelled(p)) \notin Separators \cup Unusual \cup DOMAIN LowerCase
  PROVE  LET n == CleanRepoName(p) IN
         \/ Last(n) = "unknown"
         \/ Last(n) \in ToSet(spelled(p))
         \/ n = shortened(spelled(p)) /\ Last(n) = Digest(spelled(p))
<1> DEFINE s == spelled(p)
           unknown == <<"library", "/", "unknown">>
<1>1. isSequence(s) /\ allowedOnly(s) /\ (s # <<>> => s[1] \notin Separators)
  BY SpelledProperties
<1>2. CleanRepoName(p) = CASE s = <<>> -> unknown [] Len(s) > MaxRepoName -> shortened(s) [] OTHER -> s
  BY DEF CleanRepoName
<1>3. Last(unknown) = "unknown"
  BY DEF Last
<1> HIDE DEF s, unknown
<1>4. Len(s) \in Nat /\ (s = <<>> => Len(s) = 0) /\ (s # <<>> => Len(s) # 0) /\ MaxRepoName \in Nat /\ MaxRepoName >= 4
  BY <1>1, LengthAssumption, EmptySeq DEF isSequence
<1>5. CASE s = <<>>
  BY <1>2, <1>3, <1>4, <1>5
<1>6. CASE s # <<>> /\ Len(s) > MaxRepoName
  <2>1. CleanRepoName(p) = shortened(s)
    BY <1>2, <1>6
  <2>2. Last(shortened(s)) = Digest(s)
    BY <1>1, <1>6, ShortenedProperties DEF s
  <2> QED BY <2>1, <2>2 DEF s
<1>7. CASE s # <<>> /\ ~(Len(s) > MaxRepoName)
  <2>1. CleanRepoName(p) = s
    BY <1>2, <1>7
  <2>2. Last(s) \in ToSet(s)
    BY <1>1, <1>4, <1>7, ElementOfSeq DEF isSequence, Last
  <2> QED BY <2>1, <2>2 DEF s
<1> QED BY <1>5, <1>6, <1>7
=============================================================================
