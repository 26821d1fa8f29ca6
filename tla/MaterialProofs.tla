--------------------------- MODULE MaterialProofs ---------------------------
(***************************************************************************)
(* Proofs about certificates: the options and requests they are made from, *)
(* the policy they are held against and the record of each leaf, bundles   *)
(* and trust bundles, the files of a bundle, and what RotationProofs says  *)
(* of the controllers.                                                     *)
(***************************************************************************)
EXTENDS MCMaterial, FiniteSetTheorems, SequenceTheorems, WellFoundedInduction, TLAPS

-----------------------------------------------------------------------------
\* Numbers and folds

\* A set of naturals has a least element.
LEMMA LeastNatural ==
  ASSUME NEW S \in SUBSET Nat, S # {}
  PROVE  \E m \in S : \A k \in S : m <= k
<1> DEFINE R == OpToRel(<, Nat)
<1>1. \A x, y \in Nat : <<x, y>> \in R <=> x < y
  BY DEF OpToRel
<1>2. IsWellFoundedOn(R, Nat)
  BY NatLessThanWellFounded
<1> HIDE DEF R
<1>3. PICK m \in S : \A k \in S : ~ (<<k, m>> \in R)
  BY <1>2, WFMin
<1>4. ASSUME NEW k \in S
      PROVE  m <= k
  <2>1. m \in Nat /\ k \in Nat
    OBVIOUS
  <2>2. ~ (k < m)
    BY <1>1, <1>3, <2>1
  <2> QED BY <2>1, <2>2
<1> QED BY <1>4

\* A property of the naturals, given as a set, that 0 has and every number
\* passes on to the next.
LEMMA EveryNatural ==
  ASSUME NEW Good, 0 \in Good, \A n \in Nat : n \in Good => n + 1 \in Good
  PROVE  Nat \subseteq Good
<1> SUFFICES ASSUME Nat \ Good # {} PROVE FALSE
  OBVIOUS
<1>1. PICK m \in Nat \ Good : \A k \in Nat \ Good : m <= k
  BY LeastNatural
<1>2. m # 0 /\ m - 1 \in Nat /\ (m - 1) + 1 = m
  BY <1>1
<1>3. m - 1 \in Good
  BY <1>1, <1>2
<1> QED BY <1>1, <1>2, <1>3

-----------------------------------------------------------------------------
\* Folds

\* A set of positions has a last one.
LEMMA LastPosition ==
  ASSUME NEW n \in Nat, NEW s \in SUBSET (1..n), s # {}
  PROVE  /\ Max(s) \in s /\ \A k \in s : k <= Max(s)
         /\ IsFiniteSet(s) /\ Cardinality(s) \in Nat \ {0}
         /\ s \ {Max(s)} \in SUBSET (1..n)
         /\ Cardinality(s \ {Max(s)}) = Cardinality(s) - 1
<1>1. \A k \in s : k \in 1..n
  OBVIOUS
<1>2. \A k \in s : k \in Nat /\ n - k \in Nat
  <2> TAKE k \in s
  <2>1. k \in 1..n
    BY <1>1
  <2> QED BY <2>1
<1>3. \E m \in s : \A k \in s : m >= k
  <2> DEFINE D == {n - k : k \in s}
  <2>1. D \in SUBSET Nat
    BY <1>2
  <2>2. D # {}
    OBVIOUS
  <2>3. PICK d \in D : \A e \in D : d <= e
    BY <2>1, <2>2, LeastNatural
  <2>4. PICK m \in s : d = n - m
    BY <2>3
  <2>5. ASSUME NEW k \in s PROVE m >= k
    <3>1. n - k \in D
      OBVIOUS
    <3>2. n - m <= n - k
      BY <2>3, <2>4, <3>1
    <3>3. k \in Nat /\ m \in Nat
      BY <1>2
    <3> QED BY <3>2, <3>3
  <2> QED BY <2>5
<1>4. Max(s) \in s /\ \A k \in s : Max(s) >= k
  BY <1>3 DEF Max
<1>5. Max(s) \in Nat /\ \A k \in s : k <= Max(s)
  BY <1>2, <1>4
<1>6. IsFiniteSet(1..n)
  BY FS_Interval
<1>7. IsFiniteSet(s)
  BY <1>6, FS_Subset
<1>8. Cardinality(s) \in Nat /\ Cardinality(s) # 0
  BY <1>7, FS_EmptySet, FS_CardinalityType
<1>9. Cardinality(s \ {Max(s)}) = Cardinality(s) - 1
  BY <1>4, <1>7, FS_RemoveElement
<1> QED BY <1>4, <1>5, <1>7, <1>8, <1>9

\* The turns of a fold over the positions of a sequence, as MapThenFoldSet
\* takes them; g is the step as a function of what there is and the element.
Turn(it, g, base, q, s) ==
    IF s = {} THEN base ELSE g[<<it[s \ {Max(s)}], q[Max(s)]>>]
Turns(it, g, base, q, n) == it = [s \in SUBSET (1..n) |-> Turn(it, g, base, q, s)]

FewOf(n, c) == {s \in SUBSET (1..n) : Cardinality(s) <= c}
TurnsTo(it, g, base, q, n, c) == it = [s \in FewOf(n, c) |-> Turn(it, g, base, q, s)]

LEMMA FewerLeft ==
  ASSUME NEW n \in Nat, NEW c \in Nat, NEW s \in FewOf(n, c + 1), s # {}
  PROVE  s \ {Max(s)} \in FewOf(n, c) /\ s \ {Max(s)} \in FewOf(n, c + 1)
<1>1. s \in SUBSET (1..n) /\ Cardinality(s) <= c + 1
  BY DEF FewOf
<1>2. /\ s \ {Max(s)} \in SUBSET (1..n) /\ Cardinality(s) \in Nat
      /\ Cardinality(s \ {Max(s)}) = Cardinality(s) - 1
  BY <1>1, LastPosition
<1> QED BY <1>1, <1>2 DEF FewOf

\* The recursion of a fold has a solution.
LEMMA TurnsExist ==
  ASSUME NEW n \in Nat, NEW g, NEW base, NEW q
  PROVE  \E it : Turns(it, g, base, q, n)
<1> DEFINE Good == {c \in Nat : \E it : TurnsTo(it, g, base, q, n, c)}
<1>1. 0 \in Good
  <2> DEFINE it == [s \in FewOf(n, 0) |-> base]
  <2>1. ASSUME NEW s \in FewOf(n, 0)
        PROVE  s = {}
    <3>1. s \in SUBSET (1..n) /\ Cardinality(s) <= 0
      BY <2>1 DEF FewOf
    <3>2. s # {} => Cardinality(s) \in Nat \ {0}
      BY <3>1, LastPosition
    <3> QED BY <3>1, <3>2
  <2>2. it = [s \in FewOf(n, 0) |-> Turn(it, g, base, q, s)]
    BY <2>1 DEF Turn
  <2> HIDE DEF it
  <2> QED BY <2>2 DEF TurnsTo
<1>2. ASSUME NEW c \in Nat, c \in Good
      PROVE  c + 1 \in Good
  <2>1. PICK h : TurnsTo(h, g, base, q, n, c)
    BY <1>2
  <2> DEFINE it == [s \in FewOf(n, c + 1) |-> Turn(h, g, base, q, s)]
             e(s) == Turn(it, g, base, q, s)
             d(s) == Turn(h, g, base, q, s)
  <2>2. ASSUME NEW s \in FewOf(n, c + 1)
        PROVE  e(s) = d(s)
    <3>1. CASE s = {}
      BY <3>1 DEF Turn
    <3>2. CASE s # {}
      <4> DEFINE rest == s \ {Max(s)}
      <4>1. rest \in FewOf(n, c) /\ rest \in FewOf(n, c + 1)
        BY <3>2, FewerLeft
      <4> HIDE DEF rest
      <4>2. h[rest] = Turn(h, g, base, q, rest)
        BY <2>1, <4>1, Zenon DEF TurnsTo
      <4>3. it[rest] = Turn(h, g, base, q, rest)
        BY <4>1
      <4> HIDE DEF it
      <4>4. it[rest] = h[rest]
        BY <4>2, <4>3
      <4> QED BY <3>2, <4>4 DEF Turn, rest
    <3> QED BY <3>1, <3>2
  <2>3. it = [s \in FewOf(n, c + 1) |-> d(s)]
    OBVIOUS
  <2> HIDE DEF it, d, e
  <2>4. it = [s \in FewOf(n, c + 1) |-> e(s)]
    BY <2>2, <2>3
  <2>5. TurnsTo(it, g, base, q, n, c + 1)
    BY <2>4 DEF e, TurnsTo
  <2> QED BY <1>2, <2>5
<1> HIDE DEF Good
<1>3. Nat \subseteq Good
  BY <1>1, <1>2, EveryNatural
<1>4. PICK it : TurnsTo(it, g, base, q, n, n)
  BY <1>3 DEF Good
<1>5. FewOf(n, n) = SUBSET (1..n)
  <2>1. IsFiniteSet(1..n) /\ Cardinality(1..n) = n
    BY FS_Interval
  <2>2. \A s \in SUBSET (1..n) : Cardinality(s) <= n
    BY <2>1, FS_Subset
  <2> QED BY <2>2 DEF FewOf
<1> QED BY <1>4, <1>5 DEF TurnsTo, Turns

LEMMA TurnAt ==
  ASSUME NEW it, NEW g, NEW base, NEW q, NEW n, Turns(it, g, base, q, n), NEW s \in SUBSET (1..n)
  PROVE  it[s] = Turn(it, g, base, q, s)
  BY Zenon DEF Turns

\* What a fold has made stays among what its step makes.
LEMMA TurnsStay ==
  ASSUME NEW n \in Nat, NEW A, NEW T, NEW g \in [A \X T -> A], NEW base \in A,
         NEW q, \A i \in 1..n : q[i] \in T, NEW it, Turns(it, g, base, q, n)
  PROVE  \A s \in SUBSET (1..n) : it[s] \in A
<1> DEFINE Good == {c \in Nat : \A s \in FewOf(n, c) : it[s] \in A}
<1>1. 0 \in Good
  <2> SUFFICES ASSUME NEW s \in FewOf(n, 0) PROVE it[s] \in A
    OBVIOUS
  <2>1. s \in SUBSET (1..n) /\ Cardinality(s) <= 0
    BY DEF FewOf
  <2>2. s # {} => Cardinality(s) \in Nat \ {0}
    BY <2>1, LastPosition
  <2>3. s = {}
    BY <2>1, <2>2
  <2> QED BY <2>1, <2>3, TurnAt DEF Turn
<1>2. ASSUME NEW c \in Nat, c \in Good
      PROVE  c + 1 \in Good
  <2> SUFFICES ASSUME NEW s \in FewOf(n, c + 1) PROVE it[s] \in A
    OBVIOUS
  <2>1. s \in SUBSET (1..n)
    BY DEF FewOf
  <2>2. CASE s = {}
    BY <2>1, <2>2, TurnAt DEF Turn
  <2>3. CASE s # {}
    <3>1. it[s \ {Max(s)}] \in A
      BY <1>2, <2>3, FewerLeft
    <3>2. q[Max(s)] \in T
      BY <2>1, <2>3, LastPosition
    <3>3. it[s] = Turn(it, g, base, q, s)
      BY <2>1, TurnAt
    <3>4. it[s] = g[<<it[s \ {Max(s)}], q[Max(s)]>>]
      BY <2>3, <3>3 DEF Turn
    <3> HIDE DEF Good
    <3> QED BY <3>1, <3>2, <3>4
  <2> QED BY <2>2, <2>3
<1> HIDE DEF Good
<1>3. Nat \subseteq Good
  BY <1>1, <1>2, EveryNatural
<1>4. ASSUME NEW s \in SUBSET (1..n)
      PROVE  it[s] \in A
  <2>1. IsFiniteSet(1..n) /\ Cardinality(1..n) = n
    BY FS_Interval
  <2>2. Cardinality(s) <= n
    BY <2>1, FS_Subset
  <2>3. s \in FewOf(n, n) /\ n \in Good
    BY <1>3, <2>2 DEF FewOf
  <2> QED BY <2>3 DEF Good
<1> QED BY <1>4

\* The positions up to one are those before it and itself.
LEMMA Positions ==
  ASSUME NEW n \in Nat, NEW i \in 1..n
  PROVE  /\ 1..i \in SUBSET (1..n) /\ 1..(i - 1) \in SUBSET (1..n)
         /\ 1..i # {} /\ Max(1..i) = i /\ (1..i) \ {Max(1..i)} = 1..(i - 1)
<1>1. i \in Nat /\ i <= n /\ 1..i # {} /\ 1..i \in SUBSET (1..i)
  OBVIOUS
<1>2. Max(1..i) \in 1..i /\ \A k \in 1..i : k <= Max(1..i)
  BY <1>1, LastPosition
<1>3. Max(1..i) = i
  BY <1>1, <1>2
<1> QED BY <1>1, <1>3

-----------------------------------------------------------------------------
\* The bottom of a chain

\* The next certificate of a chain above c, 0 when there is none.
Above(c, S) == IF c = 0 \/ Parents(c, S) = {} THEN 0 ELSE CHOOSE p \in Parents(c, S) : TRUE

Chain(f, n, S) ==
    f = [i \in 1..n |-> IF i = 1 THEN CHOOSE c \in Bottoms(S) : TRUE ELSE Above(f[i - 1], S)]

LEMMA ChainAt ==
  ASSUME NEW f, NEW n, NEW S, Chain(f, n, S), NEW i \in 1..n
  PROVE  f[i] = IF i = 1 THEN CHOOSE c \in Bottoms(S) : TRUE ELSE Above(f[i - 1], S)
<1> DEFINE e(j) == IF j = 1 THEN CHOOSE c \in Bottoms(S) : TRUE ELSE Above(f[j - 1], S)
<1>1. f = [j \in 1..n |-> e(j)]
  BY DEF Chain
<1> HIDE DEF e
<1>2. f[i] = e(i)
  BY <1>1, Zenon
<1> QED BY <1>2 DEF e

\* The recursion of Ordered has a solution.
LEMMA ChainExists ==
  ASSUME NEW S, NEW n \in Nat
  PROVE  \E f : Chain(f, n, S)
<1> DEFINE Bad == {k \in Nat : ~ \E f : Chain(f, k, S)}
<1> SUFFICES ASSUME Bad # {} PROVE FALSE
  OBVIOUS
<1>1. PICK m \in Bad : \A k \in Bad : m <= k
  BY LeastNatural
<1>2. m \in Nat /\ ~ \E f : Chain(f, m, S)
  BY <1>1
<1>3. CASE m = 0
  <2> DEFINE f == [i \in 1..0 |-> 0]
  <2>1. 1..0 = {}
    OBVIOUS
  <2>2. Chain(f, 0, S)
    BY <2>1 DEF Chain
  <2> QED BY <1>2, <1>3, <2>2
<1>4. CASE m # 0
  <2>1. m - 1 \in Nat /\ m - 1 \notin Bad
    BY <1>1, <1>2, <1>4
  <2>2. PICK f : Chain(f, m - 1, S)
    BY <2>1
  <2> DEFINE h == [i \in 1..m |-> IF i < m THEN f[i] ELSE
                                  IF i = 1 THEN CHOOSE c \in Bottoms(S) : TRUE
                                  ELSE Above(f[i - 1], S)]
  <2>3. ASSUME NEW i \in 1..m
        PROVE  h[i] = IF i = 1 THEN CHOOSE c \in Bottoms(S) : TRUE ELSE Above(h[i - 1], S)
    <3>1. i # 1 => h[i - 1] = f[i - 1]
      BY <1>2
    <3>2. ASSUME i < m
          PROVE  f[i] = IF i = 1 THEN CHOOSE c \in Bottoms(S) : TRUE ELSE Above(f[i - 1], S)
      <4>1. i \in 1..(m - 1)
        BY <1>2, <3>2
      <4> QED BY <2>2, <4>1, ChainAt
    <3>3. CASE i < m
      <4>1. h[i] = f[i]
        BY <3>3
      <4> HIDE DEF h
      <4> QED BY <3>1, <3>2, <3>3, <4>1
    <3>4. CASE i = m
      <4>1. h[i] = IF i = 1 THEN CHOOSE c \in Bottoms(S) : TRUE ELSE Above(f[i - 1], S)
        BY <1>2, <3>4
      <4> HIDE DEF h
      <4> QED BY <3>1, <4>1
    <3> QED BY <1>2, <3>3, <3>4
  <2>4. h = [i \in 1..m |-> IF i = 1 THEN CHOOSE c \in Bottoms(S) : TRUE ELSE Above(h[i - 1], S)]
    BY <2>3
  <2> HIDE DEF h
  <2> QED BY <1>2, <2>4 DEF Chain
<1> QED BY <1>3, <1>4

LEMMA OrderedIs ==
  ASSUME NEW S, Cardinality(S) \in Nat
  PROVE  Chain(Ordered(S), Cardinality(S), S)
<1>1. Ordered(S) = CHOOSE f : Chain(f, Cardinality(S), S)
  BY DEF Ordered, Chain, Above
<1> QED BY <1>1, ChainExists

LEMMA ToSetIn ==
  ASSUME NEW T, NEW s \in Seq(T)
  PROVE  ToSet(s) \subseteq T
  BY DEF ToSet

LEMMA ToSetFinite ==
  ASSUME NEW T, NEW s \in Seq(T), s # <<>>
  PROVE  IsFiniteSet(ToSet(s)) /\ Cardinality(ToSet(s)) \in Nat \ {0} /\ s[1] \in ToSet(s)
<1>1. Len(s) \in Nat /\ DOMAIN s = 1..Len(s) /\ Len(s) # 0
  BY EmptySeq
<1>2. IsFiniteSet(1..Len(s))
  BY <1>1, FS_Interval
<1>3. s \in Surjection(1..Len(s), ToSet(s))
  BY <1>1 DEF Surjection, ToSet
<1>4. IsFiniteSet(ToSet(s)) /\ s[1] \in ToSet(s)
  BY <1>1, <1>2, <1>3, FS_Surjection DEF ToSet
<1>5. Cardinality(ToSet(s)) # 0
  BY <1>4, FS_EmptySet
<1> QED BY <1>4, <1>5, FS_CardinalityType

\* A certificate that may not issue is the bottom of every chain it is in.
LEMMA LeafIsBottom ==
  ASSUME NEW s \in Seq(Certs), s # <<>>, ~Cert[s[1]].ca, Linkable(ToSet(s))
  PROVE  Ordered(ToSet(s))[1] = s[1]
<1> DEFINE S == ToSet(s)
<1>1. IsFiniteSet(S) /\ Cardinality(S) \in Nat \ {0} /\ s[1] \in S /\ S \subseteq Certs
  BY ToSetFinite DEF ToSet
<1>2. Children(s[1], S) = {}
  BY <1>1 DEF Children, Parents, Issuers, Issued, CheckSignatureFrom
<1>3. s[1] \in Bottoms(S) /\ Bottoms(S) \subseteq S /\ Cardinality(Bottoms(S)) = 1
  BY <1>1, <1>2 DEF Bottoms, Linkable
<1>4. IsFiniteSet(Bottoms(S))
  BY <1>1, <1>3, FS_Subset
<1>5. \E x : Bottoms(S) = {x}
  BY <1>3, <1>4, FS_Singleton
<1>6. (CHOOSE c \in Bottoms(S) : TRUE) = s[1]
  BY <1>3, <1>5
<1>7. Chain(Ordered(S), Cardinality(S), S)
  BY <1>1, OrderedIs
<1>8. 1 \in 1..Cardinality(S)
  BY <1>1
<1> QED BY <1>6, <1>7, <1>8, ChainAt

LEMMA AcceptedIs ==
  ASSUME NEW b
  PROVE  Accepted(b).ok /\ Accepted(b).bundle = b /\ ~Refused.ok
  BY DEF Accepted, Refused

\* A chain that begins with a leaf is accepted beside the leaf's key only.
LEMMA KeyBesideLeaf ==
  ASSUME NEW s \in Seq(Certs), s # <<>>, ~Cert[s[1]].ca, NEW key, key # "",
         normalizeBundle(s, key).ok
  PROVE  \E b : /\ normalizeBundle(s, key).bundle = b
                /\ b = [certs |-> b.certs, leaf |-> s[1], intermediates |-> b.intermediates,
                        root |-> b.root, key |-> key, pass |-> ""]
                /\ s[1] # 0 /\ Cert[s[1]].key = key
<1> DEFINE b == Roles(Ordered(ToSet(s)), key)
<1>1. Linkable(ToSet(s)) /\ KeyFits(b) /\ normalizeBundle(s, key) = Accepted(b)
  <2> DEFINE good == /\ IsInjective(s)
                     /\ Linkable(ToSet(s))
                     /\ \A i \in 1..Len(s) : Ordered(ToSet(s))[i] # 0
                     /\ KeyFits(b)
  <2>1. normalizeBundle(s, key) = IF good THEN Accepted(b) ELSE Refused
    BY DEF normalizeBundle
  <2>2. ~Refused.ok
    BY AcceptedIs
  <2>3. good
    <3> HIDE DEF good
    <3> QED BY <2>1, <2>2
  <2> QED BY <2>1, <2>3
<1>2. s[1] \in Certs /\ s[1] # 0
  <2>1. s[1] \in ToSet(s)
    BY ToSetFinite
  <2>2. ToSet(s) \subseteq Certs
    BY ToSetIn
  <2> QED BY <2>1, <2>2, ChainConstants
<1>3. Ordered(ToSet(s))[1] = s[1]
  BY <1>1, LeafIsBottom
<1>4. b.leaf = s[1] /\ b.key = key /\ b.certs = Ordered(ToSet(s)) /\ b.pass = ""
  BY <1>3 DEF Roles
<1>5. b = [certs |-> b.certs, leaf |-> b.leaf, intermediates |-> b.intermediates,
           root |-> b.root, key |-> b.key, pass |-> b.pass]
  BY DEF Roles
<1> HIDE DEF b
<1>6. normalizeBundle(s, key).bundle = b
  BY <1>1, AcceptedIs
<1>7. Cert[s[1]].key = key
  BY <1>1, <1>2, <1>4 DEF KeyFits
<1> QED BY <1>2, <1>4, <1>5, <1>6, <1>7

-----------------------------------------------------------------------------
\* What savers write

KeyNames == {Held[s].key : s \in Savers} \cup {""}
Contents == [certs: Seq(Certs), key: KeyNames, pass: Passphrases]
Item == Files \X Contents

\* Every file is written once, and is not empty.
Distinct(m) == \A i, j \in 1..Len(m) : m[i][1] = m[j][1] => i = j

LEMMA ConcatDistinct ==
  ASSUME NEW m \in Seq(Item), NEW n \in Seq(Item), Distinct(m), Distinct(n),
         \A i \in 1..Len(m), j \in 1..Len(n) : m[i][1] # n[j][1]
  PROVE  m \o n \in Seq(Item) /\ Distinct(m \o n)
<1>1. /\ Len(m) \in Nat /\ Len(n) \in Nat /\ Len(m \o n) = Len(m) + Len(n)
      /\ \A i \in 1..(Len(m) + Len(n)) : (m \o n)[i] = IF i <= Len(m) THEN m[i] ELSE n[i - Len(m)]
  BY ConcatProperties
<1> DEFINE c == m \o n
<1> HIDE DEF c
<1>2. ASSUME NEW i \in 1..Len(c), NEW j \in 1..Len(c), c[i][1] = c[j][1]
      PROVE  i = j
  <2>1. i \in 1..(Len(m) + Len(n)) /\ j \in 1..(Len(m) + Len(n))
    BY <1>1, <1>2 DEF c
  <2>2. CASE i <= Len(m) /\ j <= Len(m)
    BY <1>1, <1>2, <2>1, <2>2 DEF c, Distinct
  <2>3. CASE ~(i <= Len(m)) /\ ~(j <= Len(m))
    <3>1. i - Len(m) \in 1..Len(n) /\ j - Len(m) \in 1..Len(n)
      BY <1>1, <2>1, <2>3
    <3>2. n[i - Len(m)][1] = n[j - Len(m)][1]
      BY <1>1, <1>2, <2>1, <2>3 DEF c
    <3>3. i - Len(m) = j - Len(m)
      BY <3>1, <3>2 DEF Distinct
    <3> QED BY <1>1, <2>1, <3>3
  <2>4. CASE i <= Len(m) /\ ~(j <= Len(m))
    <3>1. i \in 1..Len(m) /\ j - Len(m) \in 1..Len(n)
      BY <1>1, <2>1, <2>4
    <3>2. m[i][1] = n[j - Len(m)][1]
      BY <1>1, <1>2, <2>1, <2>4 DEF c
    <3> QED BY <3>1, <3>2
  <2>5. CASE ~(i <= Len(m)) /\ j <= Len(m)
    <3>1. j \in 1..Len(m) /\ i - Len(m) \in 1..Len(n)
      BY <1>1, <2>1, <2>5
    <3>2. m[j][1] = n[i - Len(m)][1]
      BY <1>1, <1>2, <2>1, <2>5 DEF c
    <3> QED BY <3>1, <3>2
  <2> QED BY <2>2, <2>3, <2>4, <2>5
<1> QED BY <1>2, ConcatProperties DEF c, Distinct

\* Elements of a concatenation.
LEMMA ConcatElements ==
  ASSUME NEW m \in Seq(Item), NEW n \in Seq(Item), NEW i \in 1..Len(m \o n)
  PROVE  (\E j \in 1..Len(m) : (m \o n)[i] = m[j]) \/ (\E j \in 1..Len(n) : (m \o n)[i] = n[j])
<1>1. /\ Len(m) \in Nat /\ Len(n) \in Nat /\ Len(m \o n) = Len(m) + Len(n)
      /\ \A k \in 1..(Len(m) + Len(n)) : (m \o n)[k] = IF k <= Len(m) THEN m[k] ELSE n[k - Len(m)]
  BY ConcatProperties
<1>2. CASE i <= Len(m)
  <2>1. i \in 1..Len(m)
    BY <1>1, <1>2
  <2> QED BY <1>1, <1>2, <2>1
<1>3. CASE ~(i <= Len(m))
  <2>1. i - Len(m) \in 1..Len(n)
    BY <1>1, <1>3
  <2> QED BY <1>1, <1>3, <2>1
<1> QED BY <1>2, <1>3


\* An optional file.
LEMMA WhenIs ==
  ASSUME NEW condition \in BOOLEAN, NEW item, condition => item \in Item
  PROVE  /\ When(condition, item) \in Seq(Item) /\ Distinct(When(condition, item))
         /\ \A i \in 1..Len(When(condition, item)) : condition /\ When(condition, item)[i] = item
         /\ condition => Len(When(condition, item)) = 1
<1> DEFINE m == When(condition, item)
<1>1. CASE condition
  <2>1. m \in Seq(Item) /\ Len(m) = 1 /\ m[1] = item
    BY <1>1 DEF When
  <2> HIDE DEF m
  <2>2. Distinct(m)
    BY <2>1 DEF Distinct
  <2>3. \A i \in 1..Len(m) : m[i] = item
    BY <2>1
  <2> QED BY <1>1, <2>1, <2>2, <2>3 DEF m
<1>2. CASE ~condition
  <2>1. m \in Seq(Item) /\ Len(m) = 0
    BY <1>2 DEF When
  <2> HIDE DEF m
  <2>2. 1..Len(m) = {}
    BY <2>1
  <2>3. Distinct(m)
    BY <2>2 DEF Distinct
  <2> QED BY <1>2, <2>1, <2>2, <2>3 DEF m
<1> QED BY <1>1, <1>2

\* The chain that s saves.
ChainOf(s) == <<Held[s].leaf>> \o Held[s].intermediates

\* What may be in the material of s.
ItemOf(s, item) ==
    /\ item \in Item
    /\ item[2] # Absent
    /\ item[1] = "chain" => Held[s].leaf # 0 /\ item[2].certs = ChainOf(s)
    /\ item[1] = "key" => item[2].key # ""

LEMMA HeldIs ==
  ASSUME NEW s \in Savers
  PROVE  /\ Held[s] \in Bundles /\ Held[s].certs \in Seq(Certs) /\ Held[s].intermediates \in Seq(Certs)
         /\ Held[s].leaf \in Certs \cup {0} /\ Held[s].root \in Certs \cup {0}
         /\ Held[s].key \in KeyNames /\ Held[s].pass \in Passphrases
         /\ Held[s].certs # <<>> \/ Held[s].key # ""
         /\ Held[s].leaf # 0 => ~Cert[Held[s].leaf].ca
         /\ Held[s].certs = <<>> => Held[s].leaf = 0
<1>1. Held[s] \in Bundles /\ (Held[s].certs # <<>> \/ Held[s].key # "")
  BY FilesConstants
<1>2. normalizeBundle(Held[s].certs, Held[s].key) = Accepted([Held[s] EXCEPT !.pass = ""])
  BY FilesConstants
<1>3. normalizeBundle(Held[s].certs, Held[s].key).bundle = [Held[s] EXCEPT !.pass = ""]
  BY <1>2, AcceptedIs
<1>4. [Held[s] EXCEPT !.pass = ""].leaf = Held[s].leaf
  BY <1>1 DEF Bundles
<1>5. CASE Held[s].certs = <<>>
  <2>1. normalizeBundle(Held[s].certs, Held[s].key) = Accepted([NoBundle EXCEPT !.key = Held[s].key])
    BY <1>5 DEF normalizeBundle
  <2>2. [NoBundle EXCEPT !.key = Held[s].key].leaf = 0
    BY DEF NoBundle
  <2>3. Held[s].leaf = 0
    BY <1>3, <1>4, <2>1, <2>2, AcceptedIs
  <2> QED BY <1>1, <2>3 DEF Bundles, KeyNames
<1>6. CASE Held[s].certs # <<>>
  <2> DEFINE o == Ordered(ToSet(Held[s].certs))
             b == Roles(o, Held[s].key)
  <2>1. \/ normalizeBundle(Held[s].certs, Held[s].key) = Accepted(b)
        \/ normalizeBundle(Held[s].certs, Held[s].key) = Refused
    BY <1>6 DEF normalizeBundle
  <2>2. Accepted([Held[s] EXCEPT !.pass = ""]) # Refused
    BY AcceptedIs
  <2>3. b.leaf = Held[s].leaf
    <3> HIDE DEF b
    <3> QED BY <1>2, <1>3, <1>4, <2>1, <2>2, AcceptedIs
  <2>4. b.leaf = IF Cert[o[1]].ca THEN 0 ELSE o[1]
    BY DEF Roles
  <2>5. Held[s].leaf # 0 => ~Cert[Held[s].leaf].ca
    <3> HIDE DEF b, o
    <3> QED BY <2>3, <2>4
  <2> QED BY <1>1, <1>6, <2>5 DEF Bundles, KeyNames
<1> QED BY <1>5, <1>6

MaterialOK(s, m) ==
    m \in Seq(Item) /\ Distinct(m) /\ Len(m) >= 1 /\ \A i \in 1..Len(m) : ItemOf(s, m[i])

LEMMA ContentIs ==
  ASSUME NEW certs \in Seq(Certs), NEW key \in KeyNames, NEW pass \in Passphrases
  PROVE  /\ Content(certs, key, pass) \in Contents
         /\ Content(certs, key, pass).certs = certs /\ Content(certs, key, pass).key = key
         /\ Absent.certs = <<>> /\ Absent.key = ""
  BY DEF Content, Contents, Absent

LEMMA NoCerts ==
  <<>> \in Seq(Certs)
  OBVIOUS

LEMMA KeyFileIs ==
  ASSUME NEW s \in Savers, Held[s].key # ""
  PROVE  ItemOf(s, KeyFile(Held[s]))
<1>1. Held[s].key \in KeyNames /\ Held[s].pass \in Passphrases
  BY HeldIs
<1> DEFINE c == Content(<<>>, Held[s].key, Held[s].pass)
<1>2. c \in Contents /\ c.key = Held[s].key /\ Absent.key = ""
  BY <1>1, NoCerts, ContentIs
<1> HIDE DEF c
<1>3. KeyFile(Held[s]) = <<"key", c>> /\ "key" \in Files
  BY DEF KeyFile, Files, c
<1>4. <<"key", c>> \in Item /\ <<"key", c>>[1] = "key" /\ <<"key", c>>[2] = c
  BY <1>2, <1>3 DEF Item
<1> QED BY <1>2, <1>3, <1>4 DEF ItemOf

\* A file of certificates.
LEMMA CertsFileIs ==
  ASSUME NEW s \in Savers, NEW certs \in Seq(Certs), certs # <<>>,
         NEW name \in {"certificates", "chain", "fullchain"},
         name = "chain" => Held[s].leaf # 0 /\ certs = ChainOf(s)
  PROVE  ItemOf(s, <<name, Content(certs, "", "")>>)
<1> DEFINE c == Content(certs, "", "")
<1>1. c \in Contents
  BY ChainConstants DEF Content, Contents, KeyNames
<1>5. c.certs = certs /\ Absent.certs = <<>>
  BY DEF Content, Absent
<1> HIDE DEF c
<1>2. name \in Files /\ name # "key"
  BY DEF Files
<1>3. <<name, c>> \in Item /\ <<name, c>>[1] = name /\ <<name, c>>[2] = c
  BY <1>1, <1>2 DEF Item
<1>4. ItemOf(s, <<name, c>>)
  BY <1>2, <1>3, <1>5 DEF ItemOf
<1> QED BY <1>4 DEF c

LEMMA BehindOne ==
  ASSUME NEW T, NEW m \in Seq(T), NEW n \in Seq(T), Len(m) = 1
  PROVE  m \o n \in Seq(T) /\ Len(m \o n) # 0 /\ (m \o n)[1] = m[1]
  BY ConcatProperties

LEMMA ChainOfIs ==
  ASSUME NEW s \in Savers, Held[s].leaf # 0
  PROVE  ChainOf(s) \in Seq(Certs) /\ ChainOf(s) # <<>> /\ ChainOf(s)[1] = Held[s].leaf
<1>1. Held[s].leaf \in Certs /\ Held[s].intermediates \in Seq(Certs)
  BY HeldIs
<1> DEFINE one == <<Held[s].leaf>>
<1>2. one \in Seq(Certs) /\ Len(one) = 1 /\ one[1] = Held[s].leaf
  BY <1>1
<1> HIDE DEF one
<1>5. PICK rest \in Seq(Certs) : rest = Held[s].intermediates
  BY <1>1
<1>3. one \o rest \in Seq(Certs) /\ Len(one \o rest) # 0 /\ (one \o rest)[1] = Held[s].leaf
  BY <1>2, BehindOne
<1>4. Len(<<>>) = 0
  OBVIOUS
<1> QED BY <1>3, <1>4, <1>5 DEF ChainOf, one

\* A material under way: the files it has so far, by name.
Part(s, m, names) ==
    /\ m \in Seq(Item) /\ Distinct(m)
    /\ \A i \in 1..Len(m) : ItemOf(s, m[i]) /\ m[i][1] \in names

\* One more optional file at its end.
LEMMA PartGrows ==
  ASSUME NEW s, NEW names, NEW m, Part(s, m, names),
         NEW condition \in BOOLEAN, NEW item, condition => ItemOf(s, item), item[1] \notin names,
         NEW n, n = m \o When(condition, item)
  PROVE  /\ Part(s, n, names \cup {item[1]})
         /\ Len(m) \in Nat /\ Len(n) \in Nat /\ Len(n) >= Len(m)
         /\ condition => Len(n) >= 1
<1> DEFINE w == When(condition, item)
<1>0. m \in Seq(Item) /\ Distinct(m) /\ \A i \in 1..Len(m) : ItemOf(s, m[i]) /\ m[i][1] \in names
  BY DEF Part
<1>1. /\ w \in Seq(Item) /\ Distinct(w) /\ (condition => Len(w) = 1)
      /\ \A i \in 1..Len(w) : condition /\ w[i] = item
  BY WhenIs DEF ItemOf
<1> HIDE DEF w
<1>2. n = m \o w
  BY DEF w
<1>3. n \in Seq(Item) /\ Distinct(n)
  <2>1. \A i \in 1..Len(m), j \in 1..Len(w) : m[i][1] # w[j][1]
    BY <1>0, <1>1
  <2>2. m \o w \in Seq(Item) /\ Distinct(m \o w)
    BY <1>0, <1>1, <2>1, ConcatDistinct
  <2> QED BY <1>2, <2>2
<1>4. \A i \in 1..Len(n) : (\E j \in 1..Len(m) : n[i] = m[j]) \/ (\E j \in 1..Len(w) : n[i] = w[j])
  BY <1>0, <1>1, <1>2, ConcatElements
<1>5. Len(n) = Len(m) + Len(w) /\ Len(m) \in Nat /\ Len(w) \in Nat
  BY <1>0, <1>1, <1>2, ConcatProperties
<1>6. ASSUME NEW i \in 1..Len(n)
      PROVE  ItemOf(s, n[i]) /\ n[i][1] \in names \cup {item[1]}
  BY <1>0, <1>1, <1>4, <1>6
<1>7. Len(n) \in Nat /\ Len(n) >= Len(m) /\ (condition => Len(n) >= 1)
  BY <1>1, <1>5
<1> QED BY <1>3, <1>5, <1>6, <1>7 DEF Part

LEMMA TwoFiles ==
  ASSUME NEW s, NEW first, NEW second, ItemOf(s, first), ItemOf(s, second), first[1] # second[1]
  PROVE  MaterialOK(s, <<first, second>>)
<1> DEFINE m == <<first, second>>
<1>1. first \in Item /\ second \in Item
  BY DEF ItemOf
<1>2. m \in Seq(Item) /\ Len(m) = 2 /\ m[1] = first /\ m[2] = second
  BY <1>1
<1> HIDE DEF m
<1>3. \A i \in 1..Len(m) : i = 1 \/ i = 2
  BY <1>2
<1>4. \A i \in 1..Len(m) : ItemOf(s, m[i])
  BY <1>2, <1>3
<1>5. ASSUME NEW i \in 1..Len(m), NEW j \in 1..Len(m), m[i][1] = m[j][1]
      PROVE  i = j
  BY <1>2, <1>3, <1>5
<1>6. Len(m) >= 1
  BY <1>2
<1>7. MaterialOK(s, m)
  BY <1>2, <1>4, <1>5, <1>6 DEF MaterialOK, Distinct
<1> QED BY <1>7 DEF m

LEMMA MaterialIs ==
  ASSUME NEW s \in Savers
  PROVE  MaterialOK(s, Material[s])
<1> DEFINE b == Held[s]
<1>1. /\ b.certs \in Seq(Certs) /\ (b.certs # <<>> \/ b.key # "")
      /\ b.certs = <<>> => b.leaf = 0
      /\ b.leaf # 0 => ChainOf(s) \in Seq(Certs) /\ ChainOf(s) # <<>>
  BY HeldIs, ChainOfIs
<1> HIDE DEF b
<1>2. CASE s \in Requesters
  <2> DEFINE r == <<"request", Content(<<>>, b.key, "")>>
  <2>1. b.key # "" /\ b.key \in KeyNames
    BY <1>2, FilesConstants, HeldIs DEF b
  <2>2. "" \in Passphrases
    BY ChainConstants
  <2>3. /\ Content(<<>>, b.key, "") \in Contents
        /\ Content(<<>>, b.key, "").key = b.key /\ Absent.key = ""
    BY <2>1, <2>2, NoCerts, ContentIs
  <2>4. r \in Item /\ r[1] = "request" /\ r[2] = Content(<<>>, b.key, "")
    BY <2>3 DEF Item, Files
  <2> HIDE DEF r
  <2>5. ItemOf(s, r)
    BY <2>1, <2>3, <2>4 DEF ItemOf
  <2>6. ItemOf(s, KeyFile(b)) /\ KeyFile(b) \in Item /\ KeyFile(b)[1] = "key"
    BY <2>1, KeyFileIs DEF b, ItemOf, KeyFile
  <2>7. Material[s] = <<r, KeyFile(b)>>
    BY <1>2 DEF Material, b, r
  <2>8. r[1] # KeyFile(b)[1]
    BY <2>4, <2>6
  <2> QED BY <2>5, <2>6, <2>7, <2>8, TwoFiles
<1>3. CASE s \notin Requesters
  <2> DEFINE certificates == <<"certificates", Content(b.certs, "", "")>>
             chained == <<"chain", Content(ChainOf(s), "", "")>>
             full == <<"fullchain", Content(b.certs, "", "")>>
             keyed == KeyFile(b)
  <2>1. /\ certificates[1] = "certificates" /\ chained[1] = "chain"
        /\ full[1] = "fullchain" /\ keyed[1] = "key"
    BY DEF KeyFile
  <2>2. b.certs # <<>> => ItemOf(s, certificates) /\ ItemOf(s, full)
    BY <1>1, CertsFileIs
  <2>3. b.leaf # 0 => ItemOf(s, chained)
    BY <1>1, CertsFileIs DEF b
  <2>4. b.key # "" => ItemOf(s, keyed)
    BY KeyFileIs DEF b
  <2>5. Material[s] = When(b.certs # <<>>, certificates) \o When(b.leaf # 0, chained)
                        \o When(b.root # 0 /\ b.leaf # 0, full) \o When(b.key # "", keyed)
    BY <1>3 DEF Material, b, ChainOf
  <2> HIDE DEF certificates, chained, full, keyed
  <2>6. PICK c1 \in BOOLEAN : c1 = (b.certs # <<>>)
    OBVIOUS
  <2>7. PICK c2 \in BOOLEAN : c2 = (b.leaf # 0)
    OBVIOUS
  <2>8. PICK c3 \in BOOLEAN : c3 = (b.root # 0 /\ b.leaf # 0)
    OBVIOUS
  <2>9. PICK c4 \in BOOLEAN : c4 = (b.key # "")
    OBVIOUS
  <2>10. PICK p1 : p1 = When(c1, certificates)
    OBVIOUS
  <2>11. PICK p2 : p2 = p1 \o When(c2, chained)
    OBVIOUS
  <2>12. PICK p3 : p3 = p2 \o When(c3, full)
    OBVIOUS
  <2>13. PICK p4 : p4 = p3 \o When(c4, keyed)
    OBVIOUS
  <2>14. Material[s] = p4
    BY <2>5, <2>6, <2>7, <2>8, <2>9, <2>10, <2>11, <2>12, <2>13
  <2>15. Part(s, p1, {certificates[1]}) /\ (c1 => Len(p1) >= 1)
    <3>1. c1 => certificates \in Item /\ ItemOf(s, certificates)
      BY <2>2, <2>6 DEF ItemOf
    <3>2. /\ p1 \in Seq(Item) /\ Distinct(p1)
          /\ \A i \in 1..Len(p1) : c1 /\ p1[i] = certificates
          /\ c1 => Len(p1) = 1
      BY <2>10, <3>1, WhenIs
    <3>3. c1 => Len(p1) >= 1
      BY <3>2
    <3> QED BY <3>1, <3>2, <3>3 DEF Part
  <2>16. /\ Part(s, p2, {certificates[1]} \cup {chained[1]})
         /\ Len(p1) \in Nat /\ Len(p2) \in Nat /\ Len(p2) >= Len(p1)
    <3>1. c2 => ItemOf(s, chained)
      BY <2>3, <2>7
    <3>2. chained[1] \notin {certificates[1]}
      BY <2>1
    <3> QED BY <2>11, <2>15, <3>1, <3>2, PartGrows
  <2>17. /\ Part(s, p3, {certificates[1]} \cup {chained[1]} \cup {full[1]})
         /\ Len(p3) \in Nat /\ Len(p3) >= Len(p2)
    <3>1. c3 => ItemOf(s, full)
      BY <1>1, <2>2, <2>8
    <3>2. full[1] \notin {certificates[1]} \cup {chained[1]}
      BY <2>1
    <3> QED BY <2>12, <2>16, <3>1, <3>2, PartGrows
  <2>18. /\ Part(s, p4, {certificates[1]} \cup {chained[1]} \cup {full[1]} \cup {keyed[1]})
         /\ Len(p4) \in Nat /\ Len(p4) >= Len(p3) /\ (c4 => Len(p4) >= 1)
    <3>1. c4 => ItemOf(s, keyed)
      BY <2>4, <2>9
    <3>2. keyed[1] \notin {certificates[1]} \cup {chained[1]} \cup {full[1]}
      BY <2>1
    <3> QED BY <2>13, <2>17, <3>1, <3>2, PartGrows
  <2>19. Len(p4) >= 1
    <3>1. c1 \/ c4
      BY <1>1, <2>6, <2>9
    <3> QED BY <2>15, <2>16, <2>17, <2>18, <3>1
  <2> QED BY <2>14, <2>18, <2>19 DEF Part, MaterialOK
<1> QED BY <1>2, <1>3

-----------------------------------------------------------------------------
\* The invariant

Jobs == [at: Resting \cup {"check", "write", "recheck", "rename"}, next: Nat, replace: BOOLEAN]

FilesTyped ==
    /\ dir \in [Files -> Contents]
    /\ job \in [Savers -> Jobs]
    /\ \A s \in Savers : job[s].next \in 1..Len(Material[s])
    /\ faults \in 0..MaxFaults /\ deaths \in 0..faults
    /\ temps \in Nat
    /\ old \in [Savers -> BOOLEAN]
    /\ alone \in [Savers -> BOOLEAN]

\* A reader between its two reads has the chain of somebody's bundle.
ChainRead == read.chain # <<>> => \E s \in Savers : Held[s].leaf # 0 /\ read.chain = ChainOf(s)

\* A saver that nobody interferes with has written what it is done with.
Progress(s) ==
    alone[s] /\ job[s].at \notin {"idle", "failed"} =>
        \A i \in 1..Len(Material[s]) :
            job[s].at = "saved" \/ i < job[s].next => dir[Material[s][i][1]] = Material[s][i][2]

Making == {s \in Savers : job[s].at \in {"recheck", "rename"}}

\* Every saver that has made a temporary file has its own.
Litter == Cardinality(Making) <= temps /\ temps <= deaths + Cardinality(Making)

\* The target that existed is there when the second Lstat looks for it.
Seen(s) ==
    /\ job[s].at = "recheck" /\ old[s] => Exists(Target(s))
    /\ job[s].at = "rename" /\ ~job[s].replace => ~old[s]

FilesInv ==
    /\ FilesTyped /\ WholeFiles /\ ChainRead /\ LoadedFits /\ Litter
    /\ \A s \in Savers : Progress(s) /\ Seen(s)

LEMMA MaxFaultsIs ==
  MaxFaults \in Nat
  BY FilesConstants

LEMMA EarlierIs ==
  Earlier \subseteq SUBSET Savers
  BY FilesConstants

LEMMA TargetIs ==
  ASSUME NEW s \in Savers, FilesTyped
  PROVE  /\ job[s].next \in 1..Len(Material[s])
         /\ Target(s) \in Files /\ Target(s) = Material[s][job[s].next][1]
         /\ Material[s][job[s].next][2] \in Contents /\ Material[s][job[s].next][2] # Absent
         /\ Material[s][job[s].next] = <<Target(s), Material[s][job[s].next][2]>>
<1>1. job[s].next \in 1..Len(Material[s])
  BY DEF FilesTyped
<1>2. ItemOf(s, Material[s][job[s].next])
  BY <1>1, MaterialIs DEF MaterialOK
<1> DEFINE item == Material[s][job[s].next]
<1> HIDE DEF item
<1>3. item \in Item /\ item[2] # Absent
  BY <1>2 DEF ItemOf, item
<1>4. item[1] \in Files /\ item[2] \in Contents /\ item = <<item[1], item[2]>>
  BY <1>3 DEF Item
<1> QED BY <1>1, <1>3, <1>4 DEF Target, item

\* One saver goes on.
Moves(s, r) == job' \in [Savers -> Jobs] /\ job'[s] = r /\ \A q \in Savers \ {s} : job'[q] = job[q]

LEMMA MovesIs ==
  ASSUME NEW s \in Savers, FilesTyped, NEW r \in Jobs, job' = [job EXCEPT ![s] = r]
  PROVE  Moves(s, r)
  BY DEF FilesTyped, Moves

LEMMA GotoIs ==
  ASSUME NEW s \in Savers, FilesTyped, NEW at \in Resting \cup {"check", "write", "recheck", "rename"},
         Goto(s, at)
  PROVE  \E r \in Jobs : /\ Moves(s, r)
                         /\ r.at = at /\ r.next = job[s].next /\ r.replace = job[s].replace
<1> DEFINE r == [job[s] EXCEPT !.at = at]
<1>1. job[s] \in Jobs
  BY DEF FilesTyped
<1>2. r \in Jobs /\ r.at = at /\ r.next = job[s].next /\ r.replace = job[s].replace
  BY <1>1 DEF Jobs
<1>3. job' = [job EXCEPT ![s] = r]
  BY DEF Goto
<1> HIDE DEF r
<1> QED BY <1>2, <1>3, MovesIs

LEMMA AtIs ==
  ASSUME NEW at
  PROVE  /\ at \in {"idle", "failed"} => at \in Resting
         /\ Resting \cap {"check", "write", "recheck", "rename"} = {}
  BY DEF Resting

\* Counting the savers that have a temporary file.
LEMMA MakingIs ==
  ASSUME NEW s \in Savers, NEW r, Moves(s, r)
  PROVE  /\ IsFiniteSet(Making) /\ Cardinality(Making) \in Nat
         /\ s \in Making <=> job[s].at \in {"recheck", "rename"}
         /\ Making' = IF r.at \in {"recheck", "rename"} THEN Making \cup {s} ELSE Making \ {s}
<1>1. Making \subseteq Savers
  BY DEF Making
<1>2. IsFiniteSet(Making)
  BY <1>1, FilesConstants, FS_Subset
<1>3. s \in Making <=> job[s].at \in {"recheck", "rename"}
  BY DEF Making
<1>4. ASSUME NEW q
      PROVE  q \in Making' <=> q \in IF r.at \in {"recheck", "rename"} THEN Making \cup {s} ELSE Making \ {s}
  <2>1. CASE q = s
    BY <2>1 DEF Making, Moves
  <2>2. CASE q # s /\ q \in Savers
    BY <2>2 DEF Making, Moves
  <2>3. CASE q \notin Savers
    BY <2>3 DEF Making
  <2> QED BY <2>1, <2>2, <2>3
<1> QED BY <1>2, <1>3, <1>4, FS_CardinalityType

LEMMA MakingGrows ==
  ASSUME NEW s \in Savers, NEW r, Moves(s, r), job[s].at \notin {"recheck", "rename"},
         r.at \in {"recheck", "rename"}
  PROVE  Cardinality(Making) \in Nat /\ Cardinality(Making') = Cardinality(Making) + 1
<1>1. /\ IsFiniteSet(Making) /\ Cardinality(Making) \in Nat
      /\ s \notin Making /\ Making' = Making \cup {s}
  BY MakingIs
<1> QED BY <1>1, FS_AddElement

LEMMA MakingShrinks ==
  ASSUME NEW s \in Savers, NEW r, Moves(s, r), job[s].at \in {"recheck", "rename"},
         r.at \notin {"recheck", "rename"}
  PROVE  Cardinality(Making) \in Nat \ {0} /\ Cardinality(Making') = Cardinality(Making) - 1
<1>1. /\ IsFiniteSet(Making) /\ Cardinality(Making) \in Nat
      /\ s \in Making /\ Making' = Making \ {s}
  BY MakingIs
<1>2. Cardinality(Making) # 0
  BY <1>1, FS_EmptySet
<1> QED BY <1>1, <1>2, FS_RemoveElement

LEMMA MakingSame ==
  ASSUME NEW s \in Savers, NEW r, Moves(s, r),
         job[s].at \in {"recheck", "rename"} <=> r.at \in {"recheck", "rename"}
  PROVE  Cardinality(Making) \in Nat /\ Cardinality(Making') = Cardinality(Making)
<1>1. /\ Cardinality(Making) \in Nat
      /\ s \in Making <=> job[s].at \in {"recheck", "rename"}
      /\ Making' = IF r.at \in {"recheck", "rename"} THEN Making \cup {s} ELSE Making \ {s}
  BY MakingIs
<1>2. Making' = Making
  BY <1>1
<1> QED BY <1>1, <1>2

\* A step of one saver that publishes nothing.
LEMMA Unpublished ==
  ASSUME FilesInv, NEW s \in Savers, NEW r \in Jobs, Moves(s, r), r.next \in 1..Len(Material[s]),
         UNCHANGED <<dir, read>>,
         faults' \in 0..MaxFaults, deaths' \in 0..faults', temps' \in Nat, Litter',
         old' \in [Savers -> BOOLEAN], \A q \in Savers \ {s} : old'[q] = old[q],
         alone' \in [Savers -> BOOLEAN], \A q \in Savers \ {s} : alone'[q] = alone[q],
         Progress(s)', Seen(s)'
  PROVE  FilesInv'
<1>1. FilesTyped'
  BY DEF FilesInv, FilesTyped, Moves
<1>2. WholeFiles' /\ ChainRead' /\ LoadedFits'
  BY DEF FilesInv, WholeFiles, ChainRead, LoadedFits, Exists
<1>3. ASSUME NEW q \in Savers \ {s}
      PROVE  Progress(q)' /\ Seen(q)'
  <2>1. job'[q] = job[q] /\ old'[q] = old[q] /\ alone'[q] = alone[q] /\ dir' = dir
    BY <1>3 DEF Moves
  <2>2. Progress(q) /\ Seen(q)
    BY DEF FilesInv
  <2>3. Target(q)' = Target(q)
    BY <2>1 DEF Target
  <2> QED BY <2>1, <2>2, <2>3 DEF Progress, Seen, Exists
<1> QED BY <1>1, <1>2, <1>3 DEF FilesInv

LEMMA BeginKeeps ==
  ASSUME FilesInv, NEW s \in Savers, NEW replace \in BOOLEAN, Begin(s, replace)
  PROVE  FilesInv'
<1> DEFINE r == [at |-> "check", next |-> 1, replace |-> replace]
<1>1. r \in Jobs /\ r.at = "check" /\ r.next = 1
  BY DEF Jobs
<1>2. FilesTyped /\ Litter
  BY DEF FilesInv
<1>3. /\ job[s].at \in {"idle", "failed"} /\ job' = [job EXCEPT ![s] = r]
      /\ alone' = [alone EXCEPT ![s] = \A q \in Savers \ {s} : job[q].at \in Resting]
      /\ UNCHANGED <<dir, temps, faults, deaths, read, old>>
  BY DEF Begin
<1> HIDE DEF r
<1>4. Moves(s, r)
  BY <1>1, <1>2, <1>3, MovesIs
<1>5. r.next \in 1..Len(Material[s])
  BY <1>1, MaterialIs DEF MaterialOK
<1>6. Cardinality(Making) \in Nat /\ Cardinality(Making') = Cardinality(Making)
  BY <1>1, <1>3, <1>4, MakingSame
<1>7. Litter'
  BY <1>2, <1>3, <1>6 DEF Litter
<1>8. alone' \in [Savers -> BOOLEAN] /\ \A q \in Savers \ {s} : alone'[q] = alone[q]
  BY <1>2, <1>3 DEF FilesTyped
<1>9. job'[s].at = "check" /\ job'[s].next = 1
  BY <1>1, <1>4 DEF Moves
<1>10. Progress(s)'
  BY <1>9 DEF Progress
<1>11. Seen(s)'
  BY <1>9 DEF Seen
<1>12. /\ faults' \in 0..MaxFaults /\ deaths' \in 0..faults' /\ temps' \in Nat
       /\ old' \in [Savers -> BOOLEAN] /\ old' = old
  BY <1>2, <1>3 DEF FilesTyped
<1> QED BY <1>1, <1>3, <1>4, <1>5, <1>7, <1>8, <1>10, <1>11, <1>12, Unpublished

\* The history of a saver stays, and what it has written.
LEMMA StillDone ==
  ASSUME FilesInv, NEW s \in Savers, NEW r, Moves(s, r), dir' = dir, alone' = alone,
         job[s].at \notin Resting, r.at \notin {"idle", "failed", "saved"}, r.next = job[s].next
  PROVE  Progress(s)'
<1>1. Progress(s) /\ job[s].at \notin {"idle", "failed"}
  BY DEF FilesInv, Resting
<1>2. job'[s] = r
  BY DEF Moves
<1> QED BY <1>1, <1>2 DEF Progress

LEMMA SaveCheckKeeps ==
  ASSUME FilesInv, NEW s \in Savers, SaveCheck(s)
  PROVE  FilesInv'
<1>1. FilesTyped /\ Litter
  BY DEF FilesInv
<1>2. PICK at \in {"failed", "write"} : Goto(s, at)
  BY DEF SaveCheck
<1>3. job[s].at = "check" /\ UNCHANGED <<dir, temps, faults, deaths, read, old, alone>>
  BY DEF SaveCheck
<1>4. PICK r \in Jobs : Moves(s, r) /\ r.at = at /\ r.next = job[s].next /\ r.replace = job[s].replace
  BY <1>1, <1>2, GotoIs DEF Resting
<1>5. Cardinality(Making) \in Nat /\ Cardinality(Making') = Cardinality(Making)
  BY <1>3, <1>4, MakingSame
<1>6. Litter'
  BY <1>1, <1>3, <1>5 DEF Litter
<1>7. Progress(s)'
  <2>1. CASE at = "write"
    <3>1. job[s].at \notin Resting
      BY <1>3 DEF Resting
    <3> QED BY <1>3, <1>4, <2>1, <3>1, StillDone
  <2>2. CASE at = "failed"
    BY <1>4, <2>2 DEF Moves, Progress
  <2> QED BY <2>1, <2>2
<1>8. Seen(s)'
  BY <1>4 DEF Moves, Seen
<1>9. /\ faults' \in 0..MaxFaults /\ deaths' \in 0..faults' /\ temps' \in Nat /\ r.next \in 1..Len(Material[s])
      /\ old' \in [Savers -> BOOLEAN] /\ alone' \in [Savers -> BOOLEAN]
  BY <1>1, <1>3, <1>4 DEF FilesTyped
<1> QED BY <1>3, <1>4, <1>6, <1>7, <1>8, <1>9, Unpublished

LEMMA SaveWriteKeeps ==
  ASSUME FilesInv, NEW s \in Savers, SaveWrite(s)
  PROVE  FilesInv'
<1>1. FilesTyped /\ Litter
  BY DEF FilesInv
<1>2. /\ job[s].at = "write" /\ Goto(s, "recheck") /\ temps' = temps + 1
      /\ old' = [old EXCEPT ![s] = Exists(Target(s))]
      /\ UNCHANGED <<dir, faults, deaths, read, alone>>
  BY DEF SaveWrite
<1>3. PICK r \in Jobs : Moves(s, r) /\ r.at = "recheck" /\ r.next = job[s].next /\ r.replace = job[s].replace
  BY <1>1, <1>2, GotoIs
<1>4. Cardinality(Making) \in Nat /\ Cardinality(Making') = Cardinality(Making) + 1
  BY <1>2, <1>3, MakingGrows
<1>5. /\ faults' \in 0..MaxFaults /\ deaths' \in 0..faults' /\ temps \in Nat /\ temps' \in Nat /\ deaths \in Nat
      /\ r.next \in 1..Len(Material[s]) /\ alone' \in [Savers -> BOOLEAN]
  BY <1>1, <1>2, <1>3, MaxFaultsIs DEF FilesTyped
<1>6. Litter'
  BY <1>1, <1>2, <1>4, <1>5 DEF Litter
<1>7. Progress(s)'
  <2>1. job[s].at \notin Resting
    BY <1>2 DEF Resting
  <2> QED BY <1>2, <1>3, <2>1, StillDone
<1>8. /\ old' \in [Savers -> BOOLEAN] /\ old'[s] = Exists(Target(s))
      /\ \A q \in Savers \ {s} : old'[q] = old[q]
  BY <1>1, <1>2 DEF FilesTyped, Exists
<1>9. Seen(s)'
  <2>1. Target(s)' = Target(s) /\ job'[s].at = "recheck"
    BY <1>3 DEF Target, Moves
  <2>2. Exists(Target(s))' <=> Exists(Target(s))
    BY <1>2, <2>1 DEF Exists
  <2> QED BY <1>8, <2>1, <2>2 DEF Seen
<1> QED BY <1>2, <1>3, <1>5, <1>6, <1>7, <1>8, <1>9, Unpublished

LEMMA SaveRecheckKeeps ==
  ASSUME FilesInv, NEW s \in Savers, SaveRecheck(s)
  PROVE  FilesInv'
<1>1. FilesTyped /\ Litter /\ Seen(s)
  BY DEF FilesInv
<1>2. PICK refused \in BOOLEAN : refused = (Exists(Target(s)) /\ ~job[s].replace)
  OBVIOUS
<1>3. /\ job[s].at = "recheck" /\ Goto(s, IF refused THEN "failed" ELSE "rename")
      /\ temps' = IF refused THEN temps - 1 ELSE temps
      /\ old' = [old EXCEPT ![s] = @ /\ ~refused]
      /\ UNCHANGED <<dir, faults, deaths, read, alone>>
  BY <1>2 DEF SaveRecheck
<1>4. PICK at \in {"failed", "rename"} : at = (IF refused THEN "failed" ELSE "rename")
  OBVIOUS
<1>5. PICK r \in Jobs : Moves(s, r) /\ r.at = at /\ r.next = job[s].next /\ r.replace = job[s].replace
  BY <1>1, <1>3, <1>4, GotoIs DEF Resting
<1>6. /\ temps \in Nat /\ faults \in Nat /\ faults' \in 0..MaxFaults
      /\ deaths \in Nat /\ deaths' \in 0..faults' /\ r.next \in 1..Len(Material[s])
      /\ alone' \in [Savers -> BOOLEAN]
  BY <1>1, <1>3, <1>5, MaxFaultsIs DEF FilesTyped
<1>6a. /\ old' \in [Savers -> BOOLEAN] /\ \A q \in Savers \ {s} : old'[q] = old[q]
       /\ ~refused => old'[s] = old[s]
  <2>1. old \in [Savers -> BOOLEAN]
    BY <1>1 DEF FilesTyped
  <2> QED BY <1>3, <2>1
<1>7. temps' \in Nat /\ Litter'
  <2>1. CASE refused
    <3>1. Cardinality(Making) \in Nat \ {0} /\ Cardinality(Making') = Cardinality(Making) - 1
      BY <1>3, <1>4, <1>5, <2>1, MakingShrinks
    <3> QED BY <1>1, <1>3, <1>6, <2>1, <3>1 DEF Litter
  <2>2. CASE ~refused
    <3>1. Cardinality(Making) \in Nat /\ Cardinality(Making') = Cardinality(Making)
      BY <1>3, <1>4, <1>5, <2>2, MakingSame
    <3> QED BY <1>1, <1>3, <1>6, <2>2, <3>1 DEF Litter
  <2> QED BY <2>1, <2>2
<1>8. Progress(s)'
  <2>1. CASE at = "rename"
    <3>1. job[s].at \notin Resting
      BY <1>3 DEF Resting
    <3> QED BY <1>3, <1>5, <2>1, <3>1, StillDone
  <2>2. CASE at = "failed"
    BY <1>5, <2>2 DEF Moves, Progress
  <2> QED BY <2>1, <2>2
<1>9. Seen(s)'
  <2>1. job'[s] = r
    BY <1>5 DEF Moves
  <2>2. CASE refused
    BY <1>4, <1>5, <2>1, <2>2 DEF Seen
  <2>3. CASE ~refused
    <3>1. ~job[s].replace => ~Exists(Target(s))
      BY <1>2, <2>3
    <3>2. ~job[s].replace => ~old[s]
      BY <1>1, <1>3, <3>1 DEF Seen
    <3> QED BY <1>3, <1>4, <1>5, <1>6a, <2>1, <2>3, <3>2 DEF Seen
  <2> QED BY <2>2, <2>3
<1> QED BY <1>3, <1>5, <1>6, <1>7, <1>8, <1>9, <1>6a, Unpublished

LEMMA Onward ==
  ASSUME NEW j \in Jobs, NEW k, k = [j EXCEPT !.at = "check", !.next = j.next + 1]
  PROVE  k \in Jobs /\ k.at = "check" /\ k.next = j.next + 1
<1>1. j.next + 1 \in Nat /\ "check" \in Resting \cup {"check", "write", "recheck", "rename"}
  BY DEF Jobs
<1> QED BY <1>1 DEF Jobs

LEMMA SaveRenameKeeps ==
  ASSUME FilesInv, NEW s \in Savers, SaveRename(s)
  PROVE  FilesInv'
<1> DEFINE n == job[s].next
           m == Material[s]
<1>1. FilesTyped /\ Litter /\ Progress(s) /\ WholeFiles
  BY DEF FilesInv
<1>2. /\ n \in 1..Len(m) /\ Target(s) \in Files /\ Target(s) = m[n][1]
      /\ m[n][2] \in Contents /\ m[n][2] # Absent /\ m[n] = <<Target(s), m[n][2]>>
  BY <1>1, TargetIs
<1>3. /\ job[s].at = "rename" /\ dir' = [dir EXCEPT ![Target(s)] = m[n][2]]
      /\ temps' = temps - 1 /\ job' = Advanced(s)
      /\ alone' = [q \in Savers |-> alone[q] /\ (q = s \/ job[q].at \in {"idle", "failed"})]
      /\ old' = [old EXCEPT ![s] = FALSE]
      /\ UNCHANGED <<faults, deaths, read>>
  BY DEF SaveRename
<1>4. Len(m) \in Nat /\ Distinct(m)
  BY MaterialIs DEF MaterialOK
<1>5. PICK r \in Jobs : /\ Moves(s, r) /\ r.at \in {"saved", "check"} /\ r.next \in 1..Len(m)
                        /\ r.at = "saved" => n = Len(m)
                        /\ r.at = "check" => r.next = n + 1
  <2> DEFINE onward == [job[s] EXCEPT !.at = "check", !.next = n + 1]
  <2>1. job[s] \in Jobs
    BY <1>1 DEF FilesTyped
  <2>3. onward \in Jobs /\ onward.at = "check" /\ onward.next = n + 1
    BY <2>1, Onward
  <2>4. Saved \in Jobs /\ Saved.at = "saved" /\ Saved.next = 1
    BY DEF Saved, Idle, Jobs, Resting
  <2>5. job' = [job EXCEPT ![s] = IF n = Len(m) THEN Saved ELSE onward]
    BY <1>3 DEF Advanced
  <2> HIDE DEF onward, n, m
  <2>6. CASE n = Len(m)
    <3>1. Moves(s, Saved)
      BY <1>1, <2>4, <2>5, <2>6, MovesIs
    <3>2. Saved.next \in 1..Len(m)
      BY <1>2, <1>4, <2>4
    <3> QED BY <2>4, <2>6, <3>1, <3>2
  <2>7. CASE n # Len(m)
    <3>1. Moves(s, onward)
      BY <1>1, <2>3, <2>5, <2>7, MovesIs
    <3>2. onward.next \in 1..Len(m)
      BY <1>2, <1>4, <2>3, <2>7
    <3> QED BY <2>3, <3>1, <3>2
  <2> QED BY <2>6, <2>7
<1> HIDE DEF n, m
<1>6. dir \in [Files -> Contents] /\ temps \in Nat /\ deaths \in Nat /\ alone \in [Savers -> BOOLEAN]
  BY <1>1, MaxFaultsIs DEF FilesTyped
<1>7. /\ dir' \in [Files -> Contents] /\ dir'[Target(s)] = m[n][2]
      /\ \A f \in Files : f # Target(s) => dir'[f] = dir[f]
  BY <1>2, <1>3, <1>6
<1>8. temps' \in Nat /\ Litter'
  <2>1. Cardinality(Making) \in Nat \ {0} /\ Cardinality(Making') = Cardinality(Making) - 1
    BY <1>3, <1>5, MakingShrinks
  <2> QED BY <1>1, <1>3, <1>6, <2>1 DEF Litter
<1>9. /\ alone' \in [Savers -> BOOLEAN] /\ alone'[s] = alone[s]
      /\ \A q \in Savers \ {s} : alone'[q] => job[q].at \in {"idle", "failed"}
  BY <1>3, <1>6
<1>9a. /\ old' \in [Savers -> BOOLEAN] /\ \A q \in Savers \ {s} : old'[q] = old[q]
  <2>1. old \in [Savers -> BOOLEAN]
    BY <1>1 DEF FilesTyped
  <2> QED BY <1>3, <2>1
<1>10. FilesTyped'
  <2>1. \A q \in Savers : job'[q].next \in 1..Len(Material[q])
    BY <1>1, <1>5 DEF FilesTyped, Moves, m
  <2>2. /\ faults' \in 0..MaxFaults /\ deaths' \in 0..faults'
        /\ job' \in [Savers -> Jobs]
    BY <1>1, <1>3, <1>5 DEF FilesTyped, Moves
  <2> QED BY <1>7, <1>8, <1>9, <1>9a, <2>1, <2>2 DEF FilesTyped
<1>11. WholeFiles'
  <2>1. ASSUME NEW f \in Files, dir'[f] # Absent
        PROVE  \E q \in Savers : Contains(Material[q], <<f, dir'[f]>>)
    <3>1. CASE f = Target(s)
      <4>1. Contains(m, <<f, dir'[f]>>)
        BY <1>2, <1>7, <3>1 DEF Contains
      <4> QED BY <4>1 DEF m
    <3>2. CASE f # Target(s)
      BY <1>1, <1>7, <2>1, <3>2 DEF WholeFiles, Exists
    <3> QED BY <3>1, <3>2
  <2> QED BY <2>1 DEF WholeFiles, Exists
<1>12. ChainRead' /\ LoadedFits'
  BY <1>3 DEF FilesInv, ChainRead, LoadedFits
<1>13. Progress(s)'
  <2> SUFFICES ASSUME alone[s], NEW i \in 1..Len(m), r.at = "saved" \/ i < r.next
               PROVE  dir'[m[i][1]] = m[i][2]
    BY <1>5, <1>9 DEF Progress, Moves, m
  <2>1. CASE i = n
    BY <1>2, <1>7, <2>1
  <2>2. CASE i # n
    <3>1. i < n
      BY <1>2, <1>4, <1>5, <2>2
    <3>2. dir[m[i][1]] = m[i][2]
      BY <1>1, <1>3, <3>1 DEF Progress, m, n
    <3>3. m[i][1] # Target(s)
      BY <1>2, <1>4, <2>2 DEF Distinct
    <3>4. m[i][1] \in Files
      <4>1. m[i] \in Item
        BY MaterialIs DEF MaterialOK, ItemOf, m
      <4> QED BY <4>1 DEF Item
    <3> QED BY <1>7, <3>2, <3>3, <3>4
  <2> QED BY <2>1, <2>2
<1>14. Seen(s)'
  BY <1>5 DEF Seen, Moves
<1>15. ASSUME NEW q \in Savers \ {s}
       PROVE  Progress(q)' /\ Seen(q)'
  <2>1. job'[q] = job[q] /\ old'[q] = old[q] /\ Seen(q)
    BY <1>3, <1>5, <1>9a DEF Moves, FilesInv
  <2>2. Progress(q)'
    BY <1>9, <2>1 DEF Progress
  <2>3. Target(q)' = Target(q) /\ Target(q) \in Files
    BY <1>1, <2>1, TargetIs DEF Target
  <2>4. Exists(Target(q)) => Exists(Target(q))'
    BY <1>2, <1>7, <2>3 DEF Exists
  <2>5. Seen(q)'
    BY <2>1, <2>4 DEF Seen
  <2> QED BY <2>2, <2>5
<1> QED BY <1>8, <1>10, <1>11, <1>12, <1>13, <1>14, <1>15 DEF FilesInv

LEMMA SaveFailKeeps ==
  ASSUME FilesInv, NEW s \in Savers, SaveFail(s)
  PROVE  FilesInv'
<1> DEFINE r == [Idle EXCEPT !.at = "failed"]
<1>1. r \in Jobs /\ r.at = "failed" /\ r.next = 1
  BY DEF Idle, Jobs, Resting
<1>2. FilesTyped /\ Litter
  BY DEF FilesInv
<1>3. /\ job[s].at \in {"write", "rename"} /\ faults < MaxFaults /\ faults' = faults + 1
      /\ job' = [job EXCEPT ![s] = r]
      /\ temps' = IF job[s].at = "rename" THEN temps - 1 ELSE temps
      /\ old' = [old EXCEPT ![s] = FALSE]
      /\ UNCHANGED <<dir, deaths, read, alone>>
  BY DEF SaveFail
<1> HIDE DEF r
<1>4. Moves(s, r)
  BY <1>1, <1>2, <1>3, MovesIs
<1>5. r.next \in 1..Len(Material[s])
  BY <1>1, MaterialIs DEF MaterialOK
<1>6. /\ temps \in Nat /\ faults \in Nat /\ faults' \in 0..MaxFaults
      /\ deaths \in Nat /\ deaths' \in 0..faults'
      /\ alone' \in [Savers -> BOOLEAN]
  BY <1>2, <1>3, MaxFaultsIs DEF FilesTyped
<1>6a. /\ old' \in [Savers -> BOOLEAN] /\ \A q \in Savers \ {s} : old'[q] = old[q]
  <2>1. old \in [Savers -> BOOLEAN]
    BY <1>2 DEF FilesTyped
  <2> QED BY <1>3, <2>1
<1>7. temps' \in Nat /\ Litter'
  <2>1. CASE job[s].at = "rename"
    <3>1. Cardinality(Making) \in Nat \ {0} /\ Cardinality(Making') = Cardinality(Making) - 1
      BY <1>1, <1>4, <2>1, MakingShrinks
    <3> QED BY <1>2, <1>3, <1>6, <2>1, <3>1 DEF Litter
  <2>2. CASE job[s].at # "rename"
    <3>1. Cardinality(Making) \in Nat /\ Cardinality(Making') = Cardinality(Making)
      BY <1>1, <1>3, <1>4, <2>2, MakingSame
    <3> QED BY <1>2, <1>3, <1>6, <2>2, <3>1 DEF Litter
  <2> QED BY <2>1, <2>2
<1>8. Progress(s)' /\ Seen(s)'
  BY <1>1, <1>4 DEF Moves, Progress, Seen
<1> QED BY <1>1, <1>3, <1>4, <1>5, <1>6, <1>7, <1>8, <1>6a, Unpublished

LEMMA DieKeeps ==
  ASSUME FilesInv, NEW s \in Savers, Die(s)
  PROVE  FilesInv'
<1>1. Idle \in Jobs /\ Idle.at = "idle" /\ Idle.next = 1
  BY DEF Idle, Jobs, Resting
<1>2. FilesTyped /\ Litter
  BY DEF FilesInv
<1>3. /\ faults < MaxFaults /\ faults' = faults + 1 /\ deaths' = deaths + 1
      /\ job' = [job EXCEPT ![s] = Idle]
      /\ old' = [old EXCEPT ![s] = FALSE]
      /\ UNCHANGED <<dir, read, alone>>
  BY DEF Die
<1>4. PICK left \in {0, 1} : /\ temps' = temps + left
                             /\ left = 1 => job[s].at = "write"
  BY DEF Die
<1>5. Moves(s, Idle)
  BY <1>1, <1>2, <1>3, MovesIs
<1>6. Idle.next \in 1..Len(Material[s])
  BY <1>1, MaterialIs DEF MaterialOK
<1>7. /\ temps \in Nat /\ temps' \in Nat /\ faults \in Nat /\ faults' \in 0..MaxFaults
      /\ deaths \in Nat /\ deaths' \in 0..faults'
      /\ alone' \in [Savers -> BOOLEAN]
  BY <1>2, <1>3, <1>4, MaxFaultsIs DEF FilesTyped
<1>7a. /\ old' \in [Savers -> BOOLEAN] /\ \A q \in Savers \ {s} : old'[q] = old[q]
  <2>1. old \in [Savers -> BOOLEAN]
    BY <1>2 DEF FilesTyped
  <2> QED BY <1>3, <2>1
<1>8. Litter'
  <2>1. CASE job[s].at \in {"recheck", "rename"}
    <3>1. Cardinality(Making) \in Nat \ {0} /\ Cardinality(Making') = Cardinality(Making) - 1
      BY <1>1, <1>5, <2>1, MakingShrinks
    <3> QED BY <1>2, <1>3, <1>4, <1>7, <2>1, <3>1 DEF Litter
  <2>2. CASE job[s].at \notin {"recheck", "rename"}
    <3>1. Cardinality(Making) \in Nat /\ Cardinality(Making') = Cardinality(Making)
      BY <1>1, <1>5, <2>2, MakingSame
    <3> QED BY <1>2, <1>3, <1>4, <1>7, <3>1 DEF Litter
  <2> QED BY <2>1, <2>2
<1>9. Progress(s)' /\ Seen(s)'
  BY <1>1, <1>5 DEF Moves, Progress, Seen
<1> QED BY <1>1, <1>3, <1>5, <1>6, <1>7, <1>8, <1>9, <1>7a, Unpublished

\* The readers

LEMMA FileIs ==
  ASSUME FilesInv, NEW f \in Files, Exists(f)
  PROVE  \E s \in Savers : ItemOf(s, <<f, dir[f]>>)
<1>1. PICK s \in Savers : Contains(Material[s], <<f, dir[f]>>)
  BY DEF FilesInv, WholeFiles
<1>2. PICK i \in 1..Len(Material[s]) : Material[s][i] = <<f, dir[f]>>
  BY <1>1 DEF Contains
<1> QED BY <1>2, MaterialIs DEF MaterialOK

LEMMA ReadKeeps ==
  ASSUME FilesInv, UNCHANGED <<dir, job, temps, faults, deaths, old, alone>>, ChainRead', LoadedFits'
  PROVE  FilesInv'
<1>1. FilesTyped' /\ WholeFiles' /\ Litter'
  BY DEF FilesInv, FilesTyped, WholeFiles, Litter, Making, Exists
<1>2. ASSUME NEW s \in Savers
      PROVE  Progress(s)' /\ Seen(s)'
  <2>1. Progress(s) /\ Seen(s)
    BY DEF FilesInv
  <2> QED BY <2>1 DEF Progress, Seen, Target, Exists
<1> QED BY <1>1, <1>2 DEF FilesInv

LEMMA LoadCertificatesKeeps ==
  ASSUME FilesInv, LoadCertificates
  PROVE  FilesInv'
<1>1. /\ Exists("chain") /\ read' = [chain |-> dir["chain"].certs, result |-> Refused]
      /\ UNCHANGED <<dir, job, temps, faults, deaths, old, alone>>
  BY DEF LoadCertificates
<1>2. "chain" \in Files
  BY DEF Files
<1>3. PICK s \in Savers : ItemOf(s, <<"chain", dir["chain"]>>)
  BY <1>1, <1>2, FileIs
<1>4. Held[s].leaf # 0 /\ dir["chain"].certs = ChainOf(s)
  BY <1>3 DEF ItemOf
<1>5. ChainRead'
  BY <1>1, <1>4 DEF ChainRead
<1>6. LoadedFits'
  BY <1>1, AcceptedIs DEF LoadedFits
<1> QED BY <1>1, <1>5, <1>6, ReadKeeps

LEMMA Unlocked ==
  ASSUME NEW b, NEW c, NEW l, NEW i, NEW r, NEW k, NEW p, NEW q,
         b = [certs |-> c, leaf |-> l, intermediates |-> i, root |-> r, key |-> k, pass |-> p]
  PROVE  [b EXCEPT !.pass = q].leaf = l /\ [b EXCEPT !.pass = q].key = k
  OBVIOUS

LEMMA LoadKeyKeeps ==
  ASSUME FilesInv, LoadKey
  PROVE  FilesInv'
<1> DEFINE key == dir["key"].key
           pass == dir["key"].pass
           r == normalizeBundle(read.chain, key)
           result == IF ~Exists("key") \/ ~r.ok THEN Refused
                     ELSE Accepted([r.bundle EXCEPT !.pass = pass])
<1>1. /\ read.chain # <<>> /\ read' = [chain |-> <<>>, result |-> result]
      /\ UNCHANGED <<dir, job, temps, faults, deaths, old, alone>>
  BY DEF LoadKey
<1>2. PICK s \in Savers : Held[s].leaf # 0 /\ read.chain = ChainOf(s)
  BY <1>1 DEF FilesInv, ChainRead
<1>3. /\ read.chain \in Seq(Certs) /\ read.chain # <<>> /\ read.chain[1] = Held[s].leaf
      /\ ~Cert[read.chain[1]].ca
  BY <1>2, ChainOfIs, HeldIs
<1>4. Exists("key") => key # ""
  <2> SUFFICES ASSUME Exists("key") PROVE key # ""
    OBVIOUS
  <2>1. "key" \in Files
    BY DEF Files
  <2>2. PICK q \in Savers : ItemOf(q, <<"key", dir["key"]>>)
    BY <2>1, FileIs
  <2> QED BY <2>2 DEF ItemOf
<1> HIDE DEF key, pass
<1>5. result.ok => result.bundle.leaf # 0 /\ Cert[result.bundle.leaf].key = result.bundle.key
  <2>1. CASE ~Exists("key") \/ ~r.ok
    BY <2>1, AcceptedIs
  <2>2. CASE Exists("key") /\ r.ok
    <3>1. PICK b : /\ r.bundle = b
                   /\ b = [certs |-> b.certs, leaf |-> read.chain[1], intermediates |-> b.intermediates,
                           root |-> b.root, key |-> key, pass |-> ""]
                   /\ read.chain[1] # 0 /\ Cert[read.chain[1]].key = key
      BY <1>3, <1>4, <2>2, KeyBesideLeaf
    <3> DEFINE loaded == [b EXCEPT !.pass = pass]
    <3>2. PICK c, i, root : b = [certs |-> c, leaf |-> read.chain[1], intermediates |-> i,
                                 root |-> root, key |-> key, pass |-> ""]
      BY <3>1, ZenonT(30)
    <3>3. loaded.leaf = read.chain[1] /\ loaded.key = key
      BY <3>2, Unlocked, Zenon
    <3>4. result = Accepted(loaded)
      BY <2>2, <3>1
    <3> HIDE DEF loaded, result
    <3> QED BY <3>1, <3>3, <3>4, AcceptedIs
  <2> QED BY <2>1, <2>2
<1> HIDE DEF result
<1>6. ChainRead' /\ LoadedFits'
  BY <1>1, <1>5 DEF ChainRead, LoadedFits
<1> QED BY <1>1, <1>6, ReadKeeps

\* Somebody's earlier files are somebody's files.
LEMMA FilesBegin ==
  FilesInit => FilesInv
<1> SUFFICES ASSUME FilesInit PROVE FilesInv
  OBVIOUS
<1>1. Idle \in Jobs /\ Idle.at = "idle" /\ Idle.next = 1 /\ Saved \in Jobs /\ Saved.at = "saved" /\ Saved.next = 1
  BY DEF Saved, Idle, Jobs, Resting
<1> DEFINE blank == [f \in Files |-> Absent]
           left(s) == [f \in Files |-> IF \E i \in DOMAIN Material[s] : Material[s][i][1] = f
                                      THEN (CHOOSE m \in ToSet(Material[s]) : m[1] = f)[2]
                                      ELSE Absent]
<1>2a. PICK done \in Earlier :
         /\ dir \in {blank} \cup {left(s) : s \in done}
         /\ job = [s \in Savers |-> IF s \in done THEN Saved ELSE Idle]
         /\ alone = [s \in Savers |-> s \notin done]
  BY DEF FilesInit
<1>2b. done \subseteq Savers
  BY EarlierIs
<1>2. /\ job = [s \in Savers |-> IF s \in done THEN Saved ELSE Idle]
      /\ temps = 0 /\ faults = 0 /\ deaths = 0 /\ read = Unread /\ old = [s \in Savers |-> FALSE]
      /\ alone = [s \in Savers |-> s \notin done]
  BY <1>2a DEF FilesInit
<1>3. \A s \in Savers : job[s] \in {Idle, Saved} /\ (alone[s] => job[s] = Idle)
  BY <1>2
<1>4. ASSUME NEW f \in Files
      PROVE  dir[f] \in Contents /\ (dir[f] # Absent => \E s \in Savers : Contains(Material[s], <<f, dir[f]>>))
  <2>1. Absent \in Contents
    <3>1. "" \in KeyNames /\ "" \in Passphrases
      BY ChainConstants DEF KeyNames
    <3> QED BY <3>1, NoCerts, ContentIs DEF Absent
  <2>2. CASE dir = [g \in Files |-> Absent]
    BY <2>1, <2>2
  <2>3. CASE dir # [g \in Files |-> Absent]
    <3>1. PICK s \in done : dir = left(s)
      BY <1>2a, <2>3
    <3>2. s \in Savers
      BY <1>2b
    <3>3. /\ DOMAIN Material[s] = 1..Len(Material[s])
          /\ \A i \in 1..Len(Material[s]) : Material[s][i] \in Item
      <4>1. Material[s] \in Seq(Item)
        BY <3>2, MaterialIs DEF MaterialOK
      <4> QED BY <4>1
    <3> DEFINE c == CHOOSE m \in ToSet(Material[s]) : m[1] = f
    <3>4. CASE \E i \in DOMAIN Material[s] : Material[s][i][1] = f
      <4>1. c \in ToSet(Material[s]) /\ c[1] = f
        BY <3>4 DEF ToSet
      <4>2. dir[f] = c[2]
        BY <3>1, <3>4
      <4> HIDE DEF c
      <4>3. PICK i \in 1..Len(Material[s]) : c = Material[s][i]
        BY <3>3, <4>1 DEF ToSet
      <4>4. c \in Item
        BY <3>3, <4>3
      <4>5. c = <<f, dir[f]>> /\ dir[f] \in Contents
        BY <4>1, <4>2, <4>4 DEF Item
      <4>6. Contains(Material[s], <<f, dir[f]>>)
        BY <4>3, <4>5 DEF Contains
      <4> QED BY <3>2, <4>5, <4>6
    <3>5. CASE ~ \E i \in DOMAIN Material[s] : Material[s][i][1] = f
      <4>1. dir[f] = Absent
        BY <3>1, <3>5
      <4> QED BY <2>1, <4>1
    <3> QED BY <3>4, <3>5
  <2> QED BY <2>2, <2>3
<1>5. \E g : dir = [f \in Files |-> g[f]]
  <2>1. CASE dir = [f \in Files |-> Absent]
    BY <2>1
  <2>2. CASE dir # [f \in Files |-> Absent]
    <3>1. PICK s \in done : dir = left(s)
      BY <1>2a, <2>2
    <3>2. dir = [f \in Files |-> dir[f]]
      BY <3>1
    <3> QED BY <3>2
  <2> QED BY <2>1, <2>2
<1>6. dir \in [Files -> Contents]
  BY <1>4, <1>5
<1>7. WholeFiles
  BY <1>4 DEF WholeFiles, Exists
<1>8. FilesTyped
  <2>1. job \in [Savers -> Jobs]
    BY <1>1, <1>2
  <2>2. \A s \in Savers : job[s].next \in 1..Len(Material[s])
    BY <1>1, <1>3, MaterialIs DEF MaterialOK
  <2>3. faults \in 0..MaxFaults /\ deaths \in 0..faults /\ temps \in Nat
    BY <1>2, MaxFaultsIs
  <2>4. old \in [Savers -> BOOLEAN] /\ alone \in [Savers -> BOOLEAN]
    BY <1>2
  <2> QED BY <1>6, <2>1, <2>2, <2>3, <2>4 DEF FilesTyped
<1>9. ChainRead /\ LoadedFits
  BY <1>2, AcceptedIs DEF ChainRead, LoadedFits, Unread
<1>10. Litter
  <2>1. Making = {}
    BY <1>1, <1>3 DEF Making
  <2> QED BY <1>2, <2>1, FS_EmptySet DEF Litter
<1>11. \A s \in Savers : Progress(s) /\ Seen(s)
  BY <1>1, <1>3 DEF Progress, Seen
<1> QED BY <1>7, <1>8, <1>9, <1>10, <1>11 DEF FilesInv

LEMMA FilesStep ==
  FilesInv /\ [FilesNext]_filesVars => FilesInv'
<1> SUFFICES ASSUME FilesInv, [FilesNext]_filesVars PROVE FilesInv'
  OBVIOUS
<1>1. ASSUME NEW s \in Savers, NEW replace \in BOOLEAN, Begin(s, replace)
      PROVE  FilesInv'
  BY <1>1, BeginKeeps
<1>2. ASSUME NEW s \in Savers, SaveCheck(s)
      PROVE  FilesInv'
  BY <1>2, SaveCheckKeeps
<1>3. ASSUME NEW s \in Savers, SaveWrite(s)
      PROVE  FilesInv'
  BY <1>3, SaveWriteKeeps
<1>4. ASSUME NEW s \in Savers, SaveRecheck(s)
      PROVE  FilesInv'
  BY <1>4, SaveRecheckKeeps
<1>5. ASSUME NEW s \in Savers, SaveRename(s)
      PROVE  FilesInv'
  BY <1>5, SaveRenameKeeps
<1>6. ASSUME NEW s \in Savers, SaveFail(s)
      PROVE  FilesInv'
  BY <1>6, SaveFailKeeps
<1>7. ASSUME NEW s \in Savers, Die(s)
      PROVE  FilesInv'
  BY <1>7, DieKeeps
<1>8. CASE LoadCertificates
  BY <1>8, LoadCertificatesKeeps
<1>9. CASE LoadKey
  BY <1>9, LoadKeyKeeps
<1>10. CASE UNCHANGED filesVars
  <2>1. ChainRead' /\ LoadedFits'
    BY <1>10 DEF FilesInv, ChainRead, LoadedFits, filesVars
  <2> QED BY <1>10, <2>1, ReadKeeps DEF filesVars
<1> QED BY <1>1, <1>2, <1>3, <1>4, <1>5, <1>6, <1>7, <1>8, <1>9, <1>10 DEF FilesNext

-----------------------------------------------------------------------------
\* The theorems

\* Of the five parts of the composition only one is at work, and it leaves the
\* files alone or is about them.
LEMMA FilesAtWork ==
  ASSUME [MCNext]_<<part, vars, optionsVars, bundleVars, filesVars, rotationVars>>
  PROVE  [FilesNext]_filesVars
  BY DEF MCNext

\* What FilesWhole says of states.
LEMMA InvIsWhole ==
  FilesInv => WholeFiles /\ LoadedFits /\ SavedWhole /\ NoLitter /\ FilesTypeOK
<1> SUFFICES ASSUME FilesInv PROVE WholeFiles /\ LoadedFits /\ SavedWhole /\ NoLitter /\ FilesTypeOK
  OBVIOUS
<1>1. \A s \in Savers : DOMAIN Material[s] = 1..Len(Material[s])
  BY MaterialIs DEF MaterialOK
<1>2. SavedWhole
  BY <1>1 DEF FilesInv, Progress, SavedWhole
<1>3. NoLitter
  BY DEF FilesInv, Litter, Making, NoLitter
<1>4. FilesTypeOK
  BY <1>1 DEF FilesInv, FilesTyped, Jobs, FilesTypeOK
<1> QED BY <1>2, <1>3, <1>4 DEF FilesInv

\* Between its second Lstat and its rename a saver that may not replace has
\* seen no file.
LEMMA InvKeepsFiles ==
  ASSUME FilesInv, NEW s \in Savers, job[s].at = "rename", ~job[s].replace
  PROVE  ~old[s]
  BY DEF FilesInv, Seen

\* Every saver works through its own material, however many there are.
LEMMA FilesTypes == MCSpec => []FilesTypeOK
<1>1. MCInit => FilesInv
  BY FilesBegin DEF MCInit
<1>2. FilesInv /\ [MCNext]_<<part, vars, optionsVars, bundleVars, filesVars, rotationVars>> => FilesInv'
  BY FilesAtWork, FilesStep
<1>3. FilesInv => FilesTypeOK
  BY InvIsWhole
<1> QED BY <1>1, <1>2, <1>3, PTL DEF MCSpec

\* For every set of savers, bundles and requests, and however the savers
\* overlap, fail and die (Save, atomicSave, LoadBundle): files are whole, a
\* bundle that loads has a key for its leaf, an undisturbed Save leaves all of
\* its files, only deaths leave temporary ones, and without WithReplace nothing
\* is replaced that was there when the new content was written.
THEOREM FilesAreWhole == MCSpec => FilesWhole
<1>1. MCInit => FilesInv
  BY FilesBegin DEF MCInit
<1>2. FilesInv /\ [MCNext]_<<part, vars, optionsVars, bundleVars, filesVars, rotationVars>> => FilesInv'
  BY FilesAtWork, FilesStep
<1>3. FilesInv => WholeFiles /\ LoadedFits /\ SavedWhole /\ NoLitter
  BY InvIsWhole
<1>4. FilesInv => [\A s \in Savers :
                     job[s].at = "rename" /\ ~job[s].replace /\ old[s]
                        => dir'[Target(s)] = dir[Target(s)] \/ job'[s].at = "rename"]_filesVars
  BY InvKeepsFiles
<1> QED BY <1>1, <1>2, <1>3, <1>4, PTL DEF MCSpec, FilesWhole, NoReplaceKeeps

-----------------------------------------------------------------------------
\* Names without duplicates

\* The loop of normalizeSANsAllowDuplicates over the names of one kind.
Keep(k, out, x) == IF \E y \in Range(out) : SameName(k, x, y) THEN out ELSE Append(out, x)
KeepTurns(it, k, q) ==
    it = [s \in SUBSET DOMAIN q |->
             IF s = {} THEN <<>> ELSE Keep(k, it[s \ {Max(s)}], q[Max(s)])]
Kept(k, q) == (CHOOSE it : KeepTurns(it, k, q))[DOMAIN q]

LEMMA NormalizedIs ==
  ASSUME NEW s, NEW k \in Kinds
  PROVE  normalizeSANsAllowDuplicates(s)[k] = Kept(k, SpelledSANs(s)[k])
<1> HIDE DEF SpelledSANs, SameName
<1>1. normalizeSANsAllowDuplicates(s)[k]
        = FoldLeft(LAMBDA out, x : IF \E y \in Range(out) : SameName(k, x, y)
                                   THEN out ELSE Append(out, x),
                   <<>>, SpelledSANs(s)[k])
  BY DEF normalizeSANsAllowDuplicates
<1> QED BY <1>1 DEF FoldLeft, MapThenFoldSet, Kept, KeepTurns, Keep

\* The loop, one turn after the other.
LEMMA KeptTurns ==
  ASSUME NEW k \in Kinds, NEW T, NEW q \in Seq(T)
  PROVE  \E c \in [0..Len(q) -> Seq(T)] :
            /\ c[0] = <<>> /\ Kept(k, q) = c[Len(q)]
            /\ \A i \in 1..Len(q) : c[i] = Keep(k, c[i - 1], q[i])
<1> DEFINE n == Len(q)
           g == [p \in Seq(T) \X T |-> Keep(k, p[1], p[2])]
<1>1. n \in Nat /\ DOMAIN q = 1..n /\ \A i \in 1..n : q[i] \in T
  OBVIOUS
<1>2. g \in [Seq(T) \X T -> Seq(T)]
  BY DEF Keep
<1>3. \A a \in Seq(T), x \in T : g[<<a, x>>] = Keep(k, a, x)
  OBVIOUS
<1>4. <<>> \in Seq(T)
  OBVIOUS
<1> HIDE DEF n, g
<1>5. \E it : KeepTurns(it, k, q)
  <2>1. PICK it : Turns(it, g, <<>>, q, n)
    BY <1>1, TurnsExist
  <2>2. \A s \in SUBSET (1..n) : it[s] \in Seq(T)
    BY <1>1, <1>2, <1>4, <2>1, TurnsStay
  <2> DEFINE e(s) == Turn(it, g, <<>>, q, s)
             d(s) == IF s = {} THEN <<>> ELSE Keep(k, it[s \ {Max(s)}], q[Max(s)])
  <2>3. ASSUME NEW s \in SUBSET (1..n) PROVE e(s) = d(s)
    <3>1. CASE s = {}
      BY <3>1 DEF Turn
    <3>2. CASE s # {}
      <4>1. Max(s) \in 1..n /\ s \ {Max(s)} \in SUBSET (1..n)
        BY <1>1, <3>2, LastPosition
      <4>2. it[s \ {Max(s)}] \in Seq(T) /\ q[Max(s)] \in T
        BY <1>1, <2>2, <4>1
      <4>3. g[<<it[s \ {Max(s)}], q[Max(s)]>>] = Keep(k, it[s \ {Max(s)}], q[Max(s)])
        BY <1>3, <4>2
      <4> QED BY <3>2, <4>3 DEF Turn
    <3> QED BY <3>1, <3>2
  <2>4. it = [s \in SUBSET (1..n) |-> e(s)]
    BY <2>1 DEF Turns
  <2> HIDE DEF d, e
  <2>5. it = [s \in SUBSET (1..n) |-> d(s)]
    BY <2>3, <2>4
  <2>6. KeepTurns(it, k, q)
    BY <1>1, <2>5 DEF KeepTurns, d
  <2> QED BY <2>6
<1>6. PICK it : KeepTurns(it, k, q) /\ Kept(k, q) = it[DOMAIN q]
  BY <1>5 DEF Kept
<1>7. \A s \in SUBSET (1..n) :
         it[s] = IF s = {} THEN <<>> ELSE Keep(k, it[s \ {Max(s)}], q[Max(s)])
  BY <1>1, <1>6, Zenon DEF KeepTurns
<1> DEFINE c == [i \in 0..n |-> it[1..i]]
<1>8. c[0] = <<>> /\ c[n] = Kept(k, q)
  <2>1. 1..0 = {} /\ {} \in SUBSET (1..n)
    OBVIOUS
  <2>2. it[{}] = <<>>
    BY <1>7, <2>1
  <2> QED BY <1>1, <1>6, <2>1, <2>2
<1>9. \A i \in 1..n : c[i] = Keep(k, c[i - 1], q[i])
  <2> TAKE i \in 1..n
  <2>1. /\ 1..i \in SUBSET (1..n) /\ 1..i # {} /\ Max(1..i) = i
        /\ (1..i) \ {Max(1..i)} = 1..(i - 1)
    BY <1>1, Positions
  <2>2. it[1..i] = Keep(k, it[1..(i - 1)], q[i])
    BY <1>7, <2>1
  <2>3. c[i] = it[1..i] /\ c[i - 1] = it[1..(i - 1)]
    BY <1>1
  <2> QED BY <2>2, <2>3
<1>10. c = [i \in 0..n |-> c[i]]
  OBVIOUS
<1> HIDE DEF c
<1>11. c \in [0..n -> Seq(T)]
  <2> DEFINE Good == {i \in Nat : i <= n => c[i] \in Seq(T)}
  <2>1. 0 \in Good
    BY <1>4, <1>8
  <2>2. ASSUME NEW i \in Nat, i \in Good PROVE i + 1 \in Good
    <3> SUFFICES ASSUME i + 1 <= n PROVE c[i + 1] \in Seq(T)
      OBVIOUS
    <3>1. i + 1 \in 1..n /\ (i + 1) - 1 = i /\ i <= n
      BY <1>1
    <3>2. c[i] \in Seq(T) /\ q[i + 1] \in T
      BY <1>1, <2>2, <3>1
    <3>3. c[i + 1] = Keep(k, c[i], q[i + 1])
      BY <1>9, <3>1
    <3> QED BY <3>2, <3>3 DEF Keep
  <2> HIDE DEF Good
  <2>3. Nat \subseteq Good
    BY <2>1, <2>2, EveryNatural
  <2>4. \A i \in 0..n : c[i] \in Seq(T)
    <3> TAKE i \in 0..n
    <3>1. i \in Nat /\ i <= n
      BY <1>1
    <3>2. i \in Good
      BY <2>3, <3>1
    <3> QED BY <3>1, <3>2 DEF Good
  <2> QED BY <1>10, <2>4
<1> QED BY <1>8, <1>9, <1>11 DEF n

\* Names that differ for the duplicate checks.
Differ(k, q) == \A a, b \in DOMAIN q : a # b => ~SameName(k, q[a], q[b])

LEMMA SameNames ==
  ASSUME NEW k \in Kinds, NEW x, NEW y
  PROVE  /\ SameName(k, x, x)
         /\ SameName(k, x, y) \in BOOLEAN
         /\ SameName(k, x, y) => SameName(k, y, x)
  BY DEF SameName, Kinds

LEMMA KeepOne ==
  ASSUME NEW k \in Kinds, NEW T, NEW out \in Seq(T), NEW x \in T
  PROVE  /\ Range(Keep(k, out, x)) \subseteq Range(out) \cup {x}
         /\ Range(out) \subseteq Range(Keep(k, out, x))
         /\ \E y \in Range(Keep(k, out, x)) : SameName(k, x, y)
         /\ Differ(k, out) => Differ(k, Keep(k, out, x))
<1>1. CASE \E y \in Range(out) : SameName(k, x, y)
  <2>1. Keep(k, out, x) = out
    BY <1>1 DEF Keep
  <2> QED BY <1>1, <2>1
<1>2. CASE ~ \E y \in Range(out) : SameName(k, x, y)
  <2> DEFINE r == Append(out, x)
             n == Len(out)
  <2>1. Keep(k, out, x) = r
    BY <1>2 DEF Keep
  <2>2. /\ n \in Nat /\ DOMAIN out = 1..n /\ DOMAIN r = 1..(n + 1)
        /\ r[n + 1] = x /\ \A i \in 1..n : r[i] = out[i]
    OBVIOUS
  <2> HIDE DEF r, n
  <2>3. \A i \in 1..(n + 1) : i \in 1..n \/ i = n + 1
    BY <2>2
  <2>4. Range(r) = Range(out) \cup {x}
    <3>1. ASSUME NEW y \in Range(r) PROVE y \in Range(out) \cup {x}
      BY <2>2, <2>3 DEF Range
    <3>2. x \in Range(r)
      <4>1. n + 1 \in 1..(n + 1)
        BY <2>2
      <4> QED BY <2>2, <4>1 DEF Range
    <3>3. ASSUME NEW y \in Range(out) PROVE y \in Range(r)
      <4>1. PICK i \in 1..n : y = out[i]
        BY <2>2 DEF Range
      <4>2. i \in 1..(n + 1) /\ y = r[i]
        BY <2>2, <4>1
      <4> QED BY <2>2, <4>2 DEF Range
    <3> QED BY <3>1, <3>2, <3>3
  <2>5. ASSUME Differ(k, out) PROVE Differ(k, r)
    <3> SUFFICES ASSUME NEW a \in 1..(n + 1), NEW b \in 1..(n + 1), a # b, SameName(k, r[a], r[b])
                 PROVE  FALSE
      BY <2>2 DEF Differ
    <3>1. CASE a \in 1..n /\ b \in 1..n
      BY <2>2, <2>5, <3>1 DEF Differ
    <3>2. CASE a = n + 1 /\ b \in 1..n
      <4>1. out[b] \in Range(out) /\ SameName(k, x, out[b])
        BY <2>2, <3>2 DEF Range
      <4> QED BY <1>2, <4>1
    <3>3. CASE b = n + 1 /\ a \in 1..n
      <4>1. out[a] \in Range(out) /\ SameName(k, out[a], x)
        BY <2>2, <3>3 DEF Range
      <4> QED BY <1>2, <4>1, SameNames
    <3> QED BY <2>3, <3>1, <3>2, <3>3
  <2> QED BY <2>1, <2>4, <2>5, SameNames
<1> QED BY <1>1, <1>2

\* What is kept: some of the names, one for each, and all of them when they
\* differ.
LEMMA KeptIs ==
  ASSUME NEW k \in Kinds, NEW T, NEW q \in Seq(T)
  PROVE  /\ Kept(k, q) \in Seq(T)
         /\ Range(Kept(k, q)) \subseteq Range(q)
         /\ \A x \in Range(q) : \E y \in Range(Kept(k, q)) : SameName(k, x, y)
         /\ Differ(k, Kept(k, q))
         /\ Differ(k, q) => Kept(k, q) = q
<1> DEFINE n == Len(q)
<1>1. n \in Nat /\ DOMAIN q = 1..n /\ \A i \in 1..n : q[i] \in T
  OBVIOUS
<1>2. PICK c \in [0..n -> Seq(T)] :
            /\ c[0] = <<>> /\ Kept(k, q) = c[n]
            /\ \A i \in 1..n : c[i] = Keep(k, c[i - 1], q[i])
  BY KeptTurns
<1> HIDE DEF n
<1> DEFINE Says(i) ==
             /\ Range(c[i]) \subseteq Range(q)
             /\ \A j \in 1..i : \E y \in Range(c[i]) : SameName(k, q[j], y)
             /\ Differ(k, c[i])
             /\ Differ(k, q) => Len(c[i]) = i /\ \A j \in 1..i : c[i][j] = q[j]
           Good == {i \in Nat : i <= n => Says(i)}
<1>3. 0 \in Good
  <2>1. Says(0)
    BY <1>2 DEF Range, Differ
  <2> QED BY <2>1
<1>4. ASSUME NEW i \in Nat, i \in Good PROVE i + 1 \in Good
  <2> SUFFICES ASSUME i + 1 <= n PROVE Says(i + 1)
    OBVIOUS
  <2>1. i + 1 \in 1..n /\ (i + 1) - 1 = i /\ i \in 0..n /\ i + 1 \in 0..n
    BY <1>1
  <2>2. Says(i)
    <3>1. i <= n
      BY <2>1
    <3> HIDE DEF Says
    <3> QED BY <1>4, <3>1
  <2>3. c[i] \in Seq(T) /\ c[i + 1] = Keep(k, c[i], q[i + 1]) /\ q[i + 1] \in T
    BY <1>1, <1>2, <2>1
  <2>4. q[i + 1] \in Range(q)
    BY <1>1, <2>1 DEF Range
  <2>5. /\ Range(c[i + 1]) \subseteq Range(c[i]) \cup {q[i + 1]}
        /\ Range(c[i]) \subseteq Range(c[i + 1])
        /\ \E y \in Range(c[i + 1]) : SameName(k, q[i + 1], y)
        /\ Differ(k, c[i]) => Differ(k, c[i + 1])
    BY <2>3, KeepOne
  <2>6. \A j \in 1..(i + 1) : j \in 1..i \/ j = i + 1
    OBVIOUS
  <2>7. ASSUME Differ(k, q)
        PROVE  Len(c[i + 1]) = i + 1 /\ \A j \in 1..(i + 1) : c[i + 1][j] = q[j]
    <3>1. Len(c[i]) = i /\ \A j \in 1..i : c[i][j] = q[j]
      BY <2>2, <2>7
    <3>2. ~ \E y \in Range(c[i]) : SameName(k, q[i + 1], y)
      <4> SUFFICES ASSUME NEW y \in Range(c[i]), SameName(k, q[i + 1], y) PROVE FALSE
        OBVIOUS
      <4>1. PICK j \in 1..i : y = c[i][j]
        BY <2>3, <3>1 DEF Range
      <4>2. j \in 1..n /\ j # i + 1 /\ SameName(k, q[i + 1], q[j])
        BY <1>1, <2>1, <3>1, <4>1
      <4> QED BY <1>1, <2>1, <2>7, <4>2 DEF Differ
    <3>3. c[i + 1] = Append(c[i], q[i + 1])
      BY <2>3, <3>2 DEF Keep
    <3> QED BY <2>3, <2>6, <3>1, <3>3
  <2> QED BY <2>2, <2>4, <2>5, <2>6, <2>7
<1> HIDE DEF Good
<1>5. Nat \subseteq Good
  BY <1>3, <1>4, EveryNatural
<1>6. Says(n) /\ c[n] \in Seq(T)
  <2>1. n \in Good
    BY <1>1, <1>5
  <2> QED BY <1>1, <1>2, <2>1 DEF Good
<1>7. \A x \in Range(q) : \E y \in Range(c[n]) : SameName(k, x, y)
  BY <1>1, <1>6 DEF Range
<1>8. ASSUME Differ(k, q) PROVE c[n] = q
  <2>1. Len(c[n]) = n /\ \A j \in 1..n : c[n][j] = q[j]
    BY <1>6, <1>8
  <2>2. c[n] = [j \in 1..n |-> c[n][j]] /\ q = [j \in 1..n |-> q[j]]
    BY <1>1, <1>6, <2>1
  <2> QED BY <2>1, <2>2
<1> QED BY <1>2, <1>6, <1>7, <1>8

-----------------------------------------------------------------------------
\* Spelling

\* Names spelled as they are kept, no two of them the same.
Settled(s) ==
    /\ IsSANs(s)
    /\ \A k \in Kinds : /\ \A i \in DOMAIN s[k] : Spelled(k, s[k][i]) = s[k][i]
                        /\ Differ(k, s[k])

AllValid(s) == \A k \in Kinds : \A i \in DOMAIN s[k] : ValidName(k, Spelled(k, s[k][i]))

LEMMA SpelledName ==
  ASSUME NEW k \in Kinds, NEW x \in NameSet(k)
  PROVE  /\ Spelled(k, x) \in NameSet(k)
         /\ Spelled(k, Spelled(k, x)) = Spelled(k, x)
         /\ k \in {"dns", "email"} => Spelled(k, x).labels = x.labels
         /\ k \in {"ip", "uri"} => Spelled(k, x) = x
<1>1. CASE k = "dns"
  BY <1>1 DEF Spelled, NameSet, DNS, Pads
<1>2. CASE k = "email"
  BY <1>2 DEF Spelled, NameSet
<1>3. CASE k \in {"ip", "uri"}
  BY <1>3 DEF Spelled
<1> QED BY <1>1, <1>2, <1>3 DEF Kinds

LEMMA SpelledIs ==
  ASSUME NEW s, IsSANs(s)
  PROVE  /\ IsSANs(SpelledSANs(s))
         /\ \A k \in Kinds : /\ DOMAIN SpelledSANs(s)[k] = DOMAIN s[k]
                             /\ Len(SpelledSANs(s)[k]) = Len(s[k])
                             /\ \A i \in DOMAIN s[k] : SpelledSANs(s)[k][i] = Spelled(k, s[k][i])
<1> DEFINE t == SpelledSANs(s)
<1>1. t = [k \in Kinds |-> [i \in DOMAIN s[k] |-> Spelled(k, s[k][i])]]
  BY DEF SpelledSANs
<1> HIDE DEF t
<1>2. ASSUME NEW k \in Kinds
      PROVE  /\ t[k] \in Seq(NameSet(k)) /\ DOMAIN t[k] = DOMAIN s[k] /\ Len(t[k]) = Len(s[k])
             /\ \A i \in DOMAIN s[k] : t[k][i] = Spelled(k, s[k][i])
  <2>1. s[k] \in Seq(NameSet(k))
    BY DEF IsSANs
  <2> DEFINE n == Len(s[k])
  <2>2. n \in Nat /\ DOMAIN s[k] = 1..n /\ \A i \in 1..n : s[k][i] \in NameSet(k)
    BY <2>1
  <2> HIDE DEF n
  <2>3. t[k] = [i \in 1..n |-> Spelled(k, s[k][i])]
    BY <1>1, <2>2
  <2>4. \A i \in 1..n : Spelled(k, s[k][i]) \in NameSet(k)
    BY <2>2, SpelledName
  <2>5. t[k] \in Seq(NameSet(k)) /\ Len(t[k]) = n
    BY <2>2, <2>3, <2>4
  <2> QED BY <2>2, <2>3, <2>5 DEF n
<1>3. t = [k \in Kinds |-> t[k]]
  BY <1>1
<1> QED BY <1>2, <1>3 DEF IsSANs, t

LEMMA ValidIs ==
  ASSUME NEW s, IsSANs(s)
  PROVE  ValidSANs(s) <=> AllValid(s)
<1>1. \A k \in Kinds : Range(SpelledSANs(s)[k]) = {Spelled(k, s[k][i]) : i \in DOMAIN s[k]}
  BY SpelledIs DEF Range
<1> QED BY <1>1 DEF ValidSANs, AllValid

\* normalizeSANsAllowDuplicates settles names.
LEMMA NormalizedSettles ==
  ASSUME NEW s, IsSANs(s)
  PROVE  LET t == normalizeSANsAllowDuplicates(s) IN
         /\ Settled(t)
         /\ \A k \in Kinds : \A x \in Range(t[k]) : \E z \in Range(s[k]) : x = Spelled(k, z)
         /\ \A k \in Kinds : \A z \in Range(s[k]) : \E x \in Range(t[k]) :
               SameName(k, Spelled(k, z), x)
         /\ AllValid(s) => AllValid(t)
<1> DEFINE t == normalizeSANsAllowDuplicates(s)
           q(k) == SpelledSANs(s)[k]
<1>1. t = [k \in Kinds |-> t[k]]
  BY DEF normalizeSANsAllowDuplicates
<1>2. ASSUME NEW k \in Kinds PROVE t[k] = Kept(k, q(k))
  BY NormalizedIs
<1> HIDE DEF t
<1>3. ASSUME NEW k \in Kinds
      PROVE  /\ q(k) \in Seq(NameSet(k))
             /\ Range(q(k)) = {Spelled(k, z) : z \in Range(s[k])}
             /\ \A z \in Range(s[k]) : z \in NameSet(k)
  <2>1. s[k] \in Seq(NameSet(k)) /\ q(k) \in Seq(NameSet(k))
    BY SpelledIs DEF IsSANs
  <2> QED BY <2>1, SpelledIs DEF Range
<1> HIDE DEF q
<1>4. ASSUME NEW k \in Kinds
      PROVE  /\ t[k] \in Seq(NameSet(k))
             /\ Range(t[k]) \subseteq Range(q(k))
             /\ \A x \in Range(q(k)) : \E y \in Range(t[k]) : SameName(k, x, y)
             /\ Differ(k, t[k])
  BY <1>2, <1>3, KeptIs
<1>5. ASSUME NEW k \in Kinds, NEW x \in Range(t[k]) PROVE \E z \in Range(s[k]) : x = Spelled(k, z)
  BY <1>3, <1>4
<1>6. ASSUME NEW k \in Kinds, NEW z \in Range(s[k])
      PROVE  \E x \in Range(t[k]) : SameName(k, Spelled(k, z), x)
  BY <1>3, <1>4
<1>7. ASSUME NEW k \in Kinds, NEW i \in DOMAIN t[k] PROVE Spelled(k, t[k][i]) = t[k][i]
  <2>1. t[k][i] \in Range(t[k])
    BY DEF Range
  <2>2. PICK z \in Range(s[k]) : t[k][i] = Spelled(k, z)
    BY <1>5, <2>1
  <2> QED BY <1>3, <2>2, SpelledName
<1>8. Settled(t)
  BY <1>1, <1>4, <1>7 DEF Settled, IsSANs
<1>9. ASSUME AllValid(s) PROVE AllValid(t)
  <2> SUFFICES ASSUME NEW k \in Kinds, NEW i \in DOMAIN t[k] PROVE ValidName(k, Spelled(k, t[k][i]))
    BY DEF AllValid
  <2>1. t[k][i] \in Range(t[k])
    BY DEF Range
  <2>2. PICK z \in Range(s[k]) : t[k][i] = Spelled(k, z)
    BY <1>5, <2>1
  <2>3. ValidName(k, Spelled(k, z))
    BY <1>9 DEF AllValid, Range
  <2> QED BY <1>7, <2>2, <2>3
<1> QED BY <1>5, <1>6, <1>8, <1>9 DEF t

\* Names of a kind that are spelled as they are kept, no two the same, are not
\* changed by it.
LEMMA KindStays ==
  ASSUME NEW s, IsSANs(s), NEW k \in Kinds, \A i \in DOMAIN s[k] : Spelled(k, s[k][i]) = s[k][i]
  PROVE  SpelledSANs(s)[k] = s[k] /\ (Differ(k, s[k]) => normalizeSANsAllowDuplicates(s)[k] = s[k])
<1>1. s[k] \in Seq(NameSet(k)) /\ SpelledSANs(s)[k] \in Seq(NameSet(k))
  BY SpelledIs DEF IsSANs
<1>2. /\ DOMAIN SpelledSANs(s)[k] = DOMAIN s[k] /\ Len(SpelledSANs(s)[k]) = Len(s[k])
      /\ \A i \in DOMAIN s[k] : SpelledSANs(s)[k][i] = s[k][i]
  BY SpelledIs
<1>3. SpelledSANs(s)[k] = s[k]
  BY <1>1, <1>2
<1>4. ASSUME Differ(k, s[k]) PROVE normalizeSANsAllowDuplicates(s)[k] = s[k]
  <2>1. normalizeSANsAllowDuplicates(s)[k] = Kept(k, s[k])
    BY <1>3, NormalizedIs
  <2> QED BY <1>1, <1>4, <2>1, KeptIs
<1> QED BY <1>3, <1>4

\* Settled names are not changed by it.
LEMMA SettledStays ==
  ASSUME NEW s, Settled(s)
  PROVE  SpelledSANs(s) = s /\ normalizeSANsAllowDuplicates(s) = s
<1>1. IsSANs(s)
  BY DEF Settled
<1>2. \A k \in Kinds : SpelledSANs(s)[k] = s[k] /\ normalizeSANsAllowDuplicates(s)[k] = s[k]
  BY <1>1, KindStays DEF Settled
<1>3. SpelledSANs(s) = s
  BY <1>1, <1>2, SpelledIs DEF IsSANs
<1>4. normalizeSANsAllowDuplicates(s) = [k \in Kinds |-> normalizeSANsAllowDuplicates(s)[k]]
  BY DEF normalizeSANsAllowDuplicates
<1>5. normalizeSANsAllowDuplicates(s) = s
  BY <1>1, <1>2, <1>4 DEF IsSANs
<1> QED BY <1>3, <1>5

\* What normalizeSANs accepts it settles.
LEMMA NormalizesSettles ==
  ASSUME NEW s, IsSANs(s), Normalizes(s)
  PROVE  Settled(normalizeSANs(s)) /\ AllValid(normalizeSANs(s))
<1> DEFINE t == SpelledSANs(s)
<1>1. /\ IsSANs(t)
      /\ \A k \in Kinds : /\ DOMAIN t[k] = DOMAIN s[k]
                          /\ \A i \in DOMAIN s[k] : t[k][i] = Spelled(k, s[k][i])
  BY SpelledIs
<1>2. \A k \in Kinds : Differ(k, t[k])
  BY <1>1 DEF Normalizes, NoDuplicates, Differ
<1>3. AllValid(s)
  BY ValidIs DEF Normalizes
<1> HIDE DEF t
<1>4. ASSUME NEW k \in Kinds, NEW i \in DOMAIN s[k] PROVE s[k][i] \in NameSet(k)
  <2>1. s[k] \in Seq(NameSet(k))
    BY DEF IsSANs
  <2> QED BY <2>1
<1>5. \A k \in Kinds : \A i \in DOMAIN t[k] : Spelled(k, t[k][i]) = t[k][i]
  BY <1>1, <1>4, SpelledName
<1>6. AllValid(t)
  BY <1>1, <1>3, <1>5 DEF AllValid
<1> QED BY <1>1, <1>2, <1>5, <1>6 DEF Settled, t, normalizeSANs

LEMMA JoinedElement ==
  ASSUME NEW T, NEW a \in Seq(T), NEW b \in Seq(T), NEW i \in DOMAIN (a \o b)
  PROVE  \/ i \in DOMAIN a /\ (a \o b)[i] = a[i]
         \/ i - Len(a) \in DOMAIN b /\ (a \o b)[i] = b[i - Len(a)]
<1>1. /\ a \o b \in Seq(T) /\ Len(a \o b) = Len(a) + Len(b) /\ Len(a) \in Nat /\ Len(b) \in Nat
      /\ \A p \in 1..(Len(a) + Len(b)) :
           (a \o b)[p] = IF p <= Len(a) THEN a[p] ELSE b[p - Len(a)]
  BY ConcatProperties
<1>2. i \in 1..(Len(a) + Len(b)) /\ DOMAIN a = 1..Len(a) /\ DOMAIN b = 1..Len(b)
  BY <1>1
<1>3. PICK n \in Nat, m \in Nat : n = Len(a) /\ m = Len(b)
  BY <1>1
<1>4. (i \in 1..n /\ i <= n) \/ (~(i <= n) /\ i - n \in 1..m)
  BY <1>2, <1>3
<1> QED BY <1>1, <1>2, <1>3, <1>4

LEMMA JoinedSANs ==
  ASSUME NEW a, IsSANs(a), NEW b, IsSANs(b)
  PROVE  LET j == [k \in Kinds |-> a[k] \o b[k]] IN
         IsSANs(j) /\ (AllValid(a) /\ AllValid(b) => AllValid(j))
<1> DEFINE j == [k \in Kinds |-> a[k] \o b[k]]
<1>1. j = [k \in Kinds |-> j[k]]
  OBVIOUS
<1>2. ASSUME NEW k \in Kinds
      PROVE  /\ a[k] \in Seq(NameSet(k)) /\ b[k] \in Seq(NameSet(k)) /\ j[k] = a[k] \o b[k]
             /\ j[k] \in Seq(NameSet(k))
  BY DEF IsSANs
<1> HIDE DEF j
<1>3. IsSANs(j)
  BY <1>1, <1>2 DEF IsSANs
<1>4. ASSUME AllValid(a), AllValid(b), NEW k \in Kinds, NEW i \in DOMAIN j[k]
      PROVE  ValidName(k, Spelled(k, j[k][i]))
  <2>1. (i \in DOMAIN a[k] /\ j[k][i] = a[k][i]) \/
        (i - Len(a[k]) \in DOMAIN b[k] /\ j[k][i] = b[k][i - Len(a[k])])
    <3>1. a[k] \in Seq(NameSet(k)) /\ b[k] \in Seq(NameSet(k)) /\ j[k] = a[k] \o b[k]
      BY <1>2
    <3>2. i \in DOMAIN (a[k] \o b[k])
      BY <1>4, <3>1
    <3> QED BY ZenonT(30), <3>1, <3>2, JoinedElement
  <2> QED BY <1>4, <2>1 DEF AllValid
<1> QED BY <1>3, <1>4 DEF AllValid, j

-----------------------------------------------------------------------------
\* Certificates and JSON

\* Names that differ in the width of addresses at most.
Alike(s, t) ==
    /\ \A k \in Kinds \ {"ip"} : t[k] = s[k]
    /\ DOMAIN t["ip"] = DOMAIN s["ip"]
    /\ \A i \in DOMAIN s["ip"] : t["ip"][i].net = s["ip"][i].net /\ t["ip"][i].host = s["ip"][i].host

LEMMA AlikeSettled ==
  ASSUME NEW s, IsSANs(s), NEW t, IsSANs(t), Alike(s, t)
  PROVE  /\ Settled(s) => Settled(t)
         /\ AllValid(s) => AllValid(t)
         /\ MarshalJSON(t) = MarshalJSON(s)
         /\ \A k \in Kinds : DOMAIN t[k] = DOMAIN s[k]
<1>1. \A k \in Kinds : k = "ip" \/ t[k] = s[k]
  BY DEF Alike
<1>2. \A x : Spelled("ip", x) = x
  BY DEF Spelled
<1>3. \A x, y : SameName("ip", x, y) <=> x.net = y.net /\ x.host = y.host
  BY DEF SameName
<1>4. Differ("ip", s["ip"]) => Differ("ip", t["ip"])
  BY <1>3 DEF Differ, Alike
<1>5. ASSUME Settled(s) PROVE Settled(t)
  BY <1>1, <1>2, <1>4, <1>5 DEF Settled
<1>6. ASSUME AllValid(s) PROVE AllValid(t)
  <2>1. \A x : ValidName("ip", x) <=> x.net # Unfit
    BY DEF ValidName
  <2>2. \A i \in DOMAIN t["ip"] : ValidName("ip", Spelled("ip", t["ip"][i]))
    BY <1>2, <1>6, <2>1 DEF AllValid, Alike, Kinds
  <2> QED BY <1>1, <1>6, <2>2 DEF AllValid
<1>7. MarshalJSON(t) = MarshalJSON(s)
  <2>1. [i \in DOMAIN t["ip"] |-> <<t["ip"][i].net, t["ip"][i].host>>]
          = [i \in DOMAIN s["ip"] |-> <<s["ip"][i].net, s["ip"][i].host>>]
    BY DEF Alike
  <2>2. s = [k \in Kinds |-> s[k]] /\ t = [k \in Kinds |-> t[k]]
    BY DEF IsSANs
  <2> QED BY <1>1, <2>1, <2>2 DEF MarshalJSON
<1>8. \A k \in Kinds : DOMAIN t[k] = DOMAIN s[k]
  BY <1>1 DEF Alike
<1> QED BY <1>5, <1>6, <1>7, <1>8

\* Addresses, one by one.
Addresses == [net: STRING, host: Nat, wide: BOOLEAN]

LEMMA SameAddress ==
  ASSUME NEW x \in Addresses, NEW y \in Addresses, x.net = y.net, x.host = y.host, x.wide = y.wide
  PROVE  x = y
  BY DEF Addresses

LEMMA AddressNarrowed ==
  ASSUME NEW x \in Addresses
  PROVE  [x EXCEPT !.wide = FALSE] = IP(x.net, x.host, FALSE)
<1>1. PICK b \in BOOLEAN : b = FALSE
  OBVIOUS
<1> DEFINE y == [x EXCEPT !.wide = b]
           z == IP(x.net, x.host, b)
<1>2. y \in Addresses /\ y.net = x.net /\ y.host = x.host /\ y.wide = b
  BY DEF Addresses
<1>3. z \in Addresses /\ z.net = x.net /\ z.host = x.host /\ z.wide = b
  BY DEF Addresses, IP
<1> HIDE DEF y, z
<1>4. y = z
  BY <1>2, <1>3, SameAddress
<1> QED BY <1>1, <1>4 DEF y, z

LEMMA AddressesMade ==
  ASSUME NEW n \in Nat, NEW f, NEW wide \in BOOLEAN, \A i \in 1..n : f[i] \in Addresses
  PROVE  \A w : w = [i \in 1..n |-> IP(f[i].net, f[i].host, wide)] =>
         /\ w \in Seq(Addresses) /\ DOMAIN w = 1..n /\ w = [i \in DOMAIN w |-> w[i]]
         /\ \A i \in 1..n : /\ w[i] \in Addresses /\ w[i].net = f[i].net
                            /\ w[i].host = f[i].host /\ w[i].wide = wide
                            /\ w[i] = IP(f[i].net, f[i].host, wide)
<1> DEFINE e(i) == IP(f[i].net, f[i].host, wide)
           w == [i \in 1..n |-> e(i)]
<1>1. \A i \in 1..n : /\ e(i) \in Addresses /\ e(i).net = f[i].net
                     /\ e(i).host = f[i].host /\ e(i).wide = wide
  BY DEF IP, Addresses
<1> HIDE DEF e
<1>2. w \in Seq(Addresses)
  BY <1>1
<1> QED BY <1>1, <1>2 DEF e

\* URIs, one by one.
Locators == [chunks: Seq(STRING), upper: BOOLEAN]

LEMMA SameLocator ==
  ASSUME NEW x \in Locators, NEW y \in Locators, x.chunks = y.chunks, x.upper = y.upper
  PROVE  x = y
  BY DEF Locators

LEMMA LocatorParsed ==
  ASSUME NEW x \in Locators
  PROVE  /\ Parse(x) \in Locators /\ Parse(x).chunks = x.chunks /\ ~Parse(x).upper
         /\ Parse(Parse(x)) = Parse(x)
         /\ ~x.upper => Parse(x) = x
<1>1. PICK b \in BOOLEAN : b = FALSE
  OBVIOUS
<1>2. Parse(x) = URI(x.chunks, b)
  BY <1>1 DEF Parse
<1>3. URI(x.chunks, b) \in Locators /\ URI(x.chunks, b).chunks = x.chunks /\ URI(x.chunks, b).upper = b
  BY DEF URI, Locators
<1>4. Parse(x) \in Locators /\ Parse(x).chunks = x.chunks /\ Parse(x).upper = b
  BY <1>2, <1>3
<1>5. Parse(Parse(x)) = Parse(x)
  BY <1>4 DEF Parse
<1>6. ASSUME ~x.upper PROVE Parse(x) = x
  <2>1. x.upper \in BOOLEAN
    BY DEF Locators
  <2>2. x.upper = b
    BY <1>1, <1>6, <2>1
  <2> QED BY <1>4, <2>2, SameLocator
<1> QED BY <1>1, <1>4, <1>5, <1>6

LEMMA LocatorsParsed ==
  ASSUME NEW q \in Seq(Locators), NEW w, w = [i \in DOMAIN q |-> Parse(q[i])]
  PROVE  /\ w \in Seq(Locators) /\ DOMAIN w = DOMAIN q
         /\ \A i \in DOMAIN q : w[i] = Parse(q[i])
         /\ [i \in DOMAIN w |-> Parse(w[i])] = w
<1>1. PICK n \in Nat : n = Len(q)
  OBVIOUS
<1>2. DOMAIN q = 1..n /\ \A i \in 1..n : q[i] \in Locators
  BY <1>1
<1>3. \A i \in 1..n : Parse(q[i]) \in Locators /\ Parse(Parse(q[i])) = Parse(q[i])
  BY <1>2, LocatorParsed
<1>4. w = [i \in 1..n |-> Parse(q[i])]
  BY <1>2
<1>5. w \in Seq(Locators) /\ DOMAIN w = 1..n /\ \A i \in 1..n : w[i] = Parse(q[i])
  BY <1>3, <1>4
<1>6. [i \in DOMAIN w |-> Parse(w[i])] = w
  BY <1>3, <1>4, <1>5
<1> QED BY <1>2, <1>5, <1>6

\* What a certificate and JSON make of names: addresses may change their width,
\* and URIs are parsed.
Echoes(s, t) ==
    /\ t["dns"] = s["dns"] /\ t["email"] = s["email"]
    /\ DOMAIN t["ip"] = DOMAIN s["ip"]
    /\ \A i \in DOMAIN s["ip"] : t["ip"][i].net = s["ip"][i].net /\ t["ip"][i].host = s["ip"][i].host
    /\ DOMAIN t["uri"] = DOMAIN s["uri"]
    /\ \A i \in DOMAIN s["uri"] : t["uri"][i] = Parse(s["uri"][i])

\* Names whose URIs have their scheme in lower case: what is made of them differs
\* in the width of addresses at most.
Lower(s) == \A i \in DOMAIN s["uri"] : ~s["uri"][i].upper

LEMMA EchoIs ==
  ASSUME NEW s, IsSANs(s), NEW t, IsSANs(t), Echoes(s, t)
  PROVE  /\ Lower(t)
         /\ Lower(s) => Alike(s, t)
         /\ AllValid(s) => AllValid(t)
         /\ \A k \in Kinds : DOMAIN t[k] = DOMAIN s[k]
         /\ \A k \in Kinds : \A i \in DOMAIN s[k] :
               Spelled(k, s[k][i]) = s[k][i] => Spelled(k, t[k][i]) = t[k][i]
<1>1. Kinds = {"dns", "ip", "uri", "email"} /\ \A x : Spelled("ip", x) = x /\ Spelled("uri", x) = x
  BY DEF Kinds, Spelled
<1>2. s["uri"] \in Seq(Locators) /\ t["uri"] \in Seq(Locators)
  BY <1>1 DEF IsSANs, NameSet, Locators
<1>3. \A i \in DOMAIN s["uri"] : s["uri"][i] \in Locators
  BY <1>2
<1>4. \A i \in DOMAIN s["uri"] : /\ t["uri"][i].chunks = s["uri"][i].chunks /\ ~t["uri"][i].upper
                                 /\ ~s["uri"][i].upper => t["uri"][i] = s["uri"][i]
  BY <1>3, LocatorParsed DEF Echoes
<1>5. Lower(t)
  BY <1>4 DEF Lower, Echoes
<1>6. ASSUME Lower(s) PROVE Alike(s, t)
  <2>1. \A i \in DOMAIN s["uri"] : t["uri"][i] = s["uri"][i]
    BY <1>4, <1>6 DEF Lower
  <2>2. DOMAIN t["uri"] = DOMAIN s["uri"]
    BY DEF Echoes
  <2>3. t["uri"] = s["uri"]
    BY <1>2, <2>1, <2>2
  <2> QED BY <1>1, <2>3 DEF Alike, Echoes
<1>7. ASSUME AllValid(s), NEW k \in Kinds, NEW i \in DOMAIN t[k] PROVE ValidName(k, Spelled(k, t[k][i]))
  <2>1. CASE k \in {"dns", "email"}
    BY <1>7, <2>1 DEF AllValid, Echoes
  <2>2. CASE k = "ip"
    <3>1. \A x : ValidName("ip", x) <=> x.net # Unfit
      BY DEF ValidName
    <3> QED BY <1>1, <1>7, <2>2, <3>1 DEF AllValid, Echoes
  <2>3. CASE k = "uri"
    <3>1. \A x : ValidName("uri", x) <=> x.chunks # <<>> /\ Head(x.chunks) # ""
      BY DEF ValidName
    <3>2. i \in DOMAIN s["uri"] /\ t["uri"][i].chunks = s["uri"][i].chunks
      BY <1>4, <1>7, <2>3 DEF Echoes
    <3>3. ValidName("uri", s["uri"][i])
      BY <1>1, <1>7, <2>3, <3>2 DEF AllValid
    <3> QED BY <1>1, <2>3, <3>1, <3>2, <3>3
  <2> QED BY <1>1, <2>1, <2>2, <2>3
<1>8. \A k \in Kinds : DOMAIN t[k] = DOMAIN s[k]
  BY <1>1 DEF Echoes
<1>9. \A k \in Kinds : \A i \in DOMAIN s[k] :
         Spelled(k, s[k][i]) = s[k][i] => Spelled(k, t[k][i]) = t[k][i]
  BY <1>1 DEF Echoes
<1> QED BY <1>5, <1>6, <1>7, <1>8, <1>9 DEF AllValid

LEMMA CertificateEchoes ==
  ASSUME NEW s, IsSANs(s)
  PROVE  IsSANs(x509(s)) /\ Echoes(s, x509(s)) /\ x509(x509(s)) = x509(s)
<1> DEFINE w == [i \in DOMAIN s["ip"] |-> [s["ip"][i] EXCEPT !.wide = FALSE]]
           l == [i \in DOMAIN s["uri"] |-> Parse(s["uri"][i])]
           t == x509(s)
<1>1. s = [k \in Kinds |-> s[k]] /\ \A k \in Kinds : s[k] \in Seq(NameSet(k))
  BY DEF IsSANs
<1>2. t = [s EXCEPT !["ip"] = w, !["uri"] = l]
  BY DEF x509
<1>3. s["ip"] \in Seq(Addresses) /\ s["uri"] \in Seq(Locators)
  BY <1>1 DEF NameSet, Kinds, Addresses, Locators
<1>3a. /\ l \in Seq(Locators) /\ DOMAIN l = DOMAIN s["uri"]
       /\ \A i \in DOMAIN s["uri"] : l[i] = Parse(s["uri"][i])
       /\ [i \in DOMAIN l |-> Parse(l[i])] = l
  BY <1>3, LocatorsParsed
<1>4. /\ w \in Seq(Addresses) /\ DOMAIN w = DOMAIN s["ip"]
      /\ \A i \in DOMAIN s["ip"] : w[i].net = s["ip"][i].net /\ w[i].host = s["ip"][i].host
      /\ [i \in DOMAIN w |-> [w[i] EXCEPT !.wide = FALSE]] = w
  <2>1. PICK n \in Nat : n = Len(s["ip"])
    BY <1>3
  <2>2. DOMAIN s["ip"] = 1..n /\ \A i \in 1..n : s["ip"][i] \in Addresses
    BY <1>3, <2>1
  <2>3b. PICK b \in BOOLEAN : b = FALSE
    OBVIOUS
  <2> DEFINE f == s["ip"]
             v == [i \in 1..n |-> IP(f[i].net, f[i].host, b)]
  <2>3c. v = [i \in 1..n |-> IP(f[i].net, f[i].host, b)]
    OBVIOUS
  <2>3a. \A i \in 1..n : f[i] \in Addresses
    BY <2>2
  <2> HIDE DEF f
  <2>3. w = v
    BY <2>2, <2>3b, AddressNarrowed DEF f
  <2> HIDE DEF v
  <2>4. /\ v \in Seq(Addresses) /\ DOMAIN v = 1..n /\ v = [i \in DOMAIN v |-> v[i]]
        /\ \A i \in 1..n : /\ v[i] \in Addresses /\ v[i].net = f[i].net /\ v[i].host = f[i].host
                           /\ v[i].wide = b /\ v[i] = IP(f[i].net, f[i].host, b)
    BY <2>3a, <2>3c, AddressesMade
  <2> HIDE DEF w, v, f
  <2>5. \A i \in 1..n : [v[i] EXCEPT !.wide = FALSE] = v[i]
    <3> TAKE i \in 1..n
    <3>1. [v[i] EXCEPT !.wide = FALSE] = IP(v[i].net, v[i].host, FALSE)
      BY <2>4, AddressNarrowed
    <3>2. IP(v[i].net, v[i].host, FALSE) = IP(f[i].net, f[i].host, b)
      BY <2>3b, <2>4
    <3> QED BY <2>4, <3>1, <3>2
  <2>6. [i \in DOMAIN v |-> [v[i] EXCEPT !.wide = FALSE]] = v
    BY <2>4, <2>5
  <2> QED BY <2>2, <2>3, <2>4, <2>6 DEF f
<1> HIDE DEF w, l, t
<1>5. t = [k \in Kinds |-> IF k = "ip" THEN w ELSE IF k = "uri" THEN l ELSE s[k]]
  BY <1>1, <1>2 DEF Kinds
<1>6. IsSANs(t)
  BY <1>1, <1>3a, <1>4, <1>5 DEF IsSANs, NameSet, Kinds, Addresses, Locators
<1>7. Echoes(s, t)
  BY <1>3a, <1>4, <1>5 DEF Echoes, Kinds
<1>8. x509(t) = t
  <2>1. t["ip"] = w /\ t["uri"] = l
    BY <1>5 DEF Kinds
  <2>3. x509(t) = [t EXCEPT !["ip"] = w, !["uri"] = l]
    BY <1>3a, <1>4, <2>1 DEF x509
  <2> QED BY <1>5, <2>1, <2>3
<1> QED BY <1>6, <1>7, <1>8 DEF t

LEMMA JSONEchoes ==
  ASSUME NEW s, IsSANs(s)
  PROVE  IsSANs(UnmarshalJSON(MarshalJSON(s))) /\ Echoes(s, UnmarshalJSON(MarshalJSON(s)))
<1> DEFINE w == [i \in DOMAIN s["ip"] |-> <<s["ip"][i].net, s["ip"][i].host>>]
           u == [i \in DOMAIN s["ip"] |-> IP(s["ip"][i].net, s["ip"][i].host, TRUE)]
           l == [i \in DOMAIN s["uri"] |-> Parse(s["uri"][i])]
           t == UnmarshalJSON(MarshalJSON(s))
<1>1. s = [k \in Kinds |-> s[k]] /\ \A k \in Kinds : s[k] \in Seq(NameSet(k))
  BY DEF IsSANs
<1>2. MarshalJSON(s) = [k \in Kinds |-> IF k = "ip" THEN w ELSE s[k]]
  BY <1>1 DEF MarshalJSON, Kinds
<1>3. t = [k \in Kinds |-> IF k = "ip" THEN u ELSE IF k = "uri" THEN l ELSE s[k]]
  <2> DEFINE m == MarshalJSON(s)
  <2>1. m["ip"] = w /\ m["uri"] = s["uri"] /\ m = [k \in Kinds |-> IF k = "ip" THEN w ELSE s[k]]
    BY <1>2 DEF Kinds
  <2>2. DOMAIN w = DOMAIN s["ip"] /\ \A i \in DOMAIN s["ip"] :
            w[i][1] = s["ip"][i].net /\ w[i][2] = s["ip"][i].host
    OBVIOUS
  <2> HIDE DEF m, w
  <2>3. [i \in DOMAIN w |-> IP(w[i][1], w[i][2], TRUE)] = u
    BY <2>2
  <2> HIDE DEF u
  <2>4. UnmarshalJSON(m) = [m EXCEPT !["ip"] = u, !["uri"] = l]
    BY <2>1, <2>3 DEF UnmarshalJSON
  <2> HIDE DEF l
  <2> QED BY <2>1, <2>4 DEF m, Kinds
<1>4. s["ip"] \in Seq(Addresses) /\ s["uri"] \in Seq(Locators)
  BY <1>1 DEF NameSet, Kinds, Addresses, Locators
<1>4a. /\ l \in Seq(Locators) /\ DOMAIN l = DOMAIN s["uri"]
       /\ \A i \in DOMAIN s["uri"] : l[i] = Parse(s["uri"][i])
  BY <1>4, LocatorsParsed
<1>5. /\ u \in Seq(Addresses) /\ DOMAIN u = DOMAIN s["ip"]
      /\ \A i \in DOMAIN s["ip"] : u[i].net = s["ip"][i].net /\ u[i].host = s["ip"][i].host
  <2>1. PICK n \in Nat : n = Len(s["ip"])
    BY <1>4
  <2>2. DOMAIN s["ip"] = 1..n /\ \A i \in 1..n : s["ip"][i] \in Addresses
    BY <1>4, <2>1
  <2>3b. PICK b \in BOOLEAN : b = TRUE
    OBVIOUS
  <2> DEFINE f == s["ip"]
             v == [i \in 1..n |-> IP(f[i].net, f[i].host, b)]
  <2>3c. v = [i \in 1..n |-> IP(f[i].net, f[i].host, b)]
    OBVIOUS
  <2>3a. \A i \in 1..n : f[i] \in Addresses
    BY <2>2
  <2> HIDE DEF f
  <2>3. u = v
    BY <2>2, <2>3b DEF f
  <2> HIDE DEF v
  <2>4. /\ v \in Seq(Addresses) /\ DOMAIN v = 1..n
        /\ \A i \in 1..n : v[i].net = f[i].net /\ v[i].host = f[i].host
    BY <2>3a, <2>3c, AddressesMade
  <2> HIDE DEF u, v, f
  <2> QED BY <2>2, <2>3, <2>4 DEF f
<1> HIDE DEF u, l, t
<1>6. IsSANs(t)
  BY <1>1, <1>3, <1>4a, <1>5 DEF IsSANs, NameSet, Kinds, Addresses, Locators
<1>7. Echoes(s, t)
  BY <1>3, <1>4a, <1>5 DEF Echoes, Kinds
<1> QED BY <1>6, <1>7 DEF t

-----------------------------------------------------------------------------
\* Labels and chunks

LEMMA PrefixIs ==
  ASSUME NEW T, NEW p \in Seq(T), NEW u \in Seq(T), IsPrefix(p, u)
  PROVE  SubSeq(u, 1, Len(p)) = p
<1>1. SubSeq(p, 1, Len(p)) = p
  BY SubSeqFull
<1> QED BY <1>1 DEF IsPrefix

LEMMA SuffixIs ==
  ASSUME NEW T, NEW p \in Seq(T), p # <<>>, NEW u \in Seq(T), IsSuffix(p, u)
  PROVE  \E n \in DOMAIN u : SubSeq(u, n, Len(u)) = p
<1>1. PICK a \in Nat, b \in Nat : a = Len(p) /\ b = Len(u)
  OBVIOUS
<1>2. /\ DOMAIN p = 1..a /\ DOMAIN u = 1..b /\ a # 0
      /\ (\A i \in 1..a : p[i] \in T) /\ \A i \in 1..b : u[i] \in T
  BY <1>1
<1> DEFINE rp == Reverse(p)
           ru == Reverse(u)
<1>3. rp \in Seq(T) /\ Len(rp) = a /\ \A i \in 1..a : rp[i] = p[a - i + 1]
  <2>1. rp = [i \in 1..a |-> p[a - i + 1]]
    BY <1>1 DEF Reverse
  <2>2. \A i \in 1..a : a - i + 1 \in 1..a
    OBVIOUS
  <2>3. \A i \in 1..a : p[a - i + 1] \in T
    BY <1>2, <2>2
  <2> HIDE DEF rp
  <2> QED BY <2>1, <2>3
<1>4. ru \in Seq(T) /\ Len(ru) = b /\ \A i \in 1..b : ru[i] = u[b - i + 1]
  <2>1. ru = [i \in 1..b |-> u[b - i + 1]]
    BY <1>1 DEF Reverse
  <2>2. \A i \in 1..b : b - i + 1 \in 1..b
    OBVIOUS
  <2>3. \A i \in 1..b : u[b - i + 1] \in T
    BY <1>2, <2>2
  <2> HIDE DEF ru
  <2> QED BY <2>1, <2>3
<1>5. IsPrefix(rp, ru)
  BY DEF IsSuffix
<1> HIDE DEF rp, ru
<1>6. a <= b /\ SubSeq(ru, 1, a) = rp
  BY <1>3, <1>4, <1>5, PrefixIs DEF IsPrefix
<1>7. \A i \in 1..a : rp[i] = ru[i]
  <2>1. \A i \in 1..b : ru[i] \in T
    BY <1>4
  <2>2. \A i \in 1..a : ru[i] \in T
    BY <1>6, <2>1
  <2>3. \A i \in 1..(a - 1 + 1) : SubSeq(ru, 1, a)[i] = ru[1 + i - 1]
    BY <2>2, SubSeqProperties
  <2>4. \A i \in 1..a : i \in 1..(a - 1 + 1) /\ 1 + i - 1 = i
    OBVIOUS
  <2> QED BY <1>6, <2>3, <2>4
<1>8. \A i \in 1..a : p[i] = u[b - a + i]
  <2> TAKE i \in 1..a
  <2>1. /\ a - i + 1 \in 1..a /\ a - (a - i + 1) + 1 = i
        /\ a - i + 1 \in 1..b /\ b - (a - i + 1) + 1 = b - a + i
    BY <1>6
  <2>2. rp[a - i + 1] = p[i]
    BY <1>3, <2>1
  <2>3. ru[a - i + 1] = u[b - a + i]
    BY <1>4, <2>1
  <2> QED BY <1>7, <2>1, <2>2, <2>3
<1>9. PICK n \in Nat : n = b - a + 1 /\ n \in 1..b
  BY <1>2, <1>6
<1> DEFINE w == SubSeq(u, n, b)
<1>10. w \in Seq(T) /\ Len(w) = a /\ \A i \in 1..a : w[i] = u[b - a + i]
  <2>1. \A i \in n..b : i \in 1..b
    BY <1>9
  <2>2. \A i \in n..b : u[i] \in T
    BY <1>2, <2>1
  <2>3. n \in Int /\ b \in Int
    BY <1>1, <1>9
  <2>4. /\ w \in Seq(T) /\ Len(w) = IF n <= b THEN b - n + 1 ELSE 0
        /\ \A i \in 1..(b - n + 1) : w[i] = u[n + i - 1]
    BY <2>2, <2>3, SubSeqProperties
  <2>5. b - n + 1 = a /\ n <= b /\ \A i \in 1..a : n + i - 1 = b - a + i
    BY <1>6, <1>9
  <2> HIDE DEF w
  <2> QED BY <2>4, <2>5
<1> HIDE DEF w
<1>11. w = p
  BY <1>1, <1>2, <1>8, <1>10
<1> QED BY <1>1, <1>2, <1>9, <1>11 DEF w

-----------------------------------------------------------------------------
\* Definitions

\* A sequence made element by element from another one.
LEMMA MadeSequence ==
  ASSUME NEW S, NEW T, NEW q \in Seq(S), NEW e,
         e = [i \in DOMAIN q |-> e[i]], \A i \in DOMAIN q : e[i] \in T
  PROVE  e \in Seq(T) /\ Len(e) = Len(q) /\ DOMAIN e = DOMAIN q
<1>1. PICK n \in Nat : n = Len(q)
  OBVIOUS
<1>2. DOMAIN q = 1..n
  BY <1>1
<1> QED BY <1>1, <1>2

LEMMA SuffixOf ==
  ASSUME NEW d \in NameSet("dns")
  PROVE  /\ Suffix(d) \in NameSet("dns") /\ Suffix(Suffix(d)) = Suffix(d)
         /\ Suffix(d).labels = d.labels
         /\ Domain(d) \in NameSet("dns") /\ Domain(Domain(d)) = Domain(d)
         /\ Domain(d).labels = d.labels
  BY DEF Suffix, Domain, DNS, NameSet, Pads

LEMMA ProfilesFit == Profiles # <<>> /\ IsInjective(Profiles)
<1>1. /\ DOMAIN Profiles = {1, 2, 3}
      /\ Profiles[1] = "client" /\ Profiles[2] = "server" /\ Profiles[3] = "both"
  BY DEF Profiles
<1> HIDE DEF Profiles
<1> QED BY <1>1 DEF IsInjective

\* What validateDefinition makes of a definition it accepts, it accepts and
\* leaves alone; it keeps what the definition allows.
LEMMA DefinitionSettles ==
  ASSUME NEW d, IsDefinition(d), FitDefinition(Defaulted(d))
  PROVE  LET e == validateDefinition(d) IN
         /\ IsDefinition(e)
         /\ FitDefinition(e) /\ FitDefinition(Defaulted(e)) /\ validateDefinition(e) = e
         /\ e.owner.t = d.owner.t /\ e.required.o.t = d.required.o.t
         /\ e.required.cn.t = d.required.cn.t
         /\ e.ip = d.ip /\ e.uri = d.uri
         /\ DOMAIN e.dns = DOMAIN d.dns /\ DOMAIN e.email = DOMAIN d.email
         /\ \A i \in DOMAIN d.dns : e.dns[i].labels = d.dns[i].labels /\ d.dns[i].labels # <<>>
         /\ \A i \in DOMAIN d.email : e.email[i].labels = d.email[i].labels
<1> DEFINE ps == IF d.profiles = <<>> THEN Profiles ELSE d.profiles
           f == Defaulted(d)
           e == validateDefinition(d)
           dn == [i \in DOMAIN d.dns |-> Suffix(d.dns[i])]
           em == [i \in DOMAIN d.email |-> Domain(d.email[i])]
           ow == Field(d.owner.t, FALSE)
           rq == Plain(normalizeIdentity(d.required))
<1>1. /\ d.owner \in FieldSet /\ d.required \in IdentitySet
      /\ d.dns \in Seq(NameSet("dns")) /\ d.ip \in Seq(STRING) /\ d.uri \in Seq(NameSet("uri"))
      /\ d.email \in Seq(NameSet("dns"))
  BY DEF IsDefinition
<1>2. /\ IsDefinition(f)
      /\ f.profiles = ps /\ f.owner = d.owner /\ f.required = d.required /\ f.dns = d.dns
      /\ f.ip = d.ip /\ f.uri = d.uri /\ f.email = d.email
  <2>1. d = [profiles |-> d.profiles, owner |-> d.owner, required |-> d.required,
             dns |-> d.dns, ip |-> d.ip, uri |-> d.uri, email |-> d.email]
    BY DEF IsDefinition
  <2>2. f = [d EXCEPT !.profiles = ps]
    BY DEF Defaulted
  <2> HIDE DEF f, ps
  <2>3. f = [profiles |-> ps, owner |-> d.owner, required |-> d.required,
             dns |-> d.dns, ip |-> d.ip, uri |-> d.uri, email |-> d.email]
    BY <2>1, <2>2
  <2> QED BY <1>1, <2>3 DEF IsDefinition
<1>3. /\ dn \in Seq(NameSet("dns")) /\ DOMAIN dn = DOMAIN d.dns
      /\ \A i \in DOMAIN d.dns : dn[i] = Suffix(d.dns[i]) /\ dn[i].labels = d.dns[i].labels
      /\ [i \in DOMAIN dn |-> Suffix(dn[i])] = dn
  <2>1. \A i \in DOMAIN d.dns : d.dns[i] \in NameSet("dns")
    BY <1>1
  <2>2. /\ dn = [i \in DOMAIN d.dns |-> dn[i]] /\ DOMAIN dn = DOMAIN d.dns
        /\ \A i \in DOMAIN d.dns : dn[i] = Suffix(d.dns[i])
    OBVIOUS
  <2> HIDE DEF dn
  <2>3. \A i \in DOMAIN d.dns : dn[i] \in NameSet("dns") /\ Suffix(dn[i]) = dn[i]
                             /\ dn[i].labels = d.dns[i].labels
    BY <2>1, <2>2, SuffixOf
  <2>4. dn \in Seq(NameSet("dns"))
    BY <1>1, <2>2, <2>3, MadeSequence
  <2> QED BY <2>2, <2>3, <2>4
<1>4. /\ em \in Seq(NameSet("dns")) /\ DOMAIN em = DOMAIN d.email
      /\ \A i \in DOMAIN d.email : em[i].labels = d.email[i].labels
      /\ [i \in DOMAIN em |-> Domain(em[i])] = em
  <2>1. \A i \in DOMAIN d.email : d.email[i] \in NameSet("dns")
    BY <1>1
  <2>2. /\ em = [i \in DOMAIN d.email |-> em[i]] /\ DOMAIN em = DOMAIN d.email
        /\ \A i \in DOMAIN d.email : em[i] = Domain(d.email[i])
    OBVIOUS
  <2> HIDE DEF em
  <2>3. \A i \in DOMAIN d.email : em[i] \in NameSet("dns") /\ Domain(em[i]) = em[i]
                             /\ em[i].labels = d.email[i].labels
    BY <2>1, <2>2, SuffixOf
  <2>4. em \in Seq(NameSet("dns"))
    BY <1>1, <2>2, <2>3, MadeSequence
  <2> QED BY <2>2, <2>3, <2>4
<1>5. /\ ow \in FieldSet /\ ow.t = d.owner.t /\ Field(ow.t, FALSE) = ow
      /\ rq \in IdentitySet /\ rq.o.t = d.required.o.t /\ rq.cn.t = d.required.cn.t
      /\ Plain(normalizeIdentity(rq)) = rq
  BY <1>1 DEF Field, FieldSet, IdentitySet, Plain, normalizeIdentity
<1>6. e = [f EXCEPT !.owner = ow, !.required = rq, !.dns = dn, !.email = em]
  BY <1>2 DEF validateDefinition, finishIssuerDefinition
<1> HIDE DEF f, dn, em, ow, rq, e
<1>7. /\ IsDefinition(e)
      /\ e.profiles = ps /\ e.owner = ow /\ e.required = rq /\ e.dns = dn /\ e.ip = d.ip
      /\ e.uri = d.uri /\ e.email = em
  BY <1>2, <1>3, <1>4, <1>5, <1>6 DEF IsDefinition
<1>8. /\ ps # <<>> /\ Range(ps) \subseteq Range(Profiles) /\ IsInjective(ps)
      /\ d.owner.t # Unfit /\ FitIdentity(d.required)
      /\ \A s \in Range(d.dns) : validDNSName(Suffix(s), FALSE)
      /\ \A n \in Range(d.ip) : n # Unfit
      /\ \A u \in Range(d.uri) : ValidName("uri", u)
      /\ \A x \in Range(d.email) : x.labels # <<>>
  BY <1>2, ProfilesFit DEF FitDefinition, f
<1>9. FitDefinition(e)
  <2>1. FitIdentity(rq)
    BY <1>5, <1>8 DEF FitIdentity
  <2>2. \A s \in Range(dn) : validDNSName(Suffix(s), FALSE)
    <3> TAKE s \in Range(dn)
    <3>1. PICK i \in DOMAIN d.dns : s = dn[i]
      BY <1>3 DEF Range
    <3>2. d.dns[i] \in Range(d.dns) /\ s = Suffix(d.dns[i]) /\ d.dns[i] \in NameSet("dns")
      BY <1>1, <1>3, <3>1 DEF Range
    <3> QED BY <1>8, <3>2, SuffixOf
  <2>3. \A x \in Range(em) : x.labels # <<>>
    <3> TAKE x \in Range(em)
    <3>1. PICK i \in DOMAIN d.email : x = em[i]
      BY <1>4 DEF Range
    <3>2. d.email[i] \in Range(d.email)
      BY <3>1 DEF Range
    <3> QED BY <1>4, <1>8, <3>1, <3>2
  <2> HIDE DEF ps
  <2> QED BY <1>5, <1>7, <1>8, <2>1, <2>2, <2>3 DEF FitDefinition
<1>10. Defaulted(e) = e
  BY <1>7, <1>8 DEF Defaulted, IsDefinition
<1>11. validateDefinition(e) = e
  <2>1. finishIssuerDefinition(e) = [e EXCEPT !.owner = ow, !.required = rq, !.dns = dn, !.email = em]
    BY <1>3, <1>4, <1>5, <1>7 DEF finishIssuerDefinition
  <2>2. [e EXCEPT !.owner = ow, !.required = rq, !.dns = dn, !.email = em] = e
    BY <1>7 DEF IsDefinition
  <2> QED BY <1>10, <2>1, <2>2 DEF validateDefinition
<1>12. \A i \in DOMAIN d.dns : d.dns[i].labels # <<>>
  <2> TAKE i \in DOMAIN d.dns
  <2>1. d.dns[i] \in Range(d.dns) /\ d.dns[i] \in NameSet("dns")
    BY <1>1 DEF Range
  <2>2. validDNSName(Suffix(d.dns[i]), FALSE) /\ Suffix(d.dns[i]).labels = d.dns[i].labels
    BY <1>8, <2>1, SuffixOf
  <2> QED BY <2>2 DEF validDNSName, validLabels
<1> QED BY <1>3, <1>4, <1>5, <1>7, <1>9, <1>10, <1>11, <1>12 DEF e

-----------------------------------------------------------------------------
\* The policy

LEMMA NoElements ==
  ASSUME NEW S, NEW T, NEW q \in Seq(S), NEW r \in Seq(T), DOMAIN q = DOMAIN r, q # <<>>
  PROVE  r # <<>>
<1>1. PICK n \in Nat : n = Len(q)
  OBVIOUS
<1>2. DOMAIN q = 1..n /\ n # 0
  BY <1>1
<1>3. 1 \in DOMAIN r
  BY <1>2
<1> QED BY <1>3

LEMMA NameIn ==
  ASSUME NEW s, IsSANs(s), NEW k \in Kinds, NEW x \in Range(s[k])
  PROVE  x \in NameSet(k)
<1>1. s[k] \in Seq(NameSet(k))
  BY DEF IsSANs
<1> QED BY <1>1 DEF Range

LEMMA NameFields ==
  /\ \A x \in NameSet("dns") : x.labels \in Seq(STRING)
  /\ \A x \in NameSet("uri") : x.chunks \in Seq(STRING)
  /\ \A x \in NameSet("ip") : x \in Addresses
  /\ {"dns", "ip", "uri", "email"} = Kinds
  BY DEF NameSet, Kinds, Addresses

\* What validateRequest lets pass, the operator declared.
LEMMA PolicyDeclared ==
  ASSUME NEW d, IsDefinition(d), FitDefinition(Defaulted(d)), config.declared = d,
         NEW subject, NEW sans, IsSANs(sans),
         validateRequest(validateDefinition(d), subject, sans)
  PROVE  Declared(subject, sans)
<1> DEFINE e == validateDefinition(d)
<1>1. /\ IsDefinition(e)
      /\ e.owner.t = d.owner.t /\ e.required.o.t = d.required.o.t
      /\ e.required.cn.t = d.required.cn.t
      /\ e.ip = d.ip /\ e.uri = d.uri
      /\ DOMAIN e.dns = DOMAIN d.dns /\ DOMAIN e.email = DOMAIN d.email
      /\ \A i \in DOMAIN d.dns : e.dns[i].labels = d.dns[i].labels /\ d.dns[i].labels # <<>>
      /\ \A i \in DOMAIN d.email : e.email[i].labels = d.email[i].labels
  BY DefinitionSettles
<1>2. validateRequest(e, subject, sans)
  OBVIOUS
<1> HIDE DEF e
<1>3. /\ d.dns \in Seq(NameSet("dns")) /\ e.dns \in Seq(NameSet("dns"))
      /\ d.email \in Seq(NameSet("dns")) /\ e.email \in Seq(NameSet("dns"))
      /\ d.uri \in Seq(NameSet("uri"))
  BY <1>1 DEF IsDefinition
<1>4. /\ d.owner.t \in {"", subject.o} /\ d.required.o.t \in {"", subject.o}
      /\ d.required.cn.t \in {"", subject.cn}
  BY <1>1, <1>2 DEF validateRequest
<1>5. ASSUME NEW x \in Range(sans.dns), d.dns # <<>>
      PROVE  \E i \in DOMAIN d.dns : \E n \in DOMAIN x.labels :
                SubSeq(x.labels, n, Len(x.labels)) = d.dns[i].labels
  <2>1. e.dns # <<>>
    BY <1>1, <1>3, <1>5, NoElements
  <2>2. matchesDNSSuffix(x, e.dns)
    BY <1>2, <1>5, <2>1 DEF validateRequest
  <2>3. PICK i \in DOMAIN e.dns : IsSuffix(e.dns[i].labels, x.labels)
    BY <2>2 DEF matchesDNSSuffix, Range
  <2>4. e.dns[i].labels = d.dns[i].labels /\ d.dns[i].labels # <<>> /\ i \in DOMAIN d.dns
    BY <1>1, <2>3
  <2>5. d.dns[i] \in NameSet("dns") /\ x \in NameSet("dns")
    <3>1. "dns" \in Kinds /\ x \in Range(sans["dns"])
      BY <1>5, NameFields
    <3> QED BY <1>3, <2>4, <3>1, NameIn
  <2>6. d.dns[i].labels \in Seq(STRING) /\ x.labels \in Seq(STRING)
    BY <2>5, NameFields
  <2>7. \E n \in DOMAIN x.labels : SubSeq(x.labels, n, Len(x.labels)) = d.dns[i].labels
    BY <2>3, <2>4, <2>6, SuffixIs
  <2> QED BY <2>4, <2>7
<1>6. ASSUME NEW x \in Range(sans.ip), d.ip # <<>> PROVE x.net \in Range(d.ip)
  BY <1>1, <1>2, <1>6 DEF validateRequest
<1>7. ASSUME NEW x \in Range(sans.uri), d.uri # <<>>
      PROVE  \E i \in DOMAIN d.uri :
                SubSeq(x.chunks, 1, Len(d.uri[i].chunks)) = d.uri[i].chunks
  <2>1. PICK i \in DOMAIN d.uri : IsPrefix(d.uri[i].chunks, x.chunks)
    <3>1. \E p \in Range(d.uri) : IsPrefix(p.chunks, x.chunks)
      BY <1>1, <1>2, <1>7 DEF validateRequest
    <3> QED BY <3>1 DEF Range
  <2>2. d.uri[i].chunks \in Seq(STRING) /\ x.chunks \in Seq(STRING)
    <3>1. "uri" \in Kinds /\ x \in Range(sans["uri"])
      BY <1>7, NameFields
    <3> QED BY <1>3, <2>1, <3>1, NameIn, NameFields
  <2> QED BY <2>1, <2>2, PrefixIs
<1>8. ASSUME NEW x \in Range(sans.email), d.email # <<>>
      PROVE  \E i \in DOMAIN d.email : d.email[i].labels = x.labels
  <2>1. e.email # <<>>
    BY <1>1, <1>3, <1>8, NoElements
  <2>2. PICK i \in DOMAIN e.email : e.email[i].labels = x.labels
    <3>1. \E p \in Range(e.email) : p.labels = x.labels
      BY <1>2, <1>8, <2>1 DEF validateRequest
    <3> QED BY <3>1 DEF Range
  <2> QED BY <1>1, <2>2
<1> QED BY <1>4, <1>5, <1>6, <1>7, <1>8 DEF Declared

\* Names that are others in another spelling are declared with them.
LEMMA DeclaredAlike ==
  ASSUME NEW s, IsSANs(s), NEW t, IsSANs(t), NEW subject, Declared(subject, t),
         \A k \in Kinds : \A z \in Range(s[k]) : \E x \in Range(t[k]) :
             SameName(k, Spelled(k, z), x)
  PROVE  Declared(subject, s)
<1> DEFINE d == config.declared
<1>1. ASSUME NEW z \in Range(s.dns) PROVE \E x \in Range(t.dns) : x.labels = z.labels
  <2>1. "dns" \in Kinds /\ z \in Range(s["dns"])
    BY NameFields
  <2>2. PICK x \in Range(t["dns"]) : SameName("dns", Spelled("dns", z), x)
    BY <2>1
  <2>3. Spelled("dns", z).labels = z.labels
    BY <2>1, NameIn, SpelledName
  <2> QED BY <2>2, <2>3 DEF SameName
<1>2. ASSUME NEW z \in Range(s.ip) PROVE \E x \in Range(t.ip) : x.net = z.net
  <2>1. "ip" \in Kinds /\ z \in Range(s["ip"])
    BY NameFields
  <2>2. PICK x \in Range(t["ip"]) : SameName("ip", Spelled("ip", z), x)
    BY <2>1
  <2> QED BY <2>2 DEF SameName, Spelled
<1>3. ASSUME NEW z \in Range(s.uri) PROVE z \in Range(t.uri)
  <2>1. "uri" \in Kinds /\ z \in Range(s["uri"])
    BY NameFields
  <2>2. PICK x \in Range(t["uri"]) : SameName("uri", Spelled("uri", z), x)
    BY <2>1
  <2> QED BY <2>2 DEF SameName, Spelled
<1>4. ASSUME NEW z \in Range(s.email) PROVE \E x \in Range(t.email) : x.labels = z.labels
  <2>1. "email" \in Kinds /\ z \in Range(s["email"])
    BY NameFields
  <2>2. PICK x \in Range(t["email"]) : SameName("email", Spelled("email", z), x)
    BY <2>1
  <2>3. Spelled("email", z).labels = z.labels
    BY <2>1, NameIn, SpelledName
  <2> QED BY <2>2, <2>3 DEF SameName
<1>5. \A z \in Range(s.dns) : d.dns = <<>> \/
          \E i \in DOMAIN d.dns : \E n \in DOMAIN z.labels :
              SubSeq(z.labels, n, Len(z.labels)) = d.dns[i].labels
  <2> SUFFICES ASSUME NEW z \in Range(s.dns), d.dns # <<>>
               PROVE  \E i \in DOMAIN d.dns : \E n \in DOMAIN z.labels :
                        SubSeq(z.labels, n, Len(z.labels)) = d.dns[i].labels
    OBVIOUS
  <2>1. PICK x \in Range(t.dns) : x.labels = z.labels
    BY <1>1
  <2>2. \E i \in DOMAIN d.dns : \E n \in DOMAIN x.labels :
           SubSeq(x.labels, n, Len(x.labels)) = d.dns[i].labels
    BY Zenon DEF Declared
  <2> QED BY <2>1, <2>2
<1>6. \A z \in Range(s.ip) : d.ip = <<>> \/ z.net \in Range(d.ip)
  BY <1>2 DEF Declared
<1>7. \A z \in Range(s.uri) : d.uri = <<>> \/
          \E i \in DOMAIN d.uri : SubSeq(z.chunks, 1, Len(d.uri[i].chunks)) = d.uri[i].chunks
  BY <1>3 DEF Declared
<1>8. \A z \in Range(s.email) : d.email = <<>> \/
          \E i \in DOMAIN d.email : d.email[i].labels = z.labels
  BY ZenonT(30), <1>4 DEF Declared
<1> QED BY <1>5, <1>6, <1>7, <1>8 DEF Declared

\* What a certificate makes of settled names are those in another spelling.
LEMMA CertificateNames ==
  ASSUME NEW s, Settled(s), Lower(s)
  PROVE  \A k \in Kinds : \A z \in Range(x509(s)[k]) : \E x \in Range(s[k]) :
             SameName(k, Spelled(k, z), x)
<1> DEFINE t == x509(s)
<1>1. IsSANs(s) /\ IsSANs(t) /\ Alike(s, t)
  BY CertificateEchoes, EchoIs DEF Settled
<1>2. Settled(t) /\ \A k \in Kinds : DOMAIN t[k] = DOMAIN s[k]
  BY <1>1, AlikeSettled
<1> HIDE DEF t
<1> SUFFICES ASSUME NEW k \in Kinds, NEW i \in DOMAIN t[k]
             PROVE  \E x \in Range(s[k]) : SameName(k, Spelled(k, t[k][i]), x)
  BY DEF t, Range
<1>3. Spelled(k, t[k][i]) = t[k][i] /\ i \in DOMAIN s[k] /\ s[k][i] \in Range(s[k])
  BY <1>2 DEF Settled, Range
<1>4. SameName(k, t[k][i], s[k][i])
  <2>1. CASE k = "ip"
    BY <1>1, <1>3, <2>1 DEF Alike, SameName
  <2>2. CASE k # "ip"
    BY <1>1, <2>2, SameNames DEF Alike
  <2> QED BY <2>1, <2>2
<1> QED BY <1>3, <1>4

-----------------------------------------------------------------------------
\* Leaves and their records

\* The names of a leaf that is not refused are valid and settled.
LEMMA NamesSettled ==
  ASSUME NEW o, IsSANs(csr.sans), ValidSANs(csr.sans),
         o.sans # None => IsSANs(o.sans) /\ Normalizes(o.sans),
         o.more # None => IsSANs(o.more) /\ ValidSANs(o.more)
  PROVE  Settled(Names(o)) /\ AllValid(Names(o))
<1> DEFINE base == IF o.sans = None THEN normalizeSANsAllowDuplicates(csr.sans)
                   ELSE normalizeSANs(o.sans)
<1>1. Settled(base) /\ AllValid(base)
  <2>1. CASE o.sans = None
    <3>1. AllValid(csr.sans)
      BY ValidIs
    <3> QED BY <2>1, <3>1, NormalizedSettles
  <2>2. CASE o.sans # None
    BY <2>2, NormalizesSettles
  <2> QED BY <2>1, <2>2
<1>2. Names(o) = IF o.more = None THEN base ELSE mergeSANs(base, o.more)
  BY DEF Names
<1> HIDE DEF base
<1>3. CASE o.more = None
  BY <1>1, <1>2, <1>3
<1>4. CASE o.more # None
  <2> DEFINE j == [k \in Kinds |-> base[k] \o o.more[k]]
  <2>1. IsSANs(base) /\ IsSANs(o.more) /\ AllValid(o.more)
    BY <1>1, <1>4, ValidIs DEF Settled
  <2>2. IsSANs(j) /\ AllValid(j)
    BY <1>1, <2>1, JoinedSANs
  <2>3. Names(o) = normalizeSANsAllowDuplicates(j)
    BY <1>2, <1>4 DEF mergeSANs
  <2> HIDE DEF j
  <2> QED BY <2>2, <2>3, NormalizedSettles
<1> QED BY <1>3, <1>4

\* When the URIs of the request and of the options are such that a certificate
\* gives them back, so are those of the leaf.
LEMMA NamesGivenBack ==
  ASSUME NEW o, IsSANs(csr.sans), GivenBack(csr.sans),
         o.sans # None => IsSANs(o.sans) /\ GivenBack(o.sans),
         o.more # None => IsSANs(o.more) /\ GivenBack(o.more)
  PROVE  GivenBack(Names(o))
<1> DEFINE base == IF o.sans = None THEN normalizeSANsAllowDuplicates(csr.sans)
                   ELSE normalizeSANs(o.sans)
           fine(u) == ~u.upper /\ Unfit \notin Range(u.chunks)
<1>1. "uri" \in Kinds /\ \A x : Spelled("uri", x) = x
  BY DEF Kinds, Spelled
<1>2. ASSUME NEW s, IsSANs(s), GivenBack(s) PROVE GivenBack(normalizeSANsAllowDuplicates(s))
  <2>1. \A x \in Range(normalizeSANsAllowDuplicates(s)["uri"]) : x \in Range(s["uri"])
    BY <1>1, <1>2, NormalizedSettles
  <2> QED BY <1>2, <2>1 DEF GivenBack
<1>3. ASSUME NEW s, IsSANs(s), GivenBack(s) PROVE GivenBack(normalizeSANs(s)) /\ IsSANs(normalizeSANs(s))
  <2>1. Range(SpelledSANs(s)["uri"]) = Range(s["uri"])
    BY <1>1, <1>3, SpelledIs DEF Range
  <2> QED BY <1>3, <2>1, SpelledIs DEF GivenBack, normalizeSANs
<1>4. GivenBack(base) /\ IsSANs(base)
  <2>1. CASE o.sans = None
    BY <1>2, <2>1, NormalizedSettles DEF Settled
  <2>2. CASE o.sans # None
    BY <1>3, <2>2
  <2> QED BY <2>1, <2>2
<1>5. Names(o) = IF o.more = None THEN base ELSE mergeSANs(base, o.more)
  BY DEF Names
<1> HIDE DEF base
<1>6. CASE o.more = None
  BY <1>4, <1>5, <1>6
<1>7. CASE o.more # None
  <2> DEFINE j == [k \in Kinds |-> base[k] \o o.more[k]]
  <2>1. IsSANs(j)
    BY <1>4, <1>7, JoinedSANs
  <2>2. j["uri"] = base["uri"] \o o.more["uri"]
    BY <1>1
  <2>3. Names(o) = normalizeSANsAllowDuplicates(j)
    BY <1>5, <1>7 DEF mergeSANs
  <2> HIDE DEF j
  <2>4. base["uri"] \in Seq(NameSet("uri")) /\ o.more["uri"] \in Seq(NameSet("uri"))
    BY <1>1, <1>4, <1>7 DEF IsSANs
  <2>5. ASSUME NEW i \in DOMAIN j["uri"] PROVE fine(j["uri"][i])
    <3>0. i \in DOMAIN (base["uri"] \o o.more["uri"])
      BY <2>2, <2>5
    <3>1. \/ i \in DOMAIN base["uri"] /\ j["uri"][i] = base["uri"][i]
          \/ i - Len(base["uri"]) \in DOMAIN o.more["uri"]
                /\ j["uri"][i] = o.more["uri"][i - Len(base["uri"])]
      BY ZenonT(30), <2>2, <2>4, <3>0, JoinedElement
    <3>2. j["uri"][i] \in Range(base["uri"]) \/ j["uri"][i] \in Range(o.more["uri"])
      BY <3>1 DEF Range
    <3> QED BY <1>4, <1>7, <3>2 DEF GivenBack
  <2>6. GivenBack(j)
    BY <2>5 DEF GivenBack, Range
  <2> QED BY <1>2, <2>1, <2>3, <2>6
<1> QED BY <1>6, <1>7

\* The record of such a leaf agrees with its certificate, as it is and as JSON
\* gives it back.
LEMMA RecordAgrees ==
  ASSUME NEW n, Settled(n), AllValid(n), Lower(n), NEW m, IsSANs(m), Alike(n, m),
         NEW rec, NEW cert, rec.sans = m, cert.sans = x509(n), rec.subject = cert.subject,
         rec.profile \in Range(Profiles), cert.usages = usages(rec.profile)
  PROVE  validateLedgerRecord(rec, cert)
<1> DEFINE c == x509(n)
<1>1. IsSANs(n) /\ IsSANs(c) /\ Alike(n, c)
  BY CertificateEchoes, EchoIs DEF Settled
<1> HIDE DEF c
<1>2. Settled(c) /\ AllValid(c) /\ MarshalJSON(c) = MarshalJSON(n)
  BY <1>1, AlikeSettled
<1>3. Settled(m) /\ AllValid(m) /\ MarshalJSON(m) = MarshalJSON(n)
  BY <1>1, AlikeSettled
<1>4. ValidSANs(c) /\ ValidSANs(m)
  BY <1>1, <1>2, <1>3, ValidIs
<1>5. normalizeSANsAllowDuplicates(c) = c /\ normalizeSANsAllowDuplicates(m) = m
  BY <1>2, <1>3, SettledStays
<1> QED BY <1>2, <1>3, <1>4, <1>5 DEF validateLedgerRecord, c

LEMMA AlikeItself ==
  ASSUME NEW s PROVE Alike(s, s)
  BY DEF Alike

\* A certificate that agrees with its record gave every URI back.
LEMMA AgreedLower ==
  ASSUME NEW n, Settled(n), NEW rec, NEW cert, rec.sans = n, cert.sans = x509(n),
         validateLedgerRecord(rec, cert)
  PROVE  Lower(n)
<1> DEFINE c == x509(n)
           d == normalizeSANsAllowDuplicates(c)
<1>1. IsSANs(n) /\ IsSANs(c) /\ Echoes(n, c)
  BY CertificateEchoes DEF Settled
<1>2. Lower(c)
  BY <1>1, EchoIs
<1>3. MarshalJSON(d) = MarshalJSON(n)
  BY SettledStays DEF validateLedgerRecord
<1> HIDE DEF c
<1>4. "uri" \in Kinds /\ \A x : Spelled("uri", x) = x
  BY DEF Kinds, Spelled
<1>5. \A x \in Range(d["uri"]) : x \in Range(c["uri"])
  BY <1>1, <1>4, NormalizedSettles
<1>6. IsSANs(d)
  BY <1>1, NormalizedSettles DEF Settled
<1> HIDE DEF d
<1>7. \A x \in Range(d["uri"]) : ~x.upper
  BY <1>2, <1>5 DEF Lower, Range
<1>8. ASSUME NEW s, IsSANs(s) PROVE MarshalJSON(s)["uri"] = s["uri"]
  BY <1>4, <1>8 DEF MarshalJSON, IsSANs
<1>9. d["uri"] = n["uri"]
  BY <1>1, <1>3, <1>6, <1>8
<1> QED BY <1>7, <1>9 DEF Lower, Range

-----------------------------------------------------------------------------
\* The steps

\* The configuration is one that was accepted, the store holds what it says,
\* the request in hand is a CSR, in which only URIs may be there twice when it is
\* the package's own, and the leaf is what SignCSR answered for it.
ConfigHeld ==
    config # None =>
        \E c \in Configs :
            /\ FitIdentity(c.identity) /\ FitDefinition(Defaulted(c.def))
            /\ config = [identity |-> normalizeIdentity(c.identity),
                         def |-> validateDefinition(c.def), declared |-> c.def]

StoreHeld ==
    store # None =>
        config # None /\ store = [identity |-> config.identity, def |-> config.def]

Requested(s) ==
    /\ \A k \in Kinds : \A i \in DOMAIN s[k] : Spelled(k, s[k][i]) = s[k][i]
    /\ \A k \in Kinds \ {"uri"} : Differ(k, s[k])
    /\ x509(s) = s

RequestHeld ==
    csr # None =>
        /\ store # None
        /\ csr.subject \in IdentitySet /\ IsSANs(csr.sans)
        /\ csr.sound => GivenBack(csr.sans)
        /\ csr.own =>
             /\ csr.sound /\ FitIdentity(csr.subject)
             /\ Plain(normalizeIdentity(csr.subject)) = csr.subject
             /\ Requested(csr.sans) /\ AllValid(csr.sans)

LeafOf(o) ==
    [answer |-> SignAnswer(o), options |-> o,
     issued |-> IF SignAnswer(o) = "issued" THEN Signed(o) ELSE None]

LeafHeld == leaf # None => csr # None /\ \E o \in SignOptions : leaf = LeafOf(o)

RequestsInv ==
    /\ ConfigHeld /\ StoreHeld /\ RequestHeld /\ LeafHeld
    /\ ProvisionsAccepted /\ answer \in Answers

LEMMA LeafSame ==
  ASSUME csr' = csr, store' = store, NEW o
  PROVE  LeafOf(o)' = LeafOf(o)
  BY DEF LeafOf, SignAnswer, Signed, Subject, Names

LEMMA NewAuthorityManagerKeeps ==
  ASSUME RequestsInv, NewAuthorityManager
  PROVE  RequestsInv'
<1>1. config = None /\ store' = store /\ csr' = csr /\ leaf' = leaf
  BY DEF NewAuthorityManager
<1>2. store = None /\ csr = None /\ leaf = None
  BY <1>1 DEF RequestsInv, StoreHeld, RequestHeld, LeafHeld
<1>3. ConfigHeld'
  BY DEF NewAuthorityManager, ConfigHeld
<1>4. answer' \in {"manager", "invalid"}
  BY DEF NewAuthorityManager
<1>5. StoreHeld' /\ RequestHeld' /\ LeafHeld'
  BY <1>1, <1>2 DEF StoreHeld, RequestHeld, LeafHeld
<1> QED BY <1>3, <1>4, <1>5 DEF RequestsInv, ProvisionsAccepted, Answers

\* What the configuration says of definitions.
LEMMA ConfigSays ==
  ASSUME ConfigHeld, config # None
  PROVE  \E d : /\ IsDefinition(d) /\ FitDefinition(Defaulted(d)) /\ config.declared = d
                /\ config.def = validateDefinition(d)
<1>1. PICK c \in Configs :
            /\ FitIdentity(c.identity) /\ FitDefinition(Defaulted(c.def))
            /\ config = [identity |-> normalizeIdentity(c.identity),
                         def |-> validateDefinition(c.def), declared |-> c.def]
  BY DEF ConfigHeld
<1>2. IsDefinition(c.def)
  BY RequestsConstants
<1> QED BY <1>1, <1>2

\* Only a common name keeps an accepted configuration from being provisioned.
LEMMA StateValid ==
  ASSUME ConfigHeld, config # None, config.identity.cn = ""
  PROVE  ValidState([identity |-> config.identity, def |-> config.def])
<1>1. PICK d : IsDefinition(d) /\ FitDefinition(Defaulted(d)) /\ config.def = validateDefinition(d)
  BY ConfigSays
<1>2. FitDefinition(Defaulted(config.def)) /\ validateDefinition(config.def) = config.def
  BY <1>1, DefinitionSettles
<1>3. config.identity = [o |-> config.identity.o, cn |-> config.identity.cn]
  <2>1. PICK c \in Configs :
            config = [identity |-> normalizeIdentity(c.identity),
                      def |-> validateDefinition(c.def), declared |-> c.def]
    BY DEF ConfigHeld
  <2> QED BY <2>1 DEF normalizeIdentity
<1>4. RootSubject(config.identity) = config.identity
  BY <1>3 DEF RootSubject
<1> QED BY <1>2, <1>4 DEF ValidState

LEMMA EnsureKeeps ==
  ASSUME RequestsInv, Ensure
  PROVE  RequestsInv'
<1> DEFINE s == [identity |-> config.identity, def |-> config.def]
<1>1. /\ config # None /\ store = None /\ config' = config /\ csr' = csr /\ leaf' = leaf
      /\ answer' = (IF ValidState(s) THEN "provisioned" ELSE "drift")
      /\ store' = (IF ValidState(s) THEN s ELSE None)
  BY DEF Ensure
<1>2. csr = None /\ leaf = None
  BY <1>1 DEF RequestsInv, RequestHeld, LeafHeld
<1>3. ConfigHeld'
  BY <1>1 DEF ConfigHeld, RequestsInv
<1>4. StoreHeld'
  BY <1>1 DEF StoreHeld
<1>5. RequestHeld' /\ LeafHeld'
  BY <1>1, <1>2 DEF RequestHeld, LeafHeld
<1>6. ProvisionsAccepted'
  <2>1. config.identity.cn = "" => ValidState(s)
    BY <1>1, StateValid DEF RequestsInv
  <2> QED BY <1>1, <2>1 DEF ProvisionsAccepted
<1> QED BY <1>1, <1>3, <1>4, <1>5, <1>6 DEF RequestsInv, Answers

\* Names that parse do so in another spelling, and come back as they are.
LEMMA ParsesStill ==
  ASSUME NEW s, IsSANs(s), Parses(s)
  PROVE  Parses(normalizeSANs(s))
<1>1. "uri" \in Kinds /\ \A x : Spelled("uri", x) = x
  BY DEF Kinds, Spelled
<1>2. Range(SpelledSANs(s)["uri"]) = Range(s["uri"])
  BY <1>1, SpelledIs DEF Range
<1> QED BY <1>2 DEF Parses, normalizeSANs

LEMMA EchoGivenBack ==
  ASSUME NEW s, IsSANs(s), Parses(s), NEW t, IsSANs(t), Echoes(s, t)
  PROVE  GivenBack(t)
<1>1. s["uri"] \in Seq(Locators)
  BY DEF IsSANs, NameSet, Kinds, Locators
<1>2. \A i \in DOMAIN s["uri"] : s["uri"][i] \in Locators /\ s["uri"][i] \in Range(s["uri"])
  BY <1>1 DEF Range
<1>3. \A i \in DOMAIN s["uri"] : ~t["uri"][i].upper /\ Unfit \notin Range(t["uri"][i].chunks)
  BY <1>2, LocatorParsed DEF Parses, Echoes
<1> QED BY <1>3 DEF GivenBack, Range, Echoes

\* What NewCSR and a CSR from elsewhere are.
LEMMA OwnRequest ==
  ASSUME NEW r \in Requests, FitIdentity(r.subject), Normalizes(r.sans), Parses(r.sans)
  PROVE  LET subject == Plain(normalizeIdentity(r.subject))
             sans == x509(normalizeSANs(r.sans)) IN
         /\ subject \in IdentitySet /\ FitIdentity(subject)
         /\ Plain(normalizeIdentity(subject)) = subject
         /\ IsSANs(sans) /\ Requested(sans) /\ AllValid(sans) /\ GivenBack(sans)
<1>1. r.subject \in IdentitySet /\ IsSANs(r.sans)
  BY RequestsConstants
<1> DEFINE subject == Plain(normalizeIdentity(r.subject))
           n == normalizeSANs(r.sans)
           sans == x509(n)
<1>2. /\ subject \in IdentitySet /\ FitIdentity(subject)
      /\ Plain(normalizeIdentity(subject)) = subject
  BY <1>1 DEF Field, FieldSet, IdentitySet, Plain, normalizeIdentity, FitIdentity
<1>3. Settled(n) /\ AllValid(n)
  BY <1>1, NormalizesSettles
<1> HIDE DEF n
<1>4. IsSANs(n) /\ IsSANs(sans) /\ Echoes(n, sans) /\ x509(sans) = sans
  BY <1>3, CertificateEchoes DEF Settled
<1>5. Parses(n)
  BY <1>1, ParsesStill DEF n
<1>6. GivenBack(sans)
  BY <1>4, <1>5, EchoGivenBack
<1> HIDE DEF sans, subject
<1>7. AllValid(sans) /\ \A k \in Kinds : \A i \in DOMAIN sans[k] : Spelled(k, sans[k][i]) = sans[k][i]
  BY <1>3, <1>4, EchoIs DEF Settled
<1>8. \A k \in Kinds \ {"uri"} : Differ(k, sans[k])
  <2>1. Kinds \ {"uri"} = {"dns", "ip", "email"}
    BY DEF Kinds
  <2>2. \A k \in {"dns", "ip", "email"} : Differ(k, n[k])
    BY <1>3, <2>1 DEF Settled
  <2>3. \A x, y : SameName("ip", x, y) <=> x.net = y.net /\ x.host = y.host
    BY DEF SameName
  <2>4. Differ("ip", sans["ip"])
    BY <1>4, <2>2, <2>3 DEF Differ, Echoes
  <2>5. Differ("dns", sans["dns"]) /\ Differ("email", sans["email"])
    BY <1>4, <2>2 DEF Echoes
  <2> QED BY <2>1, <2>4, <2>5
<1> QED BY <1>2, <1>4, <1>6, <1>7, <1>8 DEF subject, sans, n, Requested

LEMMA NewCSRKeeps ==
  ASSUME RequestsInv, NewCSR
  PROVE  RequestsInv'
<1>1. /\ store # None /\ csr = None /\ config' = config /\ store' = store /\ leaf' = leaf
      /\ answer' \in {"request", "invalid", "corrupt"}
  BY DEF NewCSR
<1>2. leaf = None
  BY <1>1 DEF RequestsInv, LeafHeld
<1>3. PICK r \in Requests :
        csr' = IF (FitIdentity(r.subject) /\ Normalizes(r.sans)) /\ Parses(r.sans)
               THEN [subject |-> Plain(normalizeIdentity(r.subject)),
                     sans |-> x509(normalizeSANs(r.sans)), sound |-> TRUE, own |-> TRUE]
               ELSE None
  BY DEF NewCSR
<1>4. RequestHeld'
  <2>1. CASE FitIdentity(r.subject) /\ Normalizes(r.sans) /\ Parses(r.sans)
    BY <1>1, <1>3, <2>1, OwnRequest DEF RequestHeld
  <2>2. CASE ~(FitIdentity(r.subject) /\ Normalizes(r.sans) /\ Parses(r.sans))
    BY <1>3, <2>2 DEF RequestHeld
  <2> QED BY <2>1, <2>2
<1>5. ConfigHeld' /\ StoreHeld' /\ LeafHeld'
  BY <1>1, <1>2 DEF RequestsInv, ConfigHeld, StoreHeld, LeafHeld
<1> QED BY <1>1, <1>4, <1>5 DEF RequestsInv, ProvisionsAccepted, Answers

LEMMA ReceiveKeeps ==
  ASSUME RequestsInv, Receive
  PROVE  RequestsInv'
<1>1. /\ store # None /\ csr = None /\ config' = config /\ store' = store /\ leaf' = leaf
      /\ answer' = "request"
  BY DEF Receive
<1>2. leaf = None
  BY <1>1 DEF RequestsInv, LeafHeld
<1>3. PICK c \in ForeignCSRs :
        csr' = [subject |-> c.subject, sans |-> x509(c.sans),
                sound |-> c.sound /\ Parses(c.sans), own |-> FALSE]
  BY DEF Receive
<1>4. c.subject \in IdentitySet /\ IsSANs(c.sans) /\ IsSANs(x509(c.sans)) /\ Echoes(c.sans, x509(c.sans))
  BY RequestsConstants, CertificateEchoes
<1>5. RequestHeld'
  <2>1. Parses(c.sans) => GivenBack(x509(c.sans))
    BY <1>4, EchoGivenBack
  <2>2. /\ csr'.subject = c.subject /\ csr'.sans = x509(c.sans) /\ ~csr'.own
        /\ csr'.sound = (c.sound /\ Parses(c.sans))
    BY <1>3
  <2> QED BY <1>1, <1>4, <2>1, <2>2 DEF RequestHeld
<1>6. ConfigHeld' /\ StoreHeld' /\ LeafHeld'
  BY <1>1, <1>2 DEF RequestsInv, ConfigHeld, StoreHeld, LeafHeld
<1> QED BY <1>1, <1>5, <1>6 DEF RequestsInv, ProvisionsAccepted, Answers

LEMMA SignCSRKeeps ==
  ASSUME RequestsInv, SignCSR
  PROVE  RequestsInv'
<1>1. csr # None /\ config' = config /\ store' = store /\ csr' = csr
  BY DEF SignCSR
<1>2. PICK o \in SignOptions : answer' = SignAnswer(o) /\ leaf' = LeafOf(o)
  BY DEF SignCSR, LeafOf
<1>3. LeafOf(o)' = LeafOf(o)
  BY <1>1, LeafSame
<1>4. LeafHeld'
  BY <1>1, <1>2, <1>3 DEF LeafHeld
<1>5. ConfigHeld' /\ StoreHeld' /\ RequestHeld'
  BY <1>1 DEF RequestsInv, ConfigHeld, StoreHeld, RequestHeld
<1>6. answer' \in {"invalid", "forbidden", "corrupt", "issued"}
  BY <1>2 DEF SignAnswer
<1> QED BY <1>4, <1>5, <1>6 DEF RequestsInv, ProvisionsAccepted, Answers

LEMMA RequestsStep ==
  RequestsInv /\ [Next]_vars => RequestsInv'
<1> SUFFICES ASSUME RequestsInv, [Next]_vars PROVE RequestsInv'
  OBVIOUS
<1>1. CASE UNCHANGED vars
  <2>1. /\ config' = config /\ store' = store /\ csr' = csr /\ leaf' = leaf /\ answer' = answer
    BY <1>1 DEF vars
  <2>2. LeafHeld'
    BY <2>1, LeafSame DEF RequestsInv, LeafHeld
  <2>3. ConfigHeld' /\ StoreHeld' /\ RequestHeld' /\ ProvisionsAccepted'
    BY <2>1 DEF RequestsInv, ConfigHeld, StoreHeld, RequestHeld, ProvisionsAccepted
  <2> QED BY <2>1, <2>2, <2>3 DEF RequestsInv
<1> QED BY <1>1, NewAuthorityManagerKeeps, EnsureKeeps, NewCSRKeeps, ReceiveKeeps, SignCSRKeeps
        DEF Next

\* What SignCSR answers: "corrupt" only for options with a URI that does not come
\* back, and "issued" only after every check.
LEMMA SignedSays ==
  ASSUME RequestHeld, csr # None, NEW o \in SignOptions
  PROVE  /\ SignAnswer(o) \in {"invalid", "forbidden", "corrupt", "issued"}
         /\ SignAnswer(o) = "corrupt" => \E s \in {o.sans, o.more} : s # None /\ ~GivenBack(s)
         /\ SignAnswer(o) = "issued" =>
              /\ o.profile \in Range(Profiles) /\ o.profile \in Range(store.def.profiles)
              /\ Settled(Names(o)) /\ AllValid(Names(o)) /\ Lower(Names(o))
              /\ validateRequest(store.def, normalizeIdentity(csr.subject),
                                 normalizeSANsAllowDuplicates(csr.sans))
              /\ validateRequest(store.def, Subject(o), Names(o))
         /\ csr.own /\ o.subject = None /\ o.sans = None /\ o.more = None
              /\ o.profile \in Range(Profiles) => SignAnswer(o) \in {"issued", "forbidden"}
<1> DEFINE early == \/ o.profile \notin Range(Profiles)
                    \/ ~csr.sound \/ ~FitIdentity(csr.subject) \/ ~ValidSANs(csr.sans)
           asked == validateRequest(store.def, normalizeIdentity(csr.subject),
                                    normalizeSANsAllowDuplicates(csr.sans))
           late == \/ o.subject # None /\ ~FitIdentity(o.subject)
                   \/ o.sans # None /\ ~Normalizes(o.sans)
                   \/ o.more # None /\ ~ValidSANs(o.more)
           meant == validateRequest(store.def, Subject(o), Names(o))
           fits == o.profile \in Range(store.def.profiles)
           agrees == Parses(Names(o)) /\ validateLedgerRecord(Signed(o).rec, Signed(o).cert)
           plain == (o.sans # None => GivenBack(o.sans)) /\ (o.more # None => GivenBack(o.more))
<1>1. SignAnswer(o) = IF early THEN "invalid" ELSE IF ~asked THEN "forbidden"
                      ELSE IF late THEN "invalid" ELSE IF ~meant \/ ~fits THEN "forbidden"
                      ELSE IF ~agrees THEN "corrupt" ELSE "issued"
  BY DEF SignAnswer
<1>2. IsSANs(csr.sans)
  BY DEF RequestHeld
<1>3. (o.sans = None \/ IsSANs(o.sans)) /\ (o.more = None \/ IsSANs(o.more))
  BY RequestsConstants
<1>4. ASSUME ~early, ~late PROVE Settled(Names(o)) /\ AllValid(Names(o))
  BY <1>2, <1>3, <1>4, NamesSettled
<1>4a. /\ Signed(o).rec.sans = Names(o) /\ Signed(o).cert.sans = x509(Names(o))
       /\ Signed(o).rec.subject = Signed(o).cert.subject
       /\ Signed(o).rec.profile = o.profile /\ Signed(o).cert.usages = usages(o.profile)
  BY DEF Signed
<1>5. ASSUME ~early, ~late, plain PROVE agrees
  <2> DEFINE n == Names(o)
  <2>1. GivenBack(csr.sans)
    BY <1>5 DEF RequestHeld
  <2>2. GivenBack(n)
    BY <1>2, <1>3, <1>5, <2>1, NamesGivenBack
  <2>3. Settled(n) /\ AllValid(n) /\ IsSANs(n) /\ Alike(n, n)
    BY <1>4, <1>5, AlikeItself DEF Settled
  <2> HIDE DEF n
  <2>4. Lower(n) /\ Parses(n)
    BY <2>2 DEF GivenBack, Lower, Parses, Range
  <2>5. o.profile \in Range(Profiles)
    BY <1>5
  <2>6. validateLedgerRecord(Signed(o).rec, Signed(o).cert)
    BY <1>4a, <2>3, <2>4, <2>5, RecordAgrees DEF n
  <2> QED BY <2>4, <2>6 DEF n
<1>6. csr.own => csr.sound /\ FitIdentity(csr.subject) /\ ValidSANs(csr.sans)
  BY <1>2, ValidIs DEF RequestHeld
<1>7. ASSUME csr.own, o.subject = None, o.sans = None, o.more = None, o.profile \in Range(Profiles)
      PROVE  ~early /\ ~late /\ plain
  BY <1>6, <1>7
<1>8. SignAnswer(o) = "issued" => ~early /\ ~late /\ asked /\ meant /\ fits /\ agrees
  <2> HIDE DEF early, late, asked, meant, fits, agrees
  <2> QED BY <1>1
<1>9. /\ SignAnswer(o) \in {"invalid", "forbidden", "corrupt", "issued"}
      /\ SignAnswer(o) = "corrupt" => ~plain
  <2> HIDE DEF early, late, asked, meant, fits, agrees, plain
  <2> QED BY <1>1, <1>5
<1>10. ~early /\ ~late /\ plain => SignAnswer(o) \in {"issued", "forbidden"}
  <2> HIDE DEF early, late, asked, meant, fits, agrees, plain
  <2> QED BY <1>1, <1>5
<1>11. ASSUME ~early, ~late, agrees PROVE Lower(Names(o))
  BY <1>4, <1>4a, <1>11, AgreedLower
<1> QED BY <1>4, <1>7, <1>8, <1>9, <1>10, <1>11

LEMMA LeafSays ==
  ASSUME RequestsInv, leaf # None
  PROVE  \E o \in SignOptions :
            /\ leaf = LeafOf(o) /\ csr # None
            /\ leaf.answer = SignAnswer(o) /\ leaf.options = o
            /\ SignAnswer(o) = "issued" => leaf.issued = Signed(o)
<1>1. PICK o \in SignOptions : leaf = LeafOf(o) /\ csr # None
  BY DEF RequestsInv, LeafHeld
<1> QED BY <1>1 DEF LeafOf

LEMMA PolicyKept ==
  RequestsInv => WithinPolicy
<1> SUFFICES ASSUME RequestsInv, leaf # None, leaf.answer = "issued"
             PROVE  /\ Declared(leaf.issued.cert.subject, leaf.issued.cert.sans)
                    /\ Declared(normalizeIdentity(csr.subject), csr.sans)
                    /\ \E p \in Range(store.def.profiles) : leaf.issued.cert.usages = usages(p)
  BY DEF WithinPolicy
<1>1. PICK o \in SignOptions : /\ csr # None /\ SignAnswer(o) = "issued" /\ leaf.issued = Signed(o)
  BY LeafSays
<1>2. /\ o.profile \in Range(store.def.profiles) /\ Settled(Names(o)) /\ Lower(Names(o))
      /\ validateRequest(store.def, normalizeIdentity(csr.subject),
                         normalizeSANsAllowDuplicates(csr.sans))
      /\ validateRequest(store.def, Subject(o), Names(o))
  BY <1>1, SignedSays DEF RequestsInv
<1>3. store # None /\ config # None /\ store.def = config.def /\ IsSANs(csr.sans)
  BY <1>1 DEF RequestsInv, RequestHeld, StoreHeld
<1>4. PICK d : /\ IsDefinition(d) /\ FitDefinition(Defaulted(d)) /\ config.declared = d
               /\ config.def = validateDefinition(d)
  BY <1>3, ConfigSays DEF RequestsInv
<1>5. /\ leaf.issued.cert.subject = Subject(o) /\ leaf.issued.cert.sans = x509(Names(o))
      /\ leaf.issued.cert.usages = usages(o.profile)
  BY <1>1 DEF Signed
<1>6. Declared(Subject(o), x509(Names(o)))
  <2> DEFINE n == Names(o)
             b == Subject(o)
  <2>1. IsSANs(n) /\ Settled(n) /\ Lower(n) /\ validateRequest(validateDefinition(d), b, n)
    BY <1>2, <1>3, <1>4 DEF Settled
  <2> HIDE DEF n, b
  <2>2. Declared(b, n)
    BY <1>4, <2>1, PolicyDeclared
  <2>3. IsSANs(x509(n))
    BY <2>1, CertificateEchoes
  <2>4. \A k \in Kinds : \A z \in Range(x509(n)[k]) : \E x \in Range(n[k]) :
             SameName(k, Spelled(k, z), x)
    BY <2>1, CertificateNames
  <2>5. Declared(b, x509(n))
    BY <2>1, <2>2, <2>3, <2>4, DeclaredAlike
  <2> QED BY <2>5 DEF n, b
<1>7. Declared(normalizeIdentity(csr.subject), csr.sans)
  <2> DEFINE n == normalizeSANsAllowDuplicates(csr.sans)
             s == csr.sans
             b == normalizeIdentity(csr.subject)
  <2>1. /\ Settled(n) /\ IsSANs(n)
        /\ \A k \in Kinds : \A z \in Range(s[k]) : \E x \in Range(n[k]) :
               SameName(k, Spelled(k, z), x)
    BY <1>3, NormalizedSettles DEF Settled
  <2>2. validateRequest(validateDefinition(d), b, n) /\ IsSANs(s)
    BY <1>2, <1>3, <1>4
  <2> HIDE DEF n, b, s
  <2>3. Declared(b, n)
    BY <1>4, <2>1, <2>2, PolicyDeclared
  <2>4. Declared(b, s)
    BY <2>1, <2>2, <2>3, DeclaredAlike
  <2> QED BY <2>4 DEF b, s
<1> QED BY <1>2, <1>5, <1>6, <1>7

LEMMA RecordKept ==
  RequestsInv => RecordReadable
<1> SUFFICES ASSUME RequestsInv, leaf # None
             PROVE  /\ leaf.answer = "corrupt" =>
                         \E s \in {leaf.options.sans, leaf.options.more} : s # None /\ ~GivenBack(s)
                    /\ leaf.answer = "issued" =>
                         validateLedgerRecord(
                             [leaf.issued.rec EXCEPT !.sans = UnmarshalJSON(MarshalJSON(@))],
                             leaf.issued.cert)
  BY DEF RecordReadable
<1>1. PICK o \in SignOptions :
            /\ csr # None /\ leaf.answer = SignAnswer(o) /\ leaf.options = o
            /\ SignAnswer(o) = "issued" => leaf.issued = Signed(o)
  BY LeafSays
<1>2. SignAnswer(o) = "corrupt" => \E s \in {o.sans, o.more} : s # None /\ ~GivenBack(s)
  BY <1>1, SignedSays DEF RequestsInv
<1>3. ASSUME SignAnswer(o) = "issued"
      PROVE  validateLedgerRecord(
                 [leaf.issued.rec EXCEPT !.sans = UnmarshalJSON(MarshalJSON(@))],
                 leaf.issued.cert)
  <2> DEFINE n == Names(o)
             m == UnmarshalJSON(MarshalJSON(n))
             rec == [Signed(o).rec EXCEPT !.sans = UnmarshalJSON(MarshalJSON(@))]
             cert == Signed(o).cert
  <2>1. Settled(n) /\ AllValid(n) /\ Lower(n) /\ o.profile \in Range(Profiles)
    BY <1>1, <1>3, SignedSays DEF RequestsInv
  <2>2. /\ rec.sans = m /\ cert.sans = x509(n) /\ rec.subject = cert.subject
        /\ rec.profile = o.profile /\ cert.usages = usages(o.profile)
    BY DEF Signed
  <2>3. leaf.issued = Signed(o)
    BY <1>1, <1>3
  <2> HIDE DEF n, rec, cert
  <2>4. IsSANs(m) /\ Alike(n, m)
    BY <2>1, JSONEchoes, EchoIs DEF Settled
  <2> HIDE DEF m
  <2>5. validateLedgerRecord(rec, cert)
    BY <2>1, <2>2, <2>4, RecordAgrees
  <2> QED BY <2>3, <2>5 DEF rec, cert
<1> QED BY <1>1, <1>2, <1>3

LEMMA OwnKept ==
  RequestsInv => OwnRequestHonoured
<1> SUFFICES ASSUME RequestsInv, leaf # None, csr.own,
                    leaf.options.subject = None, leaf.options.sans = None,
                    leaf.options.more = None, leaf.options.profile \in Range(Profiles)
             PROVE  /\ leaf.answer \in {"issued", "forbidden"}
                    /\ leaf.answer = "issued" =>
                         /\ Plain(leaf.issued.cert.subject) = csr.subject
                         /\ NoDuplicates(csr.sans) => leaf.issued.cert.sans = csr.sans
                         /\ \A k \in Kinds : Range(leaf.issued.cert.sans[k]) = Range(csr.sans[k])
  BY DEF OwnRequestHonoured
<1>1. PICK o \in SignOptions :
            /\ csr # None /\ leaf.answer = SignAnswer(o) /\ leaf.options = o
            /\ SignAnswer(o) = "issued" => leaf.issued = Signed(o)
  BY LeafSays
<1>2. SignAnswer(o) \in {"issued", "forbidden"}
  BY <1>1, SignedSays DEF RequestsInv
<1> DEFINE s == csr.sans
           n == normalizeSANsAllowDuplicates(s)
<1>3. /\ Plain(normalizeIdentity(csr.subject)) = csr.subject
      /\ IsSANs(s) /\ Requested(s)
  BY <1>1 DEF RequestsInv, RequestHeld
<1>4. Subject(o) = normalizeIdentity(csr.subject) /\ Names(o) = n
  BY <1>1 DEF Subject, Names
<1>5. SignAnswer(o) = "issued" =>
        leaf.issued.cert.subject = Subject(o) /\ leaf.issued.cert.sans = x509(Names(o))
  BY <1>1 DEF Signed
<1>6. x509(s) = s
  BY <1>3 DEF Requested
<1>7. ASSUME NoDuplicates(s) PROVE n = s
  <2>1. \A k \in Kinds : SpelledSANs(s)[k] = s[k]
    BY <1>3, KindStays DEF Requested
  <2>2. \A k \in Kinds : Differ(k, s[k])
    BY <1>7, <2>1 DEF NoDuplicates, Differ
  <2>3. Settled(s)
    BY <1>3, <2>2 DEF Requested, Settled
  <2> QED BY <2>3, SettledStays
<1>8. ASSUME SignAnswer(o) = "issued", NEW k \in Kinds PROVE Range(x509(n)[k]) = Range(s[k])
  <2>1. Settled(n) /\ IsSANs(n) /\ Lower(n)
    BY <1>1, <1>4, <1>8, SignedSays DEF RequestsInv, Settled
  <2>2. Alike(n, x509(n)) /\ Echoes(n, x509(n))
    BY <2>1, CertificateEchoes, EchoIs
  <2>3. CASE k \in {"dns", "email"}
    <3>1. n[k] = s[k]
      BY <1>3, <2>3, KindStays DEF Requested
    <3> QED BY <2>2, <2>3, <3>1 DEF Alike
  <2>4. CASE k = "ip"
    <3>1. n["ip"] = s["ip"]
      BY <1>3, <2>4, KindStays DEF Requested
    <3> DEFINE narrow(q) == [i \in DOMAIN q |-> [q[i] EXCEPT !.wide = FALSE]]
    <3>2. ASSUME NEW x, IsSANs(x) PROVE x509(x)["ip"] = narrow(x["ip"])
      BY <3>2 DEF x509, IsSANs, Kinds
    <3> HIDE DEF narrow
    <3>3. x509(n)["ip"] = x509(s)["ip"]
      <4>1. x509(n)["ip"] = narrow(n["ip"])
        BY <2>1, <3>2
      <4>2. x509(s)["ip"] = narrow(s["ip"])
        BY <1>3, <3>2
      <4> QED BY <3>1, <4>1, <4>2
    <3> QED BY <1>6, <2>4, <3>3
  <2>5. CASE k = "uri"
    <3>1. \A x : Spelled("uri", x) = x
      BY DEF Spelled
    <3>2. \A x, y : SameName("uri", x, y) <=> x = y
      BY DEF SameName
    <3>3. Range(n["uri"]) \subseteq Range(s["uri"]) /\ Range(s["uri"]) \subseteq Range(n["uri"])
      BY <1>3, <2>5, <3>1, <3>2, NormalizedSettles
    <3>4. x509(n)["uri"] = n["uri"]
      BY <2>2, <2>5 DEF Alike
    <3>5. Range(n["uri"]) = Range(s["uri"])
      BY <3>3
    <3> QED BY Zenon, <2>5, <3>4, <3>5
  <2> QED BY <2>3, <2>4, <2>5 DEF Kinds
<1> QED BY <1>1, <1>2, <1>3, <1>4, <1>5, <1>6, <1>7, <1>8

LEMMA RequestsTyped ==
  RequestsInv => TypeOK
<1> SUFFICES ASSUME RequestsInv PROVE TypeOK
  OBVIOUS
<1>1. config # None => FitDefinition(config.def)
  BY ConfigSays, DefinitionSettles DEF RequestsInv
<1>2. leaf # None => csr # None /\ leaf.answer \in Answers
  <2> SUFFICES ASSUME leaf # None PROVE csr # None /\ leaf.answer \in Answers
    OBVIOUS
  <2>1. PICK o \in SignOptions : csr # None /\ leaf.answer = SignAnswer(o)
    BY LeafSays
  <2> QED BY <2>1, SignedSays DEF RequestsInv, Answers
<1> QED BY <1>1, <1>2 DEF RequestsInv, StoreHeld, RequestHeld, TypeOK

\* Of the five parts of the composition only one is at work, and it leaves the
\* authority, the request and the leaf alone or is about them.
LEMMA RequestsAtWork ==
  ASSUME [MCNext]_<<part, vars, optionsVars, bundleVars, filesVars, rotationVars>>
  PROVE  [Next]_vars
  BY DEF MCNext, Answered

LEMMA RequestsBegin ==
  MCInit => RequestsInv
  BY DEF MCInit, Init, RequestsInv, ConfigHeld, StoreHeld, RequestHeld, LeafHeld,
         ProvisionsAccepted, Answers

\* For every policy, definition, request and list of names that the constants
\* allow (models.go, csr.go, issuer.go): what SignCSR certifies is within the
\* policy of the issuer; its record can be read again, and what passes the policy
\* is corrupt only for a URI of the options that X.509 does not give back as it
\* was; the package's own requests are honoured as they were made; and what
\* NewAuthorityManager accepts can be provisioned when the identity has no common
\* name.
THEOREM PolicyIsExact == MCSpec => []PolicyExact
<1>1. MCInit => RequestsInv
  BY RequestsBegin
<1>2. RequestsInv /\ [MCNext]_<<part, vars, optionsVars, bundleVars, filesVars, rotationVars>>
         => RequestsInv'
  BY RequestsAtWork, RequestsStep
<1>3. RequestsInv => PolicyExact
  BY PolicyKept, RecordKept, OwnKept DEF PolicyExact, RequestsInv
<1> QED BY <1>1, <1>2, <1>3, PTL DEF MCSpec

\* The normalised definition, the request and the answer keep their types
\* through every normalisation (models.go, csr.go, issuer.go).
LEMMA RequestsTypes == MCSpec => []TypeOK
<1>1. MCInit => RequestsInv
  BY RequestsBegin
<1>2. RequestsInv /\ [MCNext]_<<part, vars, optionsVars, bundleVars, filesVars, rotationVars>>
         => RequestsInv'
  BY RequestsAtWork, RequestsStep
<1>3. RequestsInv => TypeOK
  BY RequestsTyped
<1> QED BY <1>1, <1>2, <1>3, PTL DEF MCSpec

-----------------------------------------------------------------------------
\* Lists of options

Parsings ==
    [seen: SUBSET Options!Names, values: [Options!Names -> Seq(Arguments)], err: BOOLEAN]

\* What makes parseOptions refuse an option whatever is beside it, and two
\* options whatever their order.
Alone(s, o) ==
    s \in Options!ScopesOf[o.name] /\ ~(o.name \in Options!Checked /\ o.arg = Unusable)

Conflict(a, b) ==
    \/ a.name = b.name /\ a.name \notin Options!Repeatable
    \/ Options!Field(a.name) = Options!Field(b.name) /\ Options!Field(a.name) \in Options!Shared
    \/ a.name = "WithKey" /\ b.name = "WithKeyPath"
    \/ a.name = "WithKeyPath" /\ b.name = "WithKey"
    \/ a.name = "WithIssuerRotateBefore" /\ b.name = a.name /\ a.arg = b.arg

Acceptable(s, q, n) ==
    /\ \A i \in 1..n : Alone(s, q[i])
    /\ \A i, j \in 1..n : i # j => ~Conflict(q[i], q[j])

\* The first n options of q have been parsed into p.
ArgumentsOf(q, n, f) == {q[i].arg : i \in {j \in 1..n : Options!Field(q[j].name) = f}}
ParsedTo(p, q, n) ==
    /\ p \in Parsings /\ p.err = FALSE
    /\ p.seen = {q[i].name : i \in 1..n}
    /\ \A f \in Options!Names : Options!Range(p.values[f]) = ArgumentsOf(q, n, f)

LEMMA FieldOf ==
  ASSUME NEW a \in Options!Names
  PROVE  /\ Options!Field(a) \in Options!Names
         /\ Options!Field(a) \notin Options!Shared => Options!Field(a) = a
         /\ a \in Options!Repeatable => Options!Field(a) = a /\ a \notin Options!Shared
  BY DEF Options!Names, Options!ScopesOf, Options!Field, Options!Shared, Options!Repeatable

LEMMA KeyOptions ==
  /\ "WithKey" \in Options!Names /\ "WithKeyPath" \in Options!Names
  /\ Options!Field("WithKey") = "WithKey" /\ Options!Field("WithKeyPath") = "WithKeyPath"
  /\ Options!Field("WithIssuerRotateBefore") = "WithIssuerRotateBefore"
  /\ "WithIssuerRotateBefore" \in Options!Names
  /\ "WithKey" \notin Options!Repeatable /\ "WithKeyPath" \notin Options!Repeatable
  /\ \A a \in Options!Names : Options!Field(a) \in {"WithKey", "WithKeyPath", "WithIssuerRotateBefore"}
        => Options!Field(a) = a
  BY DEF Options!Names, Options!ScopesOf, Options!Field, Options!Repeatable

LEMMA AppendRange ==
  ASSUME NEW T, NEW v \in Seq(T), NEW x \in T
  PROVE  /\ Options!Range(Append(v, x)) = Options!Range(v) \cup {x}
         /\ Options!Range(<<x>>) = {x} /\ Options!Range(<<>>) = {}
         /\ Append(v, x) \in Seq(T) /\ <<x>> \in Seq(T)
         /\ v # <<>> <=> Options!Range(v) # {}
<1>1. PICK n \in Nat : n = Len(v)
  OBVIOUS
<1> DEFINE r == Append(v, x)
<1>2. /\ DOMAIN v = 1..n /\ DOMAIN r = 1..(n + 1) /\ r[n + 1] = x /\ n + 1 \in 1..(n + 1)
      /\ \A i \in 1..n : r[i] = v[i] /\ i \in 1..(n + 1)
  BY <1>1
<1>3. \A i \in 1..(n + 1) : i \in 1..n \/ i = n + 1
  OBVIOUS
<1>4. Append(v, x) \in Seq(T) /\ <<x>> \in Seq(T) /\ Options!Range(<<x>>) = {x} /\ Options!Range(<<>>) = {}
  BY DEF Options!Range
<1>5. v # <<>> <=> Options!Range(v) # {}
  <2>1. v # <<>> => 1 \in 1..n
    BY <1>1
  <2>2. v = <<>> => DOMAIN v = {}
    OBVIOUS
  <2> QED BY <1>2, <2>1, <2>2 DEF Options!Range
<1> HIDE DEF r
<1>6. Options!Range(r) = Options!Range(v) \cup {x}
  BY <1>2, <1>3 DEF Options!Range
<1> QED BY <1>4, <1>5, <1>6 DEF r

LEMMA ArgumentsOfMore ==
  ASSUME NEW q, NEW n \in Nat, NEW f
  PROVE  ArgumentsOf(q, n + 1, f) = ArgumentsOf(q, n, f) \cup
            (IF Options!Field(q[n + 1].name) = f THEN {q[n + 1].arg} ELSE {})
<1>1. \A i \in 1..(n + 1) : i \in 1..n \/ i = n + 1
  OBVIOUS
<1>2. n + 1 \in 1..(n + 1) /\ \A i \in 1..n : i \in 1..(n + 1)
  OBVIOUS
<1> QED BY <1>1, <1>2 DEF ArgumentsOf

LEMMA ParseTyped ==
  ASSUME NEW p \in Parsings, NEW s, NEW o \in Options!Option
  PROVE  Options!Parse(p, s, o) \in Parsings
<1>1. o.name \in Options!Names /\ o.arg \in Arguments
  BY DEF Options!Option
<1>2. Options!Apply(o, p.values) \in [Options!Names -> Seq(Arguments)]
  <2>1. p.values \in [Options!Names -> Seq(Arguments)] /\ Options!Field(o.name) \in Options!Names
    BY <1>1, FieldOf DEF Parsings
  <2>2. Append(p.values[Options!Field(o.name)], o.arg) \in Seq(Arguments) /\ <<o.arg>> \in Seq(Arguments)
    BY <1>1, <2>1
  <2> QED BY <2>1, <2>2 DEF Options!Apply
<1>3. p.seen \cup {o.name} \in SUBSET Options!Names
  BY <1>1 DEF Parsings
<1> QED BY <1>2, <1>3 DEF Options!Parse, Parsings

\* One turn of the loop: the next option is refused exactly if it may not stand
\* beside those before it.
LEMMA ParseTurn ==
  ASSUME NEW s, NEW n \in Nat, NEW q, \A i \in 1..(n + 1) : q[i] \in Options!Option,
         NEW p, ParsedTo(p, q, n), Acceptable(s, q, n)
  PROVE  /\ Acceptable(s, q, n + 1) => ParsedTo(Options!Parse(p, s, q[n + 1]), q, n + 1)
         /\ ~Options!Parse(p, s, q[n + 1]).err => Acceptable(s, q, n + 1)
<1> DEFINE o == q[n + 1]
           f == Options!Field(o.name)
           v == p.values
           fresh2 == \A i \in 1..n : ~Conflict(q[i], o)
<1>1. /\ \A i \in 1..(n + 1) : i \in 1..n \/ i = n + 1
      /\ n + 1 \in 1..(n + 1) /\ n + 1 \notin 1..n /\ \A i \in 1..n : i \in 1..(n + 1)
  OBVIOUS
<1>2. \A i \in 1..(n + 1) : q[i].name \in Options!Names /\ q[i].arg \in Arguments
  BY DEF Options!Option
<1>3. o \in Options!Option /\ o.name \in Options!Names /\ o.arg \in Arguments /\ f \in Options!Names
  BY <1>1, <1>2, FieldOf
<1>4. /\ p \in Parsings /\ p.err = FALSE /\ p.seen = {q[i].name : i \in 1..n}
      /\ \A h \in Options!Names : /\ v[h] \in Seq(Arguments)
                                  /\ Options!Range(v[h]) = ArgumentsOf(q, n, h)
                                  /\ v[h] # <<>> <=> Options!Range(v[h]) # {}
  BY ZenonT(30), AppendRange, <1>3 DEF ParsedTo, Parsings
<1> HIDE DEF v
<1>5. \A a, b : Conflict(a, b) <=> Conflict(b, a)
  BY DEF Conflict
<1>6. Acceptable(s, q, n + 1) <=> Alone(s, o) /\ fresh2
  BY <1>1, <1>5 DEF Acceptable
<1>7. \A h \in Options!Names : v[h] # <<>> <=> \E i \in 1..n : Options!Field(q[i].name) = h
  <2> TAKE h \in Options!Names
  <2>1. v[h] # <<>> <=> ArgumentsOf(q, n, h) # {}
    BY <1>4
  <2> QED BY <2>1 DEF ArgumentsOf
<1>8. (\/ s \notin Options!ScopesOf[o.name]
       \/ o.name \in p.seen /\ o.name \notin Options!Repeatable
       \/ Options!Refuses(o, v)) <=> ~(Alone(s, o) /\ fresh2)
  <2>1. (o.name \in p.seen /\ o.name \notin Options!Repeatable)
          <=> \E i \in 1..n : q[i].name = o.name /\ q[i].name \notin Options!Repeatable
    BY <1>4
  <2>2. (f \in Options!Shared /\ v[f] # <<>>)
          <=> \E i \in 1..n : Options!Field(q[i].name) = f /\ Options!Field(q[i].name) \in Options!Shared
    BY <1>3, <1>7
  <2>3. \A k \in {"WithKey", "WithKeyPath"} : v[k] # <<>> <=> \E i \in 1..n : q[i].name = k
    BY <1>1, <1>2, <1>7, KeyOptions
  <2>4. (o.name = "WithIssuerRotateBefore" /\ o.arg \in Options!Range(v[o.name]))
          <=> \E i \in 1..n : /\ q[i].name = "WithIssuerRotateBefore" /\ o.name = q[i].name
                              /\ q[i].arg = o.arg
    <3>1. ASSUME o.name = "WithIssuerRotateBefore"
          PROVE  o.arg \in Options!Range(v[o.name])
                   <=> \E i \in 1..n : q[i].name = "WithIssuerRotateBefore" /\ q[i].arg = o.arg
      <4>1. Options!Range(v[o.name]) = ArgumentsOf(q, n, o.name)
        BY <1>3, <1>4
      <4>2. \A i \in 1..n : Options!Field(q[i].name) = "WithIssuerRotateBefore"
                              <=> q[i].name = "WithIssuerRotateBefore"
        BY <1>1, <1>2, KeyOptions
      <4> HIDE DEF o
      <4> QED BY <3>1, <4>1, <4>2 DEF ArgumentsOf
    <3> QED BY <3>1
  <2> HIDE DEF o
  <2>5. fresh2 <=> ~(\/ o.name \in p.seen /\ o.name \notin Options!Repeatable
                     \/ f \in Options!Shared /\ v[f] # <<>>
                     \/ o.name = "WithKey" /\ v["WithKeyPath"] # <<>>
                     \/ o.name = "WithKeyPath" /\ v["WithKey"] # <<>>
                     \/ o.name = "WithIssuerRotateBefore" /\ o.arg \in Options!Range(v[o.name]))
    BY <2>1, <2>2, <2>3, <2>4 DEF Conflict
  <2> QED BY <2>5 DEF Alone, Options!Refuses
<1>9. ASSUME Alone(s, o), fresh2 PROVE ParsedTo(Options!Parse(p, s, o), q, n + 1)
  <2> DEFINE p2 == [p EXCEPT !.seen = @ \cup {o.name}, !.values = Options!Apply(o, @)]
             v2 == Options!Apply(o, v)
  <2>1. Options!Parse(p, s, o) = p2
    BY <1>4, <1>8, <1>9 DEF Options!Parse, v
  <2>2. p2 \in Parsings
    BY <1>3, <1>4, <2>1, ParseTyped
  <2>3. p2.err = FALSE /\ p2.seen = p.seen \cup {o.name} /\ p2.values = v2
    BY <1>4 DEF Parsings, v
  <2>4. p2.seen = {q[i].name : i \in 1..(n + 1)}
    BY <1>1, <1>4, <2>3
  <2>5. v2 = [v EXCEPT ![f] = IF o.name \in Options!Repeatable THEN Append(v[f], o.arg) ELSE <<o.arg>>]
    BY DEF Options!Apply
  <2>6. v \in [Options!Names -> Seq(Arguments)]
    BY <1>4 DEF Parsings, v
  <2>7. /\ \A h \in Options!Names \ {f} : v2[h] = v[h]
        /\ v2[f] = IF o.name \in Options!Repeatable THEN Append(v[f], o.arg) ELSE <<o.arg>>
    BY <1>3, <2>5, <2>6
  <2>8. o.name \notin Options!Repeatable => Options!Range(v[f]) = {}
    <3> SUFFICES ASSUME o.name \notin Options!Repeatable, Options!Range(v[f]) # {} PROVE FALSE
      OBVIOUS
    <3>1. PICK i \in 1..n : Options!Field(q[i].name) = f
      BY <1>3, <1>4, <1>7
    <3>2. CASE f \in Options!Shared
      BY <1>9, <3>1, <3>2 DEF Conflict
    <3>3. CASE f \notin Options!Shared
      <4>1. q[i].name = o.name
        BY <1>1, <1>2, <1>3, <3>1, <3>3, FieldOf
      <4> QED BY <1>9, <4>1 DEF Conflict
    <3> QED BY <3>2, <3>3
  <2>9. Options!Range(v2[f]) = Options!Range(v[f]) \cup {o.arg}
    BY <1>3, <1>4, <2>7, <2>8, AppendRange
  <2> HIDE DEF p2, v2
  <2>10. ASSUME NEW h \in Options!Names PROVE Options!Range(v2[h]) = ArgumentsOf(q, n + 1, h)
    <3>1. ArgumentsOf(q, n + 1, h) = ArgumentsOf(q, n, h) \cup (IF f = h THEN {o.arg} ELSE {})
      BY ArgumentsOfMore
    <3>2. Options!Range(v[h]) = ArgumentsOf(q, n, h)
      BY <1>4
    <3> HIDE DEF f, o
    <3> QED BY <2>7, <2>9, <3>1, <3>2
  <2> QED BY <2>1, <2>2, <2>3, <2>4, <2>10 DEF ParsedTo
<1>10. ASSUME ~(Alone(s, o) /\ fresh2) PROVE Options!Parse(p, s, o).err
  <2>1. Options!Parse(p, s, o) = [p EXCEPT !.err = TRUE]
    BY <1>8, <1>10 DEF Options!Parse, v
  <2> QED BY <1>4, <2>1 DEF Parsings
<1> QED BY <1>6, <1>9, <1>10

-----------------------------------------------------------------------------
\* The loop over a whole list

ParseTurns(it, s, q) ==
    it = [x \in SUBSET DOMAIN q |->
             IF x = {} THEN Options!Nothing
             ELSE Options!Parse(it[x \ {Max(x)}], s, q[Max(x)])]

LEMMA ParseOptionsIs ==
  ASSUME NEW s, NEW q
  PROVE  Options!parseOptions(s, q) = (CHOOSE it : ParseTurns(it, s, q))[DOMAIN q]
<1>1. \A x : Options!Max(x) = Max(x)
  BY DEF Options!Max, Max
<1> HIDE DEF Options!Parse, Options!Nothing
<1>2. Options!parseOptions(s, q)
        = (CHOOSE it : it = [x \in SUBSET DOMAIN q |->
             IF x = {} THEN Options!Nothing
             ELSE Options!Parse(it[x \ {Options!Max(x)}], s, q[Options!Max(x)])])[DOMAIN q]
  BY DEF Options!parseOptions, Options!FoldLeft, Options!MapThenFoldSet
<1> QED BY <1>1, <1>2 DEF ParseTurns

LEMMA NothingParsed == Options!Nothing \in Parsings
<1>1. <<>> \in Seq(Arguments)
  OBVIOUS
<1>2. [n \in Options!Names |-> <<>>] \in [Options!Names -> Seq(Arguments)]
  BY <1>1
<1> QED BY <1>2 DEF Options!Nothing, Parsings

LEMMA ParseOptionsTurns ==
  ASSUME NEW s, NEW q \in Seq(Options!Option)
  PROVE  \E c \in [0..Len(q) -> Parsings] :
            /\ c[0] = Options!Nothing /\ Options!parseOptions(s, q) = c[Len(q)]
            /\ \A i \in 1..Len(q) : c[i] = Options!Parse(c[i - 1], s, q[i])
<1> DEFINE n == Len(q)
           T == Options!Option
           nothing == Options!Nothing
           g == [x \in Parsings \X T |-> Options!Parse(x[1], s, x[2])]
<1>1. n \in Nat /\ DOMAIN q = 1..n /\ \A i \in 1..n : q[i] \in T
  OBVIOUS
<1> HIDE DEF T
<1>2. g \in [Parsings \X T -> Parsings]
  BY ParseTyped DEF T
<1>3. \A a \in Parsings, x \in T : g[<<a, x>>] = Options!Parse(a, s, x)
  OBVIOUS
<1>4. nothing \in Parsings
  BY NothingParsed
<1> HIDE DEF n, g, nothing
<1>5. \E it : ParseTurns(it, s, q)
  <2>1. PICK it : Turns(it, g, nothing, q, n)
    BY <1>1, TurnsExist
  <2>2. \A x \in SUBSET (1..n) : it[x] \in Parsings
    BY <1>1, <1>2, <1>4, <2>1, TurnsStay
  <2> DEFINE e(x) == Turn(it, g, nothing, q, x)
             d(x) == IF x = {} THEN nothing ELSE Options!Parse(it[x \ {Max(x)}], s, q[Max(x)])
  <2>3. ASSUME NEW x \in SUBSET (1..n) PROVE e(x) = d(x)
    <3>1. CASE x = {}
      BY <3>1 DEF Turn
    <3>2. CASE x # {}
      <4>1. Max(x) \in 1..n /\ x \ {Max(x)} \in SUBSET (1..n)
        BY <1>1, <3>2, LastPosition
      <4>2. it[x \ {Max(x)}] \in Parsings /\ q[Max(x)] \in T
        BY <1>1, <2>2, <4>1
      <4>3. g[<<it[x \ {Max(x)}], q[Max(x)]>>] = Options!Parse(it[x \ {Max(x)}], s, q[Max(x)])
        BY <1>3, <4>2
      <4> QED BY <3>2, <4>3 DEF Turn
    <3> QED BY <3>1, <3>2
  <2>4. it = [x \in SUBSET (1..n) |-> e(x)]
    BY <2>1 DEF Turns
  <2> HIDE DEF d, e
  <2>5. it = [x \in SUBSET (1..n) |-> d(x)]
    BY <2>3, <2>4
  <2>6. ParseTurns(it, s, q)
    BY <1>1, <2>5 DEF ParseTurns, d, nothing
  <2> QED BY <2>6
<1>6. PICK it : ParseTurns(it, s, q) /\ Options!parseOptions(s, q) = it[DOMAIN q]
  BY <1>5, ParseOptionsIs
<1>7. \A x \in SUBSET (1..n) :
         it[x] = IF x = {} THEN nothing ELSE Options!Parse(it[x \ {Max(x)}], s, q[Max(x)])
  BY <1>1, <1>6, Zenon DEF ParseTurns, nothing
<1> DEFINE c == [i \in 0..n |-> it[1..i]]
<1>8. c[0] = nothing /\ c[n] = Options!parseOptions(s, q)
  <2>1. 1..0 = {} /\ {} \in SUBSET (1..n)
    OBVIOUS
  <2>2. it[{}] = nothing
    BY <1>7, <2>1
  <2> QED BY <1>1, <1>6, <2>1, <2>2
<1>9. \A i \in 1..n : c[i] = Options!Parse(c[i - 1], s, q[i])
  <2> TAKE i \in 1..n
  <2>1. /\ 1..i \in SUBSET (1..n) /\ 1..i # {} /\ Max(1..i) = i
        /\ (1..i) \ {Max(1..i)} = 1..(i - 1)
    BY <1>1, Positions
  <2>2. it[1..i] = Options!Parse(it[1..(i - 1)], s, q[i])
    BY <1>7, <2>1
  <2>3. c[i] = it[1..i] /\ c[i - 1] = it[1..(i - 1)]
    BY <1>1
  <2> QED BY <2>2, <2>3
<1>10. c = [i \in 0..n |-> c[i]]
  OBVIOUS
<1> HIDE DEF c
<1>11. c \in [0..n -> Parsings]
  <2> DEFINE Good == {i \in Nat : i <= n => c[i] \in Parsings}
  <2>1. 0 \in Good
    BY <1>4, <1>8
  <2>2. ASSUME NEW i \in Nat, i \in Good PROVE i + 1 \in Good
    <3> SUFFICES ASSUME i + 1 <= n PROVE c[i + 1] \in Parsings
      OBVIOUS
    <3>1. i + 1 \in 1..n /\ (i + 1) - 1 = i /\ i <= n
      BY <1>1
    <3>2. c[i] \in Parsings /\ q[i + 1] \in T
      BY <1>1, <2>2, <3>1
    <3>3. c[i + 1] = Options!Parse(c[i], s, q[i + 1])
      BY <1>9, <3>1
    <3> QED BY <3>2, <3>3, ParseTyped DEF T
  <2> HIDE DEF Good
  <2>3. Nat \subseteq Good
    BY <2>1, <2>2, EveryNatural
  <2>4. \A i \in 0..n : c[i] \in Parsings
    <3> TAKE i \in 0..n
    <3>1. i \in Nat /\ i <= n
      BY <1>1
    <3>2. i \in Good
      BY <2>3, <3>1
    <3> QED BY <3>1, <3>2 DEF Good
  <2> QED BY <1>10, <2>4
<1> QED BY <1>8, <1>9, <1>11 DEF n, nothing

\* Before the first option.
LEMMA ParsedNothing ==
  ASSUME NEW q, NEW s
  PROVE  ParsedTo(Options!Nothing, q, 0) /\ Acceptable(s, q, 0)
<1>1. 1..0 = {}
  OBVIOUS
<1>2. \A f : ArgumentsOf(q, 0, f) = {}
  BY <1>1 DEF ArgumentsOf
<1>3. \A f \in Options!Names : Options!Range(Options!Nothing.values[f]) = {}
  BY DEF Options!Range, Options!Nothing
<1>4. Options!Nothing.seen = {} /\ Options!Nothing.err = FALSE
  BY DEF Options!Nothing
<1> QED BY <1>1, <1>2, <1>3, <1>4, NothingParsed DEF ParsedTo, Acceptable

\* A list whose options may stand beside each other is accepted.
LEMMA AcceptableParsed ==
  ASSUME NEW s, NEW q \in Seq(Options!Option), Acceptable(s, q, Len(q))
  PROVE  ParsedTo(Options!parseOptions(s, q), q, Len(q))
<1> DEFINE n == Len(q)
<1>1. n \in Nat /\ \A i \in 1..n : q[i] \in Options!Option
  OBVIOUS
<1>2. PICK c \in [0..n -> Parsings] :
            /\ c[0] = Options!Nothing /\ Options!parseOptions(s, q) = c[n]
            /\ \A i \in 1..n : c[i] = Options!Parse(c[i - 1], s, q[i])
  BY ZenonT(30), ParseOptionsTurns
<1>3. Acceptable(s, q, n)
  OBVIOUS
<1> HIDE DEF n
<1> DEFINE Good == {i \in Nat : i <= n => ParsedTo(c[i], q, i)}
<1>4. 0 \in Good
  BY <1>2, ParsedNothing
<1>5. ASSUME NEW i \in Nat, i \in Good PROVE i + 1 \in Good
  <2> SUFFICES ASSUME i + 1 <= n PROVE ParsedTo(c[i + 1], q, i + 1)
    OBVIOUS
  <2>1. i + 1 \in 1..n /\ (i + 1) - 1 = i /\ i <= n /\ \A j \in 1..(i + 1) : j \in 1..n
    BY <1>1
  <2>2. /\ ParsedTo(c[i], q, i) /\ c[i + 1] = Options!Parse(c[i], s, q[i + 1])
        /\ \A j \in 1..(i + 1) : q[j] \in Options!Option
    BY <1>1, <1>2, <1>5, <2>1
  <2>3. Acceptable(s, q, i) /\ Acceptable(s, q, i + 1)
    <3>1. \A j \in 1..i : j \in 1..n
      BY <2>1
    <3> QED BY <1>3, <2>1, <3>1 DEF Acceptable
  <2> QED BY <2>2, <2>3, ParseTurn
<1> HIDE DEF Good
<1>6. Nat \subseteq Good
  BY <1>4, <1>5, EveryNatural
<1>7. ParsedTo(c[n], q, n)
  <2>1. n \in Good
    BY <1>1, <1>6
  <2> QED BY <1>1, <2>1 DEF Good
<1> QED BY <1>2, <1>7 DEF n

-----------------------------------------------------------------------------
\* The same options in another order

\* A permutation of positions reaches each of them once.
LEMMA PermutationIs ==
  ASSUME NEW n \in Nat, NEW perm \in Options!SetToSeqs(1..n)
  PROVE  /\ perm \in [1..n -> 1..n]
         /\ \A i, j \in 1..n : i # j => perm[i] # perm[j]
         /\ \A k \in 1..n : \E i \in 1..n : perm[i] = k
<1>1. \A S : Options!Cardinality(S) = Cardinality(S)
  BY DEF Options!Cardinality, Cardinality
<1>2. IsFiniteSet(1..n) /\ Cardinality(1..n) = n
  BY FS_Interval
<1>3. perm \in [1..n -> 1..n] /\ \A i, j \in 1..n : i # j => perm[i] # perm[j]
  BY <1>1, <1>2 DEF Options!SetToSeqs
<1>4. perm \in Injection(1..n, 1..n)
  BY <1>3 DEF Injection, IsInjective
<1>5. perm \in Surjection(1..n, 1..n)
  BY <1>2, <1>4, FS_Injection
<1> QED BY <1>3, <1>5 DEF Surjection

LEMMA PermutedAlike ==
  ASSUME NEW s, NEW q \in Seq(Options!Option), Acceptable(s, q, Len(q)),
         NEW perm \in Options!SetToSeqs(DOMAIN q)
  PROVE  LET r == [i \in DOMAIN q |-> q[perm[i]]] IN
         /\ r \in Seq(Options!Option) /\ Len(r) = Len(q) /\ Acceptable(s, r, Len(q))
         /\ \A f : ArgumentsOf(r, Len(q), f) = ArgumentsOf(q, Len(q), f)
<1> DEFINE r == [i \in DOMAIN q |-> q[perm[i]]]
<1>1. PICK n \in Nat : n = Len(q)
  OBVIOUS
<1>2. DOMAIN q = 1..n /\ \A i \in 1..n : q[i] \in Options!Option
  BY <1>1
<1>3. /\ perm \in [1..n -> 1..n]
      /\ \A i, j \in 1..n : i # j => perm[i] # perm[j]
      /\ \A k \in 1..n : \E i \in 1..n : perm[i] = k
  BY <1>2, PermutationIs
<1>4. \A i \in 1..n : r[i] = q[perm[i]] /\ perm[i] \in 1..n
  BY <1>2, <1>3
<1>5. r = [i \in 1..n |-> r[i]] /\ \A i \in 1..n : r[i] \in Options!Option
  BY <1>2, <1>4
<1> HIDE DEF r
<1>6. r \in Seq(Options!Option) /\ Len(r) = n
  BY <1>5
<1>7. Acceptable(s, r, n)
  <2>1. \A i \in 1..n : Alone(s, r[i])
    BY <1>1, <1>4 DEF Acceptable
  <2>2. \A i, j \in 1..n : i # j => ~Conflict(r[i], r[j])
    BY SMTT(30), <1>1, <1>3, <1>4 DEF Acceptable
  <2> QED BY <2>1, <2>2 DEF Acceptable
<1>8. \A f : ArgumentsOf(r, n, f) = ArgumentsOf(q, n, f)
  <2> TAKE f
  <2>1. ASSUME NEW x \in ArgumentsOf(r, n, f) PROVE x \in ArgumentsOf(q, n, f)
    <3>1. PICK i \in 1..n : Options!Field(r[i].name) = f /\ x = r[i].arg
      BY DEF ArgumentsOf
    <3>2. perm[i] \in 1..n /\ Options!Field(q[perm[i]].name) = f /\ x = q[perm[i]].arg
      BY <1>4, <3>1
    <3> QED BY <3>2 DEF ArgumentsOf
  <2>2. ASSUME NEW x \in ArgumentsOf(q, n, f) PROVE x \in ArgumentsOf(r, n, f)
    <3>1. PICK k \in 1..n : Options!Field(q[k].name) = f /\ x = q[k].arg
      BY DEF ArgumentsOf
    <3>2. PICK i \in 1..n : perm[i] = k
      BY <1>3
    <3>3. Options!Field(r[i].name) = f /\ x = r[i].arg
      BY <1>4, <3>1, <3>2
    <3> QED BY <3>3 DEF ArgumentsOf
  <2> QED BY <2>1, <2>2
<1> QED BY <1>1, <1>6, <1>7, <1>8 DEF r

\* What has been parsed so far, unless the list is refused, are options that may
\* stand beside each other.
OptionsInv ==
    /\ scope \in Options!Scopes /\ options \in Seq(Options!Option) /\ parsed \in Parsings
    /\ ~parsed.err => /\ Acceptable(scope, options, Len(options))
                      /\ ParsedTo(parsed, options, Len(options))

\* The first options of a longer list.
LEMMA FirstOptions ==
  ASSUME NEW q, NEW r, NEW n \in Nat, \A i \in 1..n : r[i] = q[i], NEW p, NEW s
  PROVE  /\ Acceptable(s, q, n) => Acceptable(s, r, n)
         /\ ParsedTo(p, q, n) => ParsedTo(p, r, n)
<1>1. \A f : ArgumentsOf(r, n, f) = ArgumentsOf(q, n, f)
  BY DEF ArgumentsOf
<1>2. {r[i].name : i \in 1..n} = {q[i].name : i \in 1..n}
  OBVIOUS
<1> QED BY <1>1, <1>2 DEF Acceptable, ParsedTo

LEMMA OptionsStep ==
  OptionsInv /\ [Options!Next]_optionsVars => OptionsInv'
<1> SUFFICES ASSUME OptionsInv, [Options!Next]_optionsVars PROVE OptionsInv'
  OBVIOUS
<1>1. CASE UNCHANGED optionsVars
  BY <1>1 DEF OptionsInv, optionsVars
<1>2. CASE Options!Next
  <2>1. PICK o \in Options!Option :
            /\ ~parsed.err /\ options' = Append(options, o)
            /\ parsed' = Options!Parse(parsed, scope, o) /\ scope' = scope
    BY <1>2 DEF Options!Next
  <2>2. /\ options \in Seq(Options!Option) /\ parsed \in Parsings /\ scope \in Options!Scopes
        /\ Acceptable(scope, options, Len(options)) /\ ParsedTo(parsed, options, Len(options))
    BY <2>1 DEF OptionsInv
  <2>3. PICK n \in Nat : n = Len(options)
    BY <2>2
  <2> DEFINE r == Append(options, o)
  <2>4. /\ r \in Seq(Options!Option) /\ Len(r) = n + 1 /\ r[n + 1] = o
        /\ \A i \in 1..n : r[i] = options[i]
        /\ \A i \in 1..(n + 1) : r[i] \in Options!Option
    BY <2>2, <2>3
  <2> HIDE DEF r
  <2>5. Acceptable(scope, r, n) /\ ParsedTo(parsed, r, n)
    BY <2>2, <2>3, <2>4, FirstOptions
  <2>6. /\ Acceptable(scope, r, n + 1) => ParsedTo(Options!Parse(parsed, scope, o), r, n + 1)
        /\ ~Options!Parse(parsed, scope, o).err => Acceptable(scope, r, n + 1)
    BY <2>4, <2>5, ParseTurn
  <2>7. parsed' \in Parsings
    BY <2>1, <2>2, ParseTyped
  <2>8. options' = r
    BY <2>1 DEF r
  <2> QED BY <2>1, <2>2, <2>4, <2>6, <2>7, <2>8 DEF OptionsInv
<1> QED BY <1>1, <1>2

LEMMA OptionsSay ==
  OptionsInv => Options!TypeOK /\ Options!NothingOverwritten /\ Options!OrderIrrelevant
<1> SUFFICES ASSUME OptionsInv
             PROVE  Options!TypeOK /\ Options!NothingOverwritten /\ Options!OrderIrrelevant
  OBVIOUS
<1>1. Options!TypeOK
  BY DEF OptionsInv, Options!TypeOK, Parsings
<1>2. PICK n \in Nat : n = Len(options)
  BY DEF OptionsInv
<1>3. DOMAIN options = 1..n /\ \A i \in 1..n : options[i].name \in Options!Names
  <2>1. DOMAIN options = 1..n /\ \A i \in 1..n : options[i] \in Options!Option
    BY <1>2 DEF OptionsInv
  <2> QED BY <2>1 DEF Options!Option
<1>4. ASSUME ~parsed.err, NEW i \in DOMAIN options
      PROVE  options[i].arg \in Options!Range(parsed.values[Options!Field(options[i].name)])
  <2> DEFINE f == Options!Field(options[i].name)
  <2>1. f \in Options!Names /\ Options!Range(parsed.values[f]) = ArgumentsOf(options, n, f)
    BY <1>2, <1>3, <1>4, FieldOf DEF OptionsInv, ParsedTo
  <2>2. options[i].arg \in ArgumentsOf(options, n, f)
    BY <1>3, <1>4 DEF ArgumentsOf
  <2> QED BY <2>1, <2>2
<1>5. ASSUME ~parsed.err, NEW perm \in Options!SetToSeqs(DOMAIN options)
      PROVE  LET p == Options!parseOptions(scope, [i \in DOMAIN options |-> options[perm[i]]]) IN
             /\ ~p.err
             /\ \A f \in Options!Names : Options!Range(p.values[f]) = Options!Range(parsed.values[f])
  <2> DEFINE r == [i \in DOMAIN options |-> options[perm[i]]]
             p == Options!parseOptions(scope, r)
  <2>1. /\ options \in Seq(Options!Option) /\ Acceptable(scope, options, Len(options))
        /\ ParsedTo(parsed, options, n)
    BY <1>2, <1>5 DEF OptionsInv
  <2>2. /\ r \in Seq(Options!Option) /\ Len(r) = n /\ Acceptable(scope, r, n)
        /\ \A f : ArgumentsOf(r, n, f) = ArgumentsOf(options, n, f)
    BY <1>2, <1>5, <2>1, PermutedAlike
  <2> HIDE DEF r
  <2>3. ParsedTo(p, r, n)
    BY <2>2, AcceptableParsed
  <2> HIDE DEF p
  <2>4. ~p.err /\ \A f \in Options!Names : Options!Range(p.values[f]) = Options!Range(parsed.values[f])
    BY <2>1, <2>2, <2>3 DEF ParsedTo
  <2> QED BY <2>4 DEF p, r
<1> QED BY <1>1, <1>4, <1>5 DEF Options!NothingOverwritten, Options!OrderIrrelevant

\* Of the five parts of the composition only one is at work, and it leaves the
\* options alone or is about them.
LEMMA OptionsAtWork ==
  ASSUME [MCNext]_<<part, vars, optionsVars, bundleVars, filesVars, rotationVars>>
  PROVE  [Options!Next]_optionsVars
  BY DEF MCNext, Parsed

LEMMA OptionsBegin ==
  MCInit => OptionsInv
<1> SUFFICES ASSUME MCInit PROVE OptionsInv
  OBVIOUS
<1>1. scope \in Options!Scopes /\ options = <<>> /\ parsed = Options!Nothing
  BY DEF MCInit, Options!Init
<1>2. options \in Seq(Options!Option) /\ Len(options) = 0
  BY <1>1
<1> QED BY <1>1, <1>2, ParsedNothing, NothingParsed DEF OptionsInv

\* For every argument and every length of the list: no option of an accepted
\* list undoes another one, and parseOptions accepts it in any order with the
\* same values (options.go).
THEOREM OptionsAreIndependent == MCSpec => []OptionsIndependent
<1>1. MCInit => OptionsInv
  BY OptionsBegin
<1>2. OptionsInv /\ [MCNext]_<<part, vars, optionsVars, bundleVars, filesVars, rotationVars>>
         => OptionsInv'
  BY OptionsAtWork, OptionsStep
<1>3. OptionsInv => OptionsIndependent
  BY OptionsSay DEF OptionsIndependent
<1> QED BY <1>1, <1>2, <1>3, PTL DEF MCSpec

-----------------------------------------------------------------------------
\* Chains

\* The issuing relation among the certificates of a set.
Edge(c, p, S) == c # p /\ ~SelfSigned(c) /\ Issued(p, c)

LEMMA ParentsAre ==
  ASSUME NEW S \in SUBSET Certs, NEW c \in S
  PROVE  /\ Parents(c, S) = {p \in S : Edge(c, p, S)}
         /\ Children(c, S) = {d \in S : Edge(d, c, S)}
<1>1. \A d \in S : Parents(d, S) = {p \in S : Edge(d, p, S)}
  <2> TAKE d \in S
  <2>1. d \in Certs
    OBVIOUS
  <2>2. Issuers[d] = IF SelfSigned(d) THEN {} ELSE {p \in Certs \ {d} : Issued(p, d)}
    BY <2>1 DEF Issuers
  <2> QED BY <2>2 DEF Parents, Edge
<1>2. Children(c, S) = {d \in S : Edge(d, c, S)}
  BY <1>1 DEF Children
<1> QED BY <1>1, <1>2

\* A set of at most one element.
LEMMA OneAtMost ==
  ASSUME NEW S, IsFiniteSet(S), NEW T \in SUBSET S
  PROVE  Cardinality(T) <= 1 <=> \A x, y \in T : x = y
<1>1. IsFiniteSet(T)
  BY FS_Subset
<1>2. Cardinality(T) \in Nat /\ (Cardinality(T) = 0 <=> T = {}) /\ (Cardinality(T) = 1 <=> \E x : T = {x})
  BY <1>1, FS_CardinalityType, FS_EmptySet, FS_Singleton
<1>3. Cardinality(T) <= 1 <=> Cardinality(T) = 0 \/ Cardinality(T) = 1
  BY <1>2
<1>4. (\A x, y \in T : x = y) <=> T = {} \/ \E x : T = {x}
  OBVIOUS
<1> QED BY <1>2, <1>3, <1>4

\* Linkable, without counting.
Line(S, b) ==
    /\ \A c, p, q \in S : Edge(c, p, S) /\ Edge(c, q, S) => p = q
    /\ \A c, p \in S : Edge(c, p, S) => CACapable(p)
    /\ \A p, c, d \in S : Edge(c, p, S) /\ Edge(d, p, S) => c = d
    /\ b \in S
    /\ \A c \in S : (c = b) <=> (\A d \in S : ~Edge(d, c, S))

LEMMA LinkableIs ==
  ASSUME NEW S \in SUBSET Certs, IsFiniteSet(S)
  PROVE  Linkable(S) <=> \E b : Line(S, b)
<1>1. \A c \in S : /\ Parents(c, S) = {p \in S : Edge(c, p, S)}
                   /\ Children(c, S) = {d \in S : Edge(d, c, S)}
  BY ParentsAre
<1>2. \A c \in S : Parents(c, S) \in SUBSET S /\ Children(c, S) \in SUBSET S
  BY <1>1
<1>3. \A c \in S : /\ Cardinality(Parents(c, S)) <= 1 <=> \A x, y \in Parents(c, S) : x = y
                   /\ Cardinality(Children(c, S)) <= 1 <=> \A x, y \in Children(c, S) : x = y
  BY <1>2, OneAtMost
<1>4. Bottoms(S) \in SUBSET S /\ IsFiniteSet(Bottoms(S))
  <2>1. Bottoms(S) \in SUBSET S
    BY DEF Bottoms
  <2> QED BY <2>1, FS_Subset
<1>5. Cardinality(Bottoms(S)) = 1 <=> \E b : Bottoms(S) = {b}
  BY <1>4, FS_Singleton
<1>6. \A b : Bottoms(S) = {b} <=> /\ b \in S
                                  /\ \A c \in S : (c = b) <=> (\A d \in S : ~Edge(d, c, S))
  BY <1>1 DEF Bottoms
<1>7. (\A c \in S : Cardinality(Parents(c, S)) <= 1)
        <=> \A c, p, q \in S : Edge(c, p, S) /\ Edge(c, q, S) => p = q
  BY <1>1, <1>3
<1>8. (\A p \in S : Cardinality(Children(p, S)) <= 1)
        <=> \A p, c, d \in S : Edge(c, p, S) /\ Edge(d, p, S) => c = d
  BY <1>1, <1>3
<1>9. (\A c \in S : \A p \in Parents(c, S) : CACapable(p))
        <=> \A c, p \in S : Edge(c, p, S) => CACapable(p)
  BY <1>1
<1> QED BY <1>5, <1>6, <1>7, <1>8, <1>9 DEF Linkable, Line

\* The chain goes up from the bottom as long as there is an issuer.
LEMMA UpIs ==
  ASSUME NEW S \in SUBSET Certs, IsFiniteSet(S), NEW b, Line(S, b), NEW n \in Nat, n = Cardinality(S)
  PROVE  /\ DOMAIN Ordered(S) = 1..n
         /\ 1 \in 1..n /\ Ordered(S)[1] = b
         /\ \A i \in 1..n : i # 1 /\ Ordered(S)[i - 1] \in S =>
               IF \E p \in S : Edge(Ordered(S)[i - 1], p, S)
               THEN Ordered(S)[i] \in S /\ Edge(Ordered(S)[i - 1], Ordered(S)[i], S)
               ELSE Ordered(S)[i] = 0
<1> DEFINE o == Ordered(S)
<1>1. Chain(o, n, S)
  BY OrderedIs
<1> HIDE DEF o
<1>2. DOMAIN o = 1..n
  BY <1>1 DEF Chain
<1>3. 1 \in 1..n
  <2>1. b \in S
    BY DEF Line
  <2>2. n # 0
    BY <2>1, FS_EmptySet
  <2> QED BY <2>2
<1>4. o[1] = b
  <2>1. \A c \in S : Children(c, S) = {d \in S : Edge(d, c, S)}
    BY ParentsAre
  <2>2. Bottoms(S) = {b}
    BY <2>1 DEF Bottoms, Line
  <2>3. o[1] = CHOOSE c \in Bottoms(S) : TRUE
    BY <1>1, <1>3, ChainAt
  <2> QED BY <2>2, <2>3
<1>5. ASSUME NEW i \in 1..n, i # 1, o[i - 1] \in S
      PROVE  IF \E p \in S : Edge(o[i - 1], p, S)
             THEN o[i] \in S /\ Edge(o[i - 1], o[i], S)
             ELSE o[i] = 0
  <2>1. o[i] = Above(o[i - 1], S)
    BY <1>1, <1>5, ChainAt
  <2>2. o[i - 1] # 0
    BY <1>5, ChainConstants
  <2>3. Parents(o[i - 1], S) = {p \in S : Edge(o[i - 1], p, S)}
    BY <1>5, ParentsAre
  <2> QED BY <2>1, <2>2, <2>3 DEF Above
<1> QED BY <1>2, <1>3, <1>4, <1>5 DEF o

\* An order in which the issuing relation is exactly "the next one issued it".
InLine(o, n, S) ==
    /\ o \in [1..n -> S]
    /\ \A i, j \in 1..n : i # j => o[i] # o[j]
    /\ \A c \in S : \E i \in 1..n : o[i] = c
    /\ \A i, j \in 1..n : Edge(o[i], o[j], S) <=> j = i + 1

LEMMA UpInLine ==
  ASSUME NEW S \in SUBSET Certs, IsFiniteSet(S), NEW b, Line(S, b), NEW n \in Nat, n = Cardinality(S),
         \A i \in 1..n : Ordered(S)[i] # 0
  PROVE  InLine(Ordered(S), n, S)
<1> DEFINE o == Ordered(S)
<1>1. /\ DOMAIN o = 1..n /\ 1 \in 1..n /\ o[1] = b
      /\ \A i \in 1..n : i # 1 /\ o[i - 1] \in S => o[i] \in S /\ Edge(o[i - 1], o[i], S)
  BY UpIs
<1>2. o = [i \in 1..n |-> o[i]]
  <2>1. Chain(o, n, S)
    BY OrderedIs
  <2> HIDE DEF o
  <2> QED BY <1>1, <2>1 DEF Chain
<1> HIDE DEF o
<1>3. \A i \in 1..n : o[i] \in S
  <2> DEFINE Good == {i \in Nat : i + 1 \in 1..n => o[i + 1] \in S}
  <2>1. 0 \in Good
    BY <1>1 DEF Line
  <2>2. ASSUME NEW i \in Nat, i \in Good PROVE i + 1 \in Good
    <3> SUFFICES ASSUME i + 1 + 1 \in 1..n PROVE o[i + 1 + 1] \in S
      OBVIOUS
    <3>1. i + 1 \in 1..n /\ i + 1 + 1 # 1 /\ (i + 1 + 1) - 1 = i + 1
      OBVIOUS
    <3>2. o[i + 1] \in S
      BY <2>2, <3>1
    <3> HIDE DEF Good
    <3> QED BY <1>1, <3>1, <3>2
  <2> HIDE DEF Good
  <2>3. Nat \subseteq Good
    BY <2>1, <2>2, EveryNatural
  <2> TAKE i \in 1..n
  <2>4. i - 1 \in Nat /\ (i - 1) + 1 = i
    OBVIOUS
  <2> QED BY <2>3, <2>4 DEF Good
<1>4. \A i \in 1..n : i # 1 => i - 1 \in 1..n /\ Edge(o[i - 1], o[i], S)
  <2> TAKE i \in 1..n
  <2>1. i # 1 => i - 1 \in 1..n
    OBVIOUS
  <2> QED BY <1>1, <1>3, <2>1
<1>5. ASSUME NEW i \in 1..n, NEW j \in 1..n, i < j, o[i] = o[j] PROVE FALSE
  <2> DEFINE Bad == {x \in Nat : x \in 1..n /\ \E y \in 1..n : x < y /\ o[x] = o[y]}
  <2>1. i \in Bad /\ Bad \in SUBSET Nat
    BY <1>5
  <2>2. PICK m \in Bad : \A x \in Bad : m <= x
    BY <2>1, LeastNatural
  <2>3. PICK y \in 1..n : m < y /\ o[m] = o[y] /\ m \in 1..n
    BY <2>2
  <2>4. y # 1 /\ y - 1 \in 1..n
    BY <2>3
  <2>5. Edge(o[y - 1], o[y], S)
    BY <1>4, <2>4
  <2>6. CASE m = 1
    <3>1. o[y] = b
      BY <1>1, <2>3, <2>6
    <3> QED BY <1>3, <2>4, <2>5, <3>1 DEF Line
  <2>7. CASE m # 1
    <3>1. m - 1 \in 1..n /\ Edge(o[m - 1], o[m], S)
      BY <1>4, <2>3, <2>7
    <3>2. o[m - 1] = o[y - 1]
      BY <1>3, <2>3, <2>4, <2>5, <3>1 DEF Line
    <3>3. m - 1 \in Bad /\ ~(m <= m - 1)
      BY <2>3, <2>4, <3>1, <3>2
    <3> HIDE DEF Bad
    <3> QED BY <2>2, <3>3
  <2> QED BY <2>6, <2>7
<1>6. \A i, j \in 1..n : i # j => o[i] # o[j]
  <2> TAKE i, j \in 1..n
  <2>1. i # j => i < j \/ j < i
    OBVIOUS
  <2> QED BY <1>5, <2>1
<1>7. o \in [1..n -> S]
  BY <1>2, <1>3
<1>8. \A c \in S : \E i \in 1..n : o[i] = c
  <2>1. o \in Injection(1..n, S)
    BY <1>6, <1>7 DEF Injection, IsInjective
  <2>2. IsFiniteSet(1..n) /\ Cardinality(1..n) = n
    BY FS_Interval
  <2>3. o \in Surjection(1..n, S)
    BY <2>1, <2>2, FS_Injection
  <2> QED BY <2>3 DEF Surjection
<1>9. ASSUME NEW i \in 1..n, NEW j \in 1..n
      PROVE  Edge(o[i], o[j], S) <=> j = i + 1
  <2>1. ASSUME j = i + 1 PROVE Edge(o[i], o[j], S)
    <3>1. j # 1 /\ j - 1 = i
      BY <2>1
    <3> QED BY <1>4, <3>1
  <2>2. ASSUME Edge(o[i], o[j], S) PROVE j = i + 1
    <3>1. j # 1
      BY <1>1, <1>3, <2>2 DEF Line
    <3>2. j - 1 \in 1..n /\ Edge(o[j - 1], o[j], S)
      BY <1>4, <3>1
    <3>3. o[j - 1] = o[i]
      BY <1>3, <2>2, <3>2 DEF Line
    <3>4. j - 1 = i
      BY <1>6, <3>2, <3>3
    <3> QED BY <3>4
  <2> QED BY <2>1, <2>2
<1> QED BY <1>6, <1>7, <1>8, <1>9 DEF InLine, o

\* And from such an order back to the chain.
LEMMA LineIsUp ==
  ASSUME NEW S \in SUBSET Certs, IsFiniteSet(S), NEW n \in Nat \ {0}, n = Cardinality(S), NEW o,
         InLine(o, n, S), \A c, p \in S : Edge(c, p, S) => CACapable(p)
  PROVE  Line(S, o[1]) /\ \A i \in 1..n : Ordered(S)[i] # 0
<1>1. \A c \in S : \E i \in 1..n : o[i] = c
  BY DEF InLine
<1>2. \A i \in 1..n : o[i] \in S
  BY DEF InLine
<1>3. 1 \in 1..n
  OBVIOUS
<1>4. ASSUME NEW c \in S, NEW p \in S, NEW q \in S, Edge(c, p, S), Edge(c, q, S) PROVE p = q
  <2>1. PICK i \in 1..n, j \in 1..n, k \in 1..n : o[i] = c /\ o[j] = p /\ o[k] = q
    BY <1>1
  <2>2. j = i + 1 /\ k = i + 1
    BY <1>4, <2>1 DEF InLine
  <2> QED BY <2>1, <2>2
<1>5. ASSUME NEW p \in S, NEW c \in S, NEW d \in S, Edge(c, p, S), Edge(d, p, S) PROVE c = d
  <2>1. PICK i \in 1..n, j \in 1..n, k \in 1..n : o[i] = c /\ o[j] = d /\ o[k] = p
    BY <1>1
  <2>2. k = i + 1 /\ k = j + 1
    BY <1>5, <2>1 DEF InLine
  <2>3. i = j
    BY <2>2
  <2> QED BY <2>1, <2>3
<1>6. ASSUME NEW c \in S PROVE (c = o[1]) <=> (\A d \in S : ~Edge(d, c, S))
  <2>1. PICK i \in 1..n : o[i] = c
    BY <1>1
  <2>2. CASE i = 1
    <3>1. ASSUME NEW d \in S, Edge(d, c, S) PROVE FALSE
      <4>1. PICK k \in 1..n : o[k] = d
        BY <1>1
      <4>2. 1 = k + 1
        BY <2>1, <2>2, <3>1, <4>1 DEF InLine
      <4> QED BY <4>2
    <3> QED BY <2>1, <2>2, <3>1
  <2>3. CASE i # 1
    <3>1. i - 1 \in 1..n /\ i = (i - 1) + 1
      BY <2>3
    <3>2. Edge(o[i - 1], c, S) /\ o[i - 1] \in S
      BY <1>2, <2>1, <3>1 DEF InLine
    <3>3. c # o[1]
      BY <1>3, <2>1, <2>3 DEF InLine
    <3> QED BY <3>2, <3>3
  <2> QED BY <2>2, <2>3
<1>7. Line(S, o[1])
  BY <1>2, <1>3, <1>4, <1>5, <1>6 DEF Line
<1> DEFINE u == Ordered(S)
<1>8. /\ u[1] = o[1]
      /\ \A i \in 1..n : i # 1 /\ u[i - 1] \in S /\ (\E p \in S : Edge(u[i - 1], p, S)) =>
            u[i] \in S /\ Edge(u[i - 1], u[i], S)
  BY <1>7, UpIs
<1> HIDE DEF u
<1>9. \A i \in 1..n : u[i] = o[i]
  <2> DEFINE Good == {i \in Nat : i + 1 \in 1..n => u[i + 1] = o[i + 1]}
  <2>1. 0 \in Good
    BY <1>8
  <2>2. ASSUME NEW i \in Nat, i \in Good PROVE i + 1 \in Good
    <3> SUFFICES ASSUME i + 1 + 1 \in 1..n PROVE u[i + 1 + 1] = o[i + 1 + 1]
      OBVIOUS
    <3>1. i + 1 \in 1..n /\ i + 1 + 1 # 1 /\ (i + 1 + 1) - 1 = i + 1
      OBVIOUS
    <3>2. u[i + 1] = o[i + 1]
      BY <2>2, <3>1
    <3>3. Edge(o[i + 1], o[i + 1 + 1], S) /\ o[i + 1] \in S /\ o[i + 1 + 1] \in S
      BY <1>2, <3>1 DEF InLine
    <3> HIDE DEF Good
    <3>4. u[i + 1 + 1] \in S /\ Edge(o[i + 1], u[i + 1 + 1], S)
      BY <1>8, <3>1, <3>2, <3>3
    <3> QED BY <1>4, <3>3, <3>4
  <2> HIDE DEF Good
  <2>3. Nat \subseteq Good
    BY <2>1, <2>2, EveryNatural
  <2> TAKE i \in 1..n
  <2>4. i - 1 \in Nat /\ (i - 1) + 1 = i
    OBVIOUS
  <2> QED BY <2>3, <2>4 DEF Good
<1>10. \A i \in 1..n : u[i] # 0
  BY <1>2, <1>9, ChainConstants
<1> QED BY <1>7, <1>10 DEF u

LEMMA OneLineIs ==
  ASSUME NEW S \in SUBSET Certs, IsFiniteSet(S), NEW n \in Nat, n = Cardinality(S)
  PROVE  OneLine(S) <=> /\ \E o : InLine(o, n, S)
                        /\ \A c, p \in S : Edge(c, p, S) => CACapable(p)
<1> DEFINE E == {e \in S \X S : e[1] # e[2] /\ ~SelfSigned(e[1]) /\ Issued(e[2], e[1])}
           N(o) == {<<o[i], o[i + 1]>> : i \in 1..n - 1}
<1>1. \A c, p \in S : <<c, p>> \in E <=> Edge(c, p, S)
  BY DEF Edge
<1>2. E \subseteq S \X S
  OBVIOUS
<1>3. OneLine(S) <=> /\ \E o \in SetToSeqs(S) : E = N(o)
                     /\ \A c, p \in S : Edge(c, p, S) => CACapable(p)
  BY DEF OneLine, Edge
<1> HIDE DEF E
<1>4. ASSUME NEW o PROVE (o \in SetToSeqs(S) /\ E = N(o)) <=> InLine(o, n, S)
  <2>1. o \in SetToSeqs(S) <=> o \in [1..n -> S] /\ \A i, j \in 1..n : i # j => o[i] # o[j]
    BY DEF SetToSeqs
  <2>2. ASSUME o \in [1..n -> S], \A i, j \in 1..n : i # j => o[i] # o[j]
        PROVE  \A c \in S : \E i \in 1..n : o[i] = c
    <3>1. o \in Injection(1..n, S)
      BY <2>2 DEF Injection, IsInjective
    <3>2. IsFiniteSet(1..n) /\ Cardinality(1..n) = n
      BY FS_Interval
    <3>3. o \in Surjection(1..n, S)
      BY <3>1, <3>2, FS_Injection
    <3> QED BY <3>3 DEF Surjection
  <2>3. \A i \in 1..n - 1 : i \in 1..n /\ i + 1 \in 1..n
    OBVIOUS
  <2>4. \A i, j \in 1..n : j = i + 1 => i \in 1..n - 1
    OBVIOUS
  <2>5. ASSUME o \in [1..n -> S], \A i, j \in 1..n : i # j => o[i] # o[j],
               \A c \in S : \E i \in 1..n : o[i] = c
        PROVE  E = N(o) <=> \A i, j \in 1..n : Edge(o[i], o[j], S) <=> j = i + 1
    <3>1. ASSUME E = N(o), NEW i \in 1..n, NEW j \in 1..n
          PROVE  Edge(o[i], o[j], S) <=> j = i + 1
      <4>1. o[i] \in S /\ o[j] \in S
        BY <2>5
      <4>2. Edge(o[i], o[j], S) <=> <<o[i], o[j]>> \in N(o)
        BY <1>1, <3>1, <4>1
      <4>3. <<o[i], o[j]>> \in N(o) <=> \E k \in 1..n - 1 : o[i] = o[k] /\ o[j] = o[k + 1]
        OBVIOUS
      <4>4. \A k \in 1..n - 1 : (o[i] = o[k] /\ o[j] = o[k + 1]) <=> (i = k /\ j = k + 1)
        BY <2>3, <2>5
      <4> QED BY <2>4, <4>2, <4>3, <4>4
    <3>2. ASSUME \A i, j \in 1..n : Edge(o[i], o[j], S) <=> j = i + 1
          PROVE  E = N(o)
      <4>1. ASSUME NEW e \in E PROVE e \in N(o)
        <5>1. PICK c \in S, p \in S : e = <<c, p>>
          BY <1>2
        <5>2. PICK i \in 1..n, j \in 1..n : o[i] = c /\ o[j] = p
          BY <2>5
        <5>3. j = i + 1
          BY <1>1, <3>2, <5>1, <5>2
        <5> QED BY <2>4, <5>1, <5>2, <5>3
      <4>2. ASSUME NEW e \in N(o) PROVE e \in E
        <5>1. PICK i \in 1..n - 1 : e = <<o[i], o[i + 1]>>
          OBVIOUS
        <5>2. o[i] \in S /\ o[i + 1] \in S /\ Edge(o[i], o[i + 1], S)
          BY <2>3, <2>5, <3>2
        <5> QED BY <1>1, <5>1, <5>2
      <4> QED BY <4>1, <4>2
    <3> QED BY <3>1, <3>2
  <2> HIDE DEF N
  <2> QED BY <2>1, <2>2, <2>5 DEF InLine
<1> HIDE DEF N
<1> QED BY <1>3, <1>4

-----------------------------------------------------------------------------
\* normalizeBundle

LEMMA InjectiveLength ==
  ASSUME NEW T, NEW s \in Seq(T), IsInjective(s)
  PROVE  IsFiniteSet(ToSet(s)) /\ Cardinality(ToSet(s)) = Len(s)
<1>1. Len(s) \in Nat /\ DOMAIN s = 1..Len(s) /\ s = [i \in 1..Len(s) |-> s[i]]
  OBVIOUS
<1>2. s \in Surjection(1..Len(s), ToSet(s)) /\ s \in Injection(1..Len(s), ToSet(s))
  BY <1>1 DEF Surjection, Injection, IsInjective, ToSet
<1>3. IsFiniteSet(1..Len(s)) /\ Cardinality(1..Len(s)) = Len(s)
  <2>1. PICK n \in Nat : n = Len(s)
    BY <1>1
  <2>2. IsFiniteSet(1..n) /\ Cardinality(1..n) = n
    BY FS_Interval
  <2> QED BY <2>1, <2>2
<1> QED BY <1>2, <1>3, FS_Surjection

\* What normalizeBundle asks of certificates.
GoodChain(s) ==
    /\ IsInjective(s) /\ Linkable(ToSet(s))
    /\ \A i \in 1..Len(s) : Ordered(ToSet(s))[i] # 0

LEMMA NormalizeIs ==
  ASSUME NEW s \in Seq(Certs), s # <<>>, NEW key
  PROVE  LET b == Roles(Ordered(ToSet(s)), key)
         IN /\ normalizeBundle(s, key).ok <=> GoodChain(s) /\ KeyFits(b)
            /\ normalizeBundle(s, key).ok => normalizeBundle(s, key).bundle = b
<1> DEFINE b == Roles(Ordered(ToSet(s)), key)
<1>1. normalizeBundle(s, key) = IF GoodChain(s) /\ KeyFits(b) THEN Accepted(b) ELSE Refused
  <2> DEFINE good == /\ IsInjective(s)
                     /\ Linkable(ToSet(s))
                     /\ \A i \in 1..Len(s) : Ordered(ToSet(s))[i] # 0
                     /\ KeyFits(b)
  <2>1. normalizeBundle(s, key) = IF good THEN Accepted(b) ELSE Refused
    BY DEF normalizeBundle
  <2>2. good <=> GoodChain(s) /\ KeyFits(b)
    BY DEF GoodChain
  <2> HIDE DEF good, b
  <2> QED BY <2>1, <2>2
<1> HIDE DEF b
<1>2. Accepted(b).ok /\ Accepted(b).bundle = b /\ ~Refused.ok
  BY AcceptedIs
<1>3. CASE GoodChain(s) /\ KeyFits(b)
  BY <1>1, <1>2, <1>3 DEF b
<1>4. CASE ~(GoodChain(s) /\ KeyFits(b))
  <2>1. normalizeBundle(s, key) = Refused
    BY <1>1, <1>4
  <2> QED BY <1>2, <1>4, <2>1 DEF b
<1> QED BY <1>3, <1>4

LEMMA GoodIsOneLine ==
  ASSUME NEW s \in Seq(Certs), s # <<>>
  PROVE  GoodChain(s) <=> IsInjective(s) /\ OneLine(ToSet(s))
<1> SUFFICES ASSUME IsInjective(s) PROVE GoodChain(s) <=> OneLine(ToSet(s))
  BY DEF GoodChain
<1> DEFINE S == ToSet(s)
<1>1. S \in SUBSET Certs /\ IsFiniteSet(S) /\ Cardinality(S) \in Nat \ {0} /\ Cardinality(S) = Len(s)
  BY ToSetIn, ToSetFinite, InjectiveLength
<1> HIDE DEF S
<1>2. PICK n \in Nat \ {0} : n = Cardinality(S) /\ n = Len(s)
  BY <1>1
<1>3. ASSUME GoodChain(s) PROVE OneLine(S)
  <2>1. PICK b : Line(S, b)
    BY <1>1, <1>3, LinkableIs DEF GoodChain, S
  <2>2. InLine(Ordered(S), n, S)
    BY <1>1, <1>2, <1>3, <2>1, UpInLine DEF GoodChain, S
  <2>3. \A c, p \in S : Edge(c, p, S) => CACapable(p)
    BY <2>1 DEF Line
  <2> QED BY <1>1, <1>2, <2>2, <2>3, OneLineIs
<1>4. ASSUME OneLine(S) PROVE GoodChain(s)
  <2>1. PICK o : InLine(o, n, S)
    BY <1>1, <1>2, <1>4, OneLineIs
  <2>2. \A c, p \in S : Edge(c, p, S) => CACapable(p)
    BY <1>1, <1>2, <1>4, OneLineIs
  <2>3. Line(S, o[1]) /\ \A i \in 1..n : Ordered(S)[i] # 0
    BY <1>1, <1>2, <2>1, <2>2, LineIsUp
  <2>4. Linkable(S)
    BY <1>1, <2>3, LinkableIs
  <2> QED BY <1>2, <2>3, <2>4 DEF GoodChain, S
<1> QED BY <1>3, <1>4 DEF S

BundleType == [certs: Seq(Certs), leaf: Certs \cup {0}, intermediates: Seq(Certs),
               root: Certs \cup {0}, key: Objects, pass: Passphrases]

\* BundleFits, of any bundle, and that its roles are those of its certificates.
FitBundle(b) ==
    /\ b \in BundleType
    /\ {b.leaf, b.root} \subseteq ToSet(b.certs) \cup {0}
    /\ b.leaf # 0 /\ b.key # "" => Cert[b.leaf].key = b.key
    /\ \A i \in 1..Len(b.certs) - 1 : Issued(b.certs[i + 1], b.certs[i])
    /\ b.certs = (IF b.leaf = 0 THEN <<>> ELSE <<b.leaf>>)
                    \o b.intermediates
                    \o (IF b.root = 0 THEN <<>> ELSE <<b.root>>)

LEMMA FirstIs ==
  ASSUME NEW o \in Seq(Certs), NEW n \in Nat \ {0}, n = Len(o), NEW a \in {1, 2}, NEW z \in {n - 1, n},
         a <= z + 1
  PROVE  /\ SubSeq(o, a, z) \in Seq(Certs)
         /\ o = (IF a = 1 THEN <<>> ELSE <<o[1]>>) \o SubSeq(o, a, z) \o (IF z = n THEN <<>> ELSE <<o[n]>>)
<1> DEFINE m == SubSeq(o, a, z)
           h == IF a = 1 THEN <<>> ELSE <<o[1]>>
           t == IF z = n THEN <<>> ELSE <<o[n]>>
<1>1. /\ m \in Seq(Certs) /\ Len(m) = z - a + 1 /\ z - a + 1 \in Nat
      /\ \A i \in 1..(z - a + 1) : m[i] = o[a + i - 1]
  <2>1. a \in 1..(n + 1) /\ z \in 0..n /\ a \in Int /\ z \in Int
    OBVIOUS
  <2>2. CASE a = z + 1
    <3>1. m = <<>>
      BY <2>1, <2>2, SubSeqEmpty
    <3> QED BY <2>1, <2>2, <3>1
  <2>3. CASE a <= z
    BY <2>1, <2>3, SubSeqProperties
  <2> QED BY <2>1, <2>2, <2>3
<1>2. h \in Seq(Certs) /\ Len(h) = a - 1 /\ (a = 2 => h[1] = o[1])
  BY ElementOfSeq
<1>3. t \in Seq(Certs) /\ Len(t) = n - z /\ (z = n - 1 => t[1] = o[n])
  BY ElementOfSeq
<1> HIDE DEF m, h, t
<1>4. PICK k \in Nat : k = z - a + 1
  BY <1>1
<1>5. h \o m \in Seq(Certs) /\ Len(h \o m) = z
      /\ \A i \in 1..z : (h \o m)[i] = IF i <= a - 1 THEN h[i] ELSE m[i - (a - 1)]
  <2>1. a - 1 \in Nat /\ (a - 1) + k = z /\ Len(m) = k
    BY <1>1, <1>4
  <2>2. PICK e \in Nat : e = a - 1
    BY <2>1
  <2>3. Len(h) = e /\ e + k = z
    BY <1>2, <2>1, <2>2
  <2>4. h \o m \in Seq(Certs) /\ Len(h \o m) = e + k
        /\ \A i \in 1..(e + k) : (h \o m)[i] = IF i <= e THEN h[i] ELSE m[i - e]
    <3>1. m \in Seq(Certs) /\ h \in Seq(Certs) /\ Len(m) = k /\ Len(h) = e
      BY <1>1, <1>2, <2>1, <2>3
    <3>2. /\ h \o m \in Seq(Certs) /\ Len(h \o m) = Len(h) + Len(m)
          /\ \A i \in 1..(Len(h) + Len(m)) :
                (h \o m)[i] = IF i <= Len(h) THEN h[i] ELSE m[i - Len(h)]
      BY <3>1, ConcatProperties
    <3> QED BY <3>1, <3>2
  <2> QED BY <2>2, <2>3, <2>4
<1>6. /\ (h \o m) \o t \in Seq(Certs) /\ Len((h \o m) \o t) = n
      /\ \A i \in 1..n : ((h \o m) \o t)[i] = IF i <= z THEN (h \o m)[i] ELSE t[i - z]
  <2>1. z \in Nat /\ z + (n - z) = n
    OBVIOUS
  <2> QED BY <1>3, <1>5, <2>1, ConcatProperties
<1>7. ASSUME NEW i \in 1..n PROVE o[i] = ((h \o m) \o t)[i]
  <2>1. CASE i <= z /\ i <= a - 1
    <3>1. i = 1 /\ a = 2
      BY <2>1
    <3> QED BY <1>2, <1>5, <1>6, <2>1, <3>1
  <2>2. CASE i <= z /\ ~(i <= a - 1)
    <3>1. i - (a - 1) \in 1..(z - a + 1) /\ a + (i - (a - 1)) - 1 = i /\ i \in 1..z
      BY <2>2
    <3> QED BY <1>1, <1>5, <1>6, <2>2, <3>1
  <2>3. CASE ~(i <= z)
    <3>1. i = n /\ z = n - 1 /\ i - z = 1
      BY <2>3
    <3> QED BY <1>3, <1>6, <2>3, <3>1
  <2> QED BY <2>1, <2>2, <2>3
<1>8. o = (h \o m) \o t
  BY <1>6, <1>7, SeqEqual
<1> QED BY <1>1, <1>8 DEF m, h, t

LEMMA NoBundleFits ==
  ASSUME NEW key \in Objects
  PROVE  LET b == [NoBundle EXCEPT !.key = key]
         IN /\ FitBundle(b) /\ b.key = key /\ b.pass = "" /\ b.certs = <<>>
            /\ FitBundle(NoBundle)
<1> DEFINE b == [NoBundle EXCEPT !.key = key]
<1>1. /\ NoBundle.certs = <<>> /\ NoBundle.leaf = 0 /\ NoBundle.intermediates = <<>>
      /\ NoBundle.root = 0 /\ NoBundle.key = "" /\ NoBundle.pass = ""
  BY DEF NoBundle
<1>2. NoBundle \in BundleType
  <2>1. <<>> \in Seq(Certs)
    OBVIOUS
  <2>2. "" \in Passphrases
    BY ChainConstants, Zenon
  <2>3. "" \in Objects
    BY DEF Objects
  <2> QED BY <2>1, <2>2, <2>3 DEF BundleType, NoBundle
<1>3. /\ b \in BundleType /\ b.certs = <<>> /\ b.leaf = 0 /\ b.intermediates = <<>> /\ b.root = 0
      /\ b.key = key /\ b.pass = ""
  BY <1>1, <1>2 DEF BundleType
<1> HIDE DEF b
<1>4. <<>> = <<>> \o <<>> \o <<>> /\ 1..Len(<<>>) - 1 = {}
  OBVIOUS
<1>5. FitBundle(NoBundle)
  BY <1>1, <1>2, <1>4 DEF FitBundle
<1> QED BY <1>3, <1>4, <1>5 DEF FitBundle, b

LEMMA NormalizedFits ==
  ASSUME NEW s \in Seq(Certs), NEW key \in Objects, normalizeBundle(s, key).ok
  PROVE  LET b == normalizeBundle(s, key).bundle
         IN FitBundle(b) /\ b.key = key /\ b.pass = "" /\ ToSet(b.certs) = ToSet(s)
<1>1. CASE s = <<>>
  <2>1. normalizeBundle(s, key) = Accepted([NoBundle EXCEPT !.key = key])
    BY <1>1 DEF normalizeBundle
  <2>2. normalizeBundle(s, key).bundle = [NoBundle EXCEPT !.key = key]
    BY <2>1, AcceptedIs
  <2> QED BY <1>1, <2>2, NoBundleFits
<1>2. CASE s # <<>>
  <2> DEFINE S == ToSet(s)
             o == Ordered(S)
             b == Roles(o, key)
  <2>1. GoodChain(s) /\ KeyFits(b) /\ normalizeBundle(s, key).bundle = b
    BY <1>2, NormalizeIs
  <2>2. S \in SUBSET Certs /\ IsFiniteSet(S) /\ Cardinality(S) \in Nat \ {0} /\ Cardinality(S) = Len(s)
    BY <1>2, <2>1, ToSetIn, ToSetFinite, InjectiveLength DEF GoodChain
  <2>3. PICK n \in Nat \ {0} : n = Cardinality(S) /\ n = Len(s)
    BY <2>2
  <2>4. PICK x : Line(S, x)
    BY <2>1, <2>2, LinkableIs DEF GoodChain
  <2>5. InLine(o, n, S)
    BY <2>1, <2>2, <2>3, <2>4, UpInLine DEF GoodChain
  <2> HIDE DEF S, o
  <2>6. o \in [1..n -> S] /\ o \in Seq(Certs) /\ Len(o) = n /\ ToSet(o) = S
    <3>1. o \in [1..n -> S] /\ \A c \in S : \E i \in 1..n : o[i] = c
      BY <2>5 DEF InLine
    <3>2. o \in [1..n -> Certs]
      BY <2>2, <3>1
    <3>3. o \in Seq(Certs) /\ Len(o) = n
      BY <3>2
    <3>4. ToSet(o) = S
      BY <3>1 DEF ToSet
    <3> QED BY <3>1, <3>3, <3>4
  <2>7. \A i \in 1..n - 1 : Issued(o[i + 1], o[i])
    <3> TAKE i \in 1..n - 1
    <3>1. i \in 1..n /\ i + 1 \in 1..n
      OBVIOUS
    <3>2. Edge(o[i], o[i + 1], S)
      BY <2>5, <3>1 DEF InLine
    <3> QED BY <3>2 DEF Edge
  <2>8. 1 \in 1..n /\ n \in 1..n /\ o[1] \in S /\ o[n] \in S /\ S \subseteq Certs /\ o[1] # 0 /\ o[n] # 0
    <3>1. 1 \in 1..n /\ n \in 1..n /\ o[1] \in S /\ o[n] \in S /\ S \subseteq Certs
      BY <2>2, <2>6
    <3> QED BY <3>1, ChainConstants
  <2> DEFINE rt == IF SelfSigned(o[n]) THEN o[n] ELSE 0
             lf == IF Cert[o[1]].ca THEN 0 ELSE o[1]
             a == IF lf = 0 THEN 1 ELSE 2
             z == IF rt = 0 THEN n ELSE n - 1
  <2>9. b = [certs |-> o, leaf |-> lf, intermediates |-> SubSeq(o, a, z),
             root |-> rt, key |-> key, pass |-> ""]
    BY <2>6 DEF Roles, Last
  <2>10. /\ a \in {1, 2} /\ z \in {n - 1, n} /\ a <= z + 1
         /\ (a = 1 <=> lf = 0) /\ (a = 2 => lf = o[1])
         /\ (z = n <=> rt = 0) /\ (z = n - 1 => rt = o[n])
         /\ lf \in S \cup {0} /\ rt \in S \cup {0}
    <3>1. ASSUME n = 1, lf # 0 PROVE rt = 0
      BY <3>1 DEF SelfSigned
    <3> QED BY <2>8, <3>1
  <2> HIDE DEF rt, lf, a, z
  <2>11. /\ SubSeq(o, a, z) \in Seq(Certs)
         /\ o = (IF a = 1 THEN <<>> ELSE <<o[1]>>) \o SubSeq(o, a, z) \o (IF z = n THEN <<>> ELSE <<o[n]>>)
    BY <2>6, <2>10, FirstIs
  <2>12. o = (IF lf = 0 THEN <<>> ELSE <<lf>>) \o SubSeq(o, a, z) \o (IF rt = 0 THEN <<>> ELSE <<rt>>)
    <3>1. (IF lf = 0 THEN <<>> ELSE <<lf>>) = (IF a = 1 THEN <<>> ELSE <<o[1]>>)
      BY <2>10
    <3>2. (IF rt = 0 THEN <<>> ELSE <<rt>>) = (IF z = n THEN <<>> ELSE <<o[n]>>)
      BY <2>10
    <3> QED BY <2>11, <3>1, <3>2
  <2> HIDE DEF b
  <2>13. /\ b.certs = o /\ b.leaf = lf /\ b.intermediates = SubSeq(o, a, z) /\ b.root = rt
         /\ b.key = key /\ b.pass = ""
    BY <2>9
  <2>14. b \in BundleType
    <3>1. "" \in Passphrases /\ lf \in Certs \cup {0} /\ rt \in Certs \cup {0}
      BY <2>8, <2>10, ChainConstants
    <3> QED BY <2>6, <2>9, <2>11, <3>1 DEF BundleType
  <2>15. b.leaf # 0 /\ b.key # "" => Cert[b.leaf].key = b.key
    BY <2>1 DEF KeyFits
  <2>16. FitBundle(b)
    BY <2>6, <2>7, <2>10, <2>12, <2>13, <2>14, <2>15 DEF FitBundle
  <2> QED BY <2>1, <2>6, <2>13, <2>16 DEF S
<1> QED BY <1>1, <1>2

\* A bundle whose passphrase is another one.
LEMMA PassphraseFits ==
  ASSUME NEW b, FitBundle(b), NEW pass \in Passphrases
  PROVE  LET e == [b EXCEPT !.pass = pass]
         IN FitBundle(e) /\ e.key = b.key /\ e.pass = pass /\ e.certs = b.certs
<1> DEFINE e == [b EXCEPT !.pass = pass]
<1>1. b \in BundleType
  BY DEF FitBundle
<1>2. /\ e \in BundleType /\ e.certs = b.certs /\ e.leaf = b.leaf /\ e.intermediates = b.intermediates
      /\ e.root = b.root /\ e.key = b.key /\ e.pass = pass
  BY <1>1 DEF BundleType
<1> HIDE DEF e
<1>3. FitBundle(e)
  BY <1>2 DEF FitBundle
<1> QED BY <1>2, <1>3 DEF e

-----------------------------------------------------------------------------
\* normalizeTrustCertificates

\* A finite set of numbers can be put in order.
LEMMA SortedExists ==
  ASSUME NEW S \in SUBSET Nat, IsFiniteSet(S)
  PROVE  \E q \in SetToSeqs(S) : \A i, j \in DOMAIN q : i < j => q[i] < q[j]
<1> DEFINE Fine(n) == \A T \in SUBSET S : Cardinality(T) = n =>
                        \E q \in [1..n -> T] : \A i, j \in 1..n : i < j => q[i] < q[j]
           G == {n \in Nat : Fine(n)}
<1>1. 0 \in G
  <2>1. ASSUME NEW T \in SUBSET S, Cardinality(T) = 0
        PROVE  \E q \in [1..0 -> T] : \A i, j \in 1..0 : i < j => q[i] < q[j]
    <3>1. 1..0 = {}
      OBVIOUS
    <3>2. [i \in {} |-> 0] \in [{} -> T]
      OBVIOUS
    <3> QED BY <3>1, <3>2
  <2> QED BY <2>1
<1>2. ASSUME NEW n \in Nat, n \in G PROVE n + 1 \in G
  <2> SUFFICES ASSUME NEW T \in SUBSET S, Cardinality(T) = n + 1
               PROVE  \E q \in [1..(n + 1) -> T] : \A i, j \in 1..(n + 1) : i < j => q[i] < q[j]
    OBVIOUS
  <2>1. IsFiniteSet(T) /\ T \in SUBSET Nat
    BY FS_Subset
  <2>2. T # {}
    BY <2>1, FS_EmptySet
  <2>3. PICK m \in T : \A k \in T : m <= k
    BY <2>1, <2>2, LeastNatural
  <2>4. Cardinality(T \ {m}) = n /\ T \ {m} \in SUBSET S
    <3>1. Cardinality(T \ {m}) = Cardinality(T) - 1
      BY <2>1, FS_RemoveElement
    <3> QED BY <3>1
  <2>5. PICK f \in [1..n -> T \ {m}] : \A i, j \in 1..n : i < j => f[i] < f[j]
    BY <1>2, <2>4
  <2> DEFINE q == [i \in 1..(n + 1) |-> IF i = 1 THEN m ELSE f[i - 1]]
  <2>6. \A i \in 1..(n + 1) : i # 1 => i - 1 \in 1..n
    OBVIOUS
  <2>7. \A i \in 1..n : f[i] \in T /\ f[i] # m /\ f[i] \in Nat /\ m \in Nat /\ m < f[i]
    <3> TAKE i \in 1..n
    <3>1. f[i] \in T /\ f[i] # m
      OBVIOUS
    <3>2. f[i] \in Nat /\ m \in Nat /\ m <= f[i]
      BY <2>1, <2>3, <3>1
    <3> QED BY <3>1, <3>2
  <2>8. q \in [1..(n + 1) -> T]
    BY <2>6, <2>7
  <2>9. ASSUME NEW i \in 1..(n + 1), NEW j \in 1..(n + 1), i < j PROVE q[i] < q[j]
    <3>1. j # 1 /\ q[j] = f[j - 1] /\ j - 1 \in 1..n
      BY <2>9
    <3>2. CASE i = 1
      BY <2>7, <3>1, <3>2
    <3>3. CASE i # 1
      <4>1. i - 1 \in 1..n /\ i - 1 < j - 1 /\ q[i] = f[i - 1]
        BY <2>6, <2>9, <3>3
      <4> QED BY <2>5, <3>1, <4>1
    <3> QED BY <3>2, <3>3
  <2> HIDE DEF q
  <2> QED BY <2>8, <2>9
<1> HIDE DEF G
<1>3. Nat \subseteq G
  BY <1>1, <1>2, EveryNatural
<1>4. PICK n \in Nat : n = Cardinality(S)
  BY FS_CardinalityType
<1>5. Fine(n)
  BY <1>3 DEF G
<1>6. PICK q \in [1..n -> S] : \A i, j \in 1..n : i < j => q[i] < q[j]
  BY <1>4, <1>5
<1>7. ASSUME NEW i \in 1..n, NEW j \in 1..n, i # j PROVE q[i] # q[j]
  <2>1. q[i] \in Nat /\ q[j] \in Nat
    BY <1>6
  <2>2. i < j \/ j < i
    BY <1>7
  <2>3. q[i] < q[j] \/ q[j] < q[i]
    BY <1>6, <2>2
  <2> QED BY <2>1, <2>3
<1>8. q \in SetToSeqs(S)
  BY <1>4, <1>6, <1>7 DEF SetToSeqs
<1>9. DOMAIN q = 1..n
  BY <1>6
<1> QED BY <1>6, <1>8, <1>9

LEMMA CanonicalIs ==
  ASSUME NEW s \in Seq(Certs), s # <<>>
  PROVE  LET q == Canonical(s)
         IN /\ q \in Seq(Certs) /\ ToSet(q) \subseteq ToSet(s)
            /\ \A i, j \in 1..Len(q) : i < j => q[i] < q[j]
<1> DEFINE S == ToSet(s)
           q == Canonical(s)
<1>1. S \in SUBSET Certs /\ IsFiniteSet(S) /\ Cardinality(S) \in Nat
  BY ToSetIn, ToSetFinite
<1>2. S \in SUBSET Nat
  BY <1>1, ChainConstants
<1> HIDE DEF S
<1>3. \E x \in SetToSeqs(S) : \A i, j \in DOMAIN x : i < j => x[i] < x[j]
  BY <1>1, <1>2, SortedExists
<1>4. q \in SetToSeqs(S) /\ \A i, j \in DOMAIN q : i < j => q[i] < q[j]
  BY <1>3 DEF Canonical, S
<1> HIDE DEF q
<1>5. PICK n \in Nat : n = Cardinality(S)
  BY <1>1
<1>6. q \in [1..n -> S]
  BY <1>4, <1>5 DEF SetToSeqs
<1>7. q \in Seq(S) /\ Len(q) = n /\ DOMAIN q = 1..n
  BY <1>6
<1>8. q \in Seq(Certs) /\ ToSet(q) \subseteq S
  BY <1>1, <1>6, <1>7 DEF ToSet
<1> QED BY <1>4, <1>7, <1>8 DEF S, q

-----------------------------------------------------------------------------
\* Bundles and trust bundles that grow

BundleInv ==
    /\ input \in Seq(Certs \cup {0})
    /\ FitBundle(bundle) /\ bundle.pass = given
    /\ trust \in Seq(Certs) /\ TrustCanonical

LEMMA ParsedInput ==
  ASSUME input \in Seq(Certs \cup {0}), parseCertificatesPEM(input) \/ input = <<>>
  PROVE  input \in Seq(Certs)
<1>1. PICK n \in Nat : n = Len(input)
  OBVIOUS
<1>2. DOMAIN input = 1..n /\ input = [i \in 1..n |-> input[i]]
  BY <1>1
<1>3. \A i \in 1..n : input[i] \in Certs
  <2> TAKE i \in 1..n
  <2>1. input # <<>>
    BY <1>1
  <2>2. input[i] \in Certs \cup {0}
    BY <1>1
  <2>3. parseCertificatesPEM(input)
    BY <2>1
  <2>4. input[i] # 0
    BY <1>2, <2>3 DEF parseCertificatesPEM
  <2> QED BY <2>2, <2>4
<1> QED BY <1>2, <1>3, IsASeq

LEMMA BundleBegin ==
  BundleInit => BundleInv
<1> SUFFICES ASSUME BundleInit PROVE BundleInv
  OBVIOUS
<1>1. FitBundle(bundle) /\ bundle.pass = ""
  <2>1. "" \in Objects
    BY DEF Objects
  <2>2. bundle = NoBundle /\ NoBundle.pass = ""
    BY DEF BundleInit, NoBundle
  <2> QED BY <2>1, <2>2, NoBundleFits
<1>2. input \in Seq(Certs \cup {0}) /\ trust \in Seq(Certs) /\ TrustCanonical
  <2>1. input = <<>> /\ trust = <<>>
    BY DEF BundleInit
  <2>2. <<>> \in Seq(Certs) /\ <<>> \in Seq(Certs \cup {0}) /\ Len(<<>>) = 0 /\ DOMAIN <<>> = {}
    OBVIOUS
  <2>3. 1..0 = {}
    OBVIOUS
  <2>4. ToSet(<<>>) = {}
    BY <2>2 DEF ToSet
  <2> QED BY <2>1, <2>2, <2>3, <2>4 DEF TrustCanonical
<1> QED BY <1>1, <1>2 DEF BundleInit, BundleInv

\* What the two kinds of bundles become in one step.
Grows ==
    bundle # NoBundle =>
      /\ ToSet(bundle.certs) \subseteq ToSet(bundle'.certs)
      /\ bundle.key # "" => bundle'.key = bundle.key

LEMMA OfferInv ==
  ASSUME BundleInv, NEW c \in Certs \cup {0}, Offer(c)
  PROVE  BundleInv' /\ Grows
<1>1. input' = Append(input, c) /\ UNCHANGED <<bundle, given, trust>>
  BY DEF Offer
<1>2. input' \in Seq(Certs \cup {0})
  BY <1>1 DEF BundleInv
<1> QED BY <1>1, <1>2 DEF BundleInv, TrustCanonical, Grows

LEMMA GivenFileIs ==
  ASSUME NEW file \in KeyFiles \cup {NoFile}
  PROVE  file.key \in Objects /\ file.pass \in Passphrases
<1>1. CASE file \in KeyFiles
  BY <1>1, BundleConstants DEF Objects
<1>2. CASE file = NoFile
  <2>1. file.key = "" /\ file.pass = ""
    BY <1>2 DEF NoFile
  <2>2. "" \in Passphrases
    BY ChainConstants, Zenon
  <2>3. "" \in Objects
    BY DEF Objects
  <2> QED BY <2>1, <2>2, <2>3
<1> QED BY <1>1, <1>2

LEMMA LoadBundleInv ==
  ASSUME BundleInv, NEW object \in Objects, NEW file \in KeyFiles \cup {NoFile}, NEW pass \in Passphrases,
         LoadBundle(object, file, pass)
  PROVE  BundleInv' /\ Grows
<1> DEFINE r == normalizeBundle(input, object)
           w == normalizeBundle(input, file.key)
           ok == /\ input = <<>> \/ parseCertificatesPEM(input)
                 /\ r.ok
                 /\ file.key = "" => pass = ""
                 /\ file.key # "" => object = "" /\ parseKeyPEM(file, pass) /\ w.ok
                 /\ input # <<>> \/ object # "" \/ file.key # ""
<1>1. /\ bundle = NoBundle /\ input' = <<>> /\ trust' = trust
      /\ bundle' = IF ~ok THEN NoBundle
                    ELSE IF file.key = "" THEN r.bundle
                    ELSE [w.bundle EXCEPT !.pass = file.pass]
      /\ given' = IF ok /\ file.key # "" THEN file.pass ELSE ""
  BY DEF LoadBundle
<1>2. file.key \in Objects /\ file.pass \in Passphrases
  BY GivenFileIs
<1>3. ok => input \in Seq(Certs) /\ r.ok /\ (file.key # "" => w.ok)
  BY ParsedInput DEF BundleInv
<1>4. FitBundle(NoBundle) /\ NoBundle.pass = ""
  <2>1. bundle = NoBundle /\ FitBundle(bundle)
    BY <1>1 DEF BundleInv
  <2> QED BY <2>1 DEF NoBundle
<1> HIDE DEF ok
<1>5. FitBundle(bundle') /\ bundle'.pass = given'
  <2>1. CASE ~ok
    BY <1>1, <1>4, <2>1
  <2>2. CASE ok /\ file.key = ""
    <3>1. FitBundle(r.bundle) /\ r.bundle.pass = ""
      BY <1>3, <2>2, NormalizedFits
    <3> QED BY <1>1, <2>2, <3>1
  <2>3. CASE ok /\ file.key # ""
    <3>1. FitBundle(w.bundle)
      BY <1>2, <1>3, <2>3, NormalizedFits
    <3>2. FitBundle([w.bundle EXCEPT !.pass = file.pass])
          /\ [w.bundle EXCEPT !.pass = file.pass].pass = file.pass
      BY <1>2, <3>1, PassphraseFits
    <3> QED BY <1>1, <2>3, <3>2
  <2> QED BY <2>1, <2>2, <2>3
<1>6. <<>> \in Seq(Certs \cup {0})
  OBVIOUS
<1> QED BY <1>1, <1>5, <1>6 DEF BundleInv, TrustCanonical, Grows

LEMMA JoinedInput ==
  ASSUME NEW s \in Seq(Certs), input \in Seq(Certs)
  PROVE  s \o input \in Seq(Certs) /\ ToSet(s) \subseteq ToSet(s \o input)
         /\ ToSet(s \o input) \subseteq Certs
<1>1. s \o input \in Seq(Certs)
  BY ConcatProperties
<1>2. PICK n \in Nat, m \in Nat : n = Len(s) /\ m = Len(input)
  OBVIOUS
<1>3. DOMAIN s = 1..n /\ DOMAIN (s \o input) = 1..(n + m) /\ \A i \in 1..n : (s \o input)[i] = s[i]
  BY <1>2
<1>4. 1..n \subseteq 1..(n + m)
  OBVIOUS
<1>5. ToSet(s) \subseteq ToSet(s \o input)
  BY <1>3, <1>4 DEF ToSet
<1>6. ToSet(s \o input) \subseteq Certs
  BY <1>1, ToSetIn
<1> QED BY <1>1, <1>5, <1>6

LEMMA AddCertInv ==
  ASSUME BundleInv, AddCert
  PROVE  BundleInv' /\ Grows
<1> DEFINE r == normalizeBundle(bundle.certs \o input, bundle.key)
           ok == parseCertificatesPEM(input) /\ r.ok
           e == [r.bundle EXCEPT !.pass = bundle.pass]
<1>1. /\ input' = <<>> /\ UNCHANGED <<given, trust>>
      /\ bundle' = IF ok THEN e ELSE bundle
  BY DEF AddCert
<1>2. FitBundle(bundle) /\ bundle.certs \in Seq(Certs) /\ bundle.key \in Objects
      /\ bundle.pass \in Passphrases /\ bundle.pass = given
  BY DEF BundleInv, FitBundle, BundleType
<1>3. ASSUME ok PROVE FitBundle(e) /\ e.pass = given /\ e.key = bundle.key
                      /\ ToSet(bundle.certs) \subseteq ToSet(e.certs)
  <2>1. input \in Seq(Certs)
    BY <1>3, ParsedInput DEF BundleInv
  <2>2. bundle.certs \o input \in Seq(Certs) /\ ToSet(bundle.certs) \subseteq ToSet(bundle.certs \o input)
    BY <1>2, <2>1, JoinedInput
  <2>3. FitBundle(r.bundle) /\ r.bundle.key = bundle.key /\ ToSet(r.bundle.certs) = ToSet(bundle.certs \o input)
    BY <1>2, <1>3, <2>2, NormalizedFits
  <2> HIDE DEF r
  <2>4. FitBundle(e) /\ e.key = r.bundle.key /\ e.pass = bundle.pass /\ e.certs = r.bundle.certs
    BY <1>2, <2>3, PassphraseFits
  <2> QED BY <1>2, <2>2, <2>3, <2>4
<1> HIDE DEF ok, e
<1>4. FitBundle(bundle') /\ bundle'.pass = given' /\ Grows
  BY <1>1, <1>2, <1>3 DEF Grows
<1>5. <<>> \in Seq(Certs \cup {0})
  OBVIOUS
<1> QED BY <1>1, <1>4, <1>5 DEF BundleInv, TrustCanonical

LEMMA AddKeyInv ==
  ASSUME BundleInv, NEW file \in KeyFiles, NEW pass \in Passphrases, AddKey(file, pass)
  PROVE  BundleInv' /\ Grows
<1> DEFINE r == normalizeBundle(bundle.certs, file.key)
           ok == bundle.key = "" /\ parseKeyPEM(file, pass) /\ r.ok
           e == [r.bundle EXCEPT !.pass = file.pass]
<1>1. /\ UNCHANGED <<input, trust>> /\ bundle' = IF ok THEN e ELSE bundle
      /\ given' = IF ok THEN file.pass ELSE given
  BY DEF AddKey
<1>2. FitBundle(bundle) /\ bundle.certs \in Seq(Certs) /\ bundle.pass = given
      /\ file.key \in Objects /\ file.pass \in Passphrases
  BY GivenFileIs DEF BundleInv, FitBundle, BundleType
<1>3. ASSUME ok PROVE FitBundle(e) /\ e.pass = file.pass /\ bundle.key = ""
                      /\ ToSet(bundle.certs) \subseteq ToSet(e.certs)
  <2>1. FitBundle(r.bundle) /\ ToSet(r.bundle.certs) = ToSet(bundle.certs)
    BY <1>2, <1>3, NormalizedFits
  <2> HIDE DEF r
  <2>2. FitBundle(e) /\ e.pass = file.pass /\ e.certs = r.bundle.certs
    BY <1>2, <2>1, PassphraseFits
  <2> QED BY <1>3, <2>1, <2>2
<1> HIDE DEF ok, e
<1>4. FitBundle(bundle') /\ bundle'.pass = given' /\ Grows
  BY <1>1, <1>2, <1>3 DEF Grows
<1> QED BY <1>1, <1>4 DEF BundleInv, TrustCanonical

LEMMA AddTrustInv ==
  ASSUME BundleInv, AddTrust
  PROVE  BundleInv' /\ Grows
<1> DEFINE t == trust \o input
           good == /\ t # <<>> /\ IsInjective(t)
                   /\ \A i \in DOMAIN t : TrustRoot(t[i])
           r == normalizeTrustCertificates(t)
<1>1. /\ input' = <<>> /\ UNCHANGED <<bundle, given>>
      /\ trust' = IF parseCertificatesPEM(input) /\ r.ok THEN r.certs ELSE trust
  BY DEF AddTrust
<1>2. r = IF good THEN [ok |-> TRUE, certs |-> Canonical(t)] ELSE [ok |-> FALSE, certs |-> <<>>]
  BY DEF normalizeTrustCertificates
<1>3. ASSUME parseCertificatesPEM(input), r.ok
      PROVE  /\ trust' \in Seq(Certs) /\ \A i, j \in 1..Len(trust') : i < j => trust'[i] < trust'[j]
             /\ \A c \in ToSet(trust') : SelfSigned(c)
  <2> HIDE DEF r, good
  <2>1. good /\ r.certs = Canonical(t)
    BY <1>2, <1>3
  <2>2. input \in Seq(Certs) /\ trust \in Seq(Certs)
    BY <1>3, ParsedInput DEF BundleInv
  <2>3. t \in Seq(Certs)
    BY <2>2, JoinedInput
  <2> HIDE DEF t
  <2>4. t # <<>> /\ \A c \in ToSet(t) : SelfSigned(c)
    BY <2>1 DEF good, TrustRoot, ToSet
  <2>5. /\ Canonical(t) \in Seq(Certs) /\ ToSet(Canonical(t)) \subseteq ToSet(t)
        /\ \A i, j \in 1..Len(Canonical(t)) : i < j => Canonical(t)[i] < Canonical(t)[j]
    BY <2>3, <2>4, CanonicalIs
  <2>6. trust' = Canonical(t)
    BY <1>1, <1>3, <2>1
  <2> QED BY <2>4, <2>5, <2>6
<1> HIDE DEF r
<1>4. trust' \in Seq(Certs) /\ TrustCanonical'
  BY <1>1, <1>3 DEF BundleInv, TrustCanonical
<1>5. <<>> \in Seq(Certs \cup {0})
  OBVIOUS
<1> QED BY <1>1, <1>4, <1>5 DEF BundleInv, Grows

LEMMA BundleStep ==
  ASSUME BundleInv, [BundleNext]_bundleVars
  PROVE  BundleInv' /\ [Grows]_bundleVars
<1>1. CASE UNCHANGED bundleVars
  BY <1>1 DEF bundleVars, BundleInv, TrustCanonical
<1>2. CASE BundleNext
  BY <1>2, OfferInv, LoadBundleInv, AddCertInv, AddKeyInv, AddTrustInv DEF BundleNext
<1> QED BY <1>1, <1>2

LEMMA BundleInvSays ==
  BundleInv => BundleTypeOK /\ AcceptsOneLine /\ BundleFits /\ EncryptionKept /\ TrustCanonical
<1> SUFFICES ASSUME BundleInv PROVE BundleTypeOK /\ AcceptsOneLine /\ BundleFits /\ EncryptionKept
  BY DEF BundleInv
<1>1. AcceptsOneLine
  <2> SUFFICES ASSUME parseCertificatesPEM(input)
               PROVE  normalizeBundle(input, "").ok <=> IsInjective(input) /\ OneLine(ToSet(input))
    BY DEF AcceptsOneLine
  <2>1. input \in Seq(Certs) /\ input # <<>>
    BY ParsedInput DEF BundleInv, parseCertificatesPEM
  <2> DEFINE b == Roles(Ordered(ToSet(input)), "")
  <2>2. normalizeBundle(input, "").ok <=> GoodChain(input) /\ KeyFits(b)
    BY <2>1, NormalizeIs
  <2>3. b.key = ""
    BY DEF Roles
  <2> HIDE DEF b
  <2>4. KeyFits(b)
    BY <2>3 DEF KeyFits
  <2> QED BY <2>1, <2>2, <2>4, GoodIsOneLine
<1>2. BundleFits
  BY DEF BundleFits, BundleInv, FitBundle
<1>3. EncryptionKept
  BY DEF EncryptionKept, BundleInv
<1>4. BundleTypeOK
  <2>1. bundle \in BundleType /\ bundle.certs \in Seq(Certs) /\ trust \in Seq(Certs)
    BY DEF BundleInv, FitBundle, BundleType
  <2>2. ToSet(bundle.certs) \subseteq Certs /\ ToSet(trust) \subseteq Certs
    BY <2>1, ToSetIn
  <2> QED BY <2>1, <2>2 DEF BundleTypeOK, BundleInv, FitBundle, BundleType
<1> QED BY <1>1, <1>2, <1>3, <1>4

LEMMA BundlesAtWork ==
  ASSUME [MCNext]_<<part, vars, optionsVars, bundleVars, filesVars, rotationVars>>
  PROVE  [BundleNext]_bundleVars
  BY DEF MCNext

\* For every set of certificates and key files and any number of certificates
\* in a call (bundle.go, trust_bundle.go): certificates are accepted exactly
\* when they form one line, whatever their order; a bundle's key is its leaf's
\* and stays encrypted; a trust bundle has one order; nothing is lost when
\* something is added or refused.
THEOREM BundlesDoFit == MCSpec => BundlesFit
<1>1. MCInit => BundleInv
  BY BundleBegin DEF MCInit
<1>2. BundleInv /\ [MCNext]_<<part, vars, optionsVars, bundleVars, filesVars, rotationVars>>
         => BundleInv' /\ [Grows]_bundleVars
  BY BundlesAtWork, BundleStep
<1>3. BundleInv => AcceptsOneLine /\ BundleFits /\ EncryptionKept /\ TrustCanonical
  BY BundleInvSays
<1>4. MCSpec => [][Grows]_bundleVars
  BY <1>1, <1>2, PTL DEF MCSpec
<1>5. OnlyGrows <=> [][Grows]_bundleVars
  BY DEF OnlyGrows, Grows
<1> QED BY <1>1, <1>2, <1>3, <1>4, <1>5, PTL DEF MCSpec, BundlesFit

\* Bundles and inputs are made of certificates and keys (bundle.go).
LEMMA BundleTypes == MCSpec => []BundleTypeOK
<1>1. MCInit => BundleInv
  BY BundleBegin DEF MCInit
<1>2. BundleInv /\ [MCNext]_<<part, vars, optionsVars, bundleVars, filesVars, rotationVars>> => BundleInv'
  BY BundlesAtWork, BundleStep
<1> QED BY <1>1, <1>2, BundleInvSays, PTL DEF MCSpec

-----------------------------------------------------------------------------
\* Rotation: the theorems of RotationProofs, for the controllers of this module

Controller == INSTANCE RotationProofs WITH
    Slugs <- {i1, i2}, Managers <- {m1}, Configurations <- {{i1, i2}},
    IssuanceModes <- {"None", "Ledger"}, RotateBefores <- {1},
    RootValidity <- 12, IssuerValidity <- 5, MaximumLeafValidity <- 2, ClockSkew <- 1,
    SecretHandling <- FALSE, DiskFaults <- FALSE, Reprovision <- FALSE,
    MaxGeneration <- 4, MaxVersion <- 10, MaxKeys <- 20, MaxTime <- 16, MaxRevision <- 40,
    store <- persisted

\* The assumptions of the theorems hold of them.
LEMMA ControllerConstants ==
  /\ Controller!BeforesAreNat /\ Controller!InTime
  /\ Controller!StateConstants!: /\ Controller!IssuerFitsNewRoot!: /\ Controller!AuthorityConstants!:
<1>1. Controller!BeforesAreNat /\ Controller!InTime
  BY DEF Controller!BeforesAreNat, Controller!InTime, Befores
<1>2. Controller!StateConstants!: /\ Controller!IssuerFitsNewRoot!: /\ Controller!AuthorityConstants!:
  OBVIOUS
<1> QED BY <1>1, <1>2

\* Rotation and Controller are two names of the same instance.
LEMMA SameBegin ==
  Rotation!Init => Controller!Init
  BY DEF Rotation!AuthInit, Controller!AuthInit, Rotation!Gens, Controller!Gens, Rotation!Init,
         Controller!Init, Rotation!NewManager, Controller!NewManager,
         Rotation!NoAuthority, Controller!NoAuthority, Rotation!NoIssuer,
         Controller!NoIssuer, Rotation!NoPending, Controller!NoPending, Rotation!NoRoot,
         Controller!NoRoot, Rotation!NoSecrets, Controller!NoSecrets, Rotation!NoUnlocks,
         Controller!NoUnlocks, Rotation!NoVersion, Controller!NoVersion,
         Rotation!Versions, Controller!Versions

LEMMA SameSteps ==
  Rotation!Next => Controller!Next
  BY DEF Rotation!ActiveVersion, Controller!ActiveVersion, Rotation!Bump, Controller!Bump,
         Rotation!CanUpdate, Controller!CanUpdate, Rotation!Due, Controller!Due,
         Rotation!Ended, Controller!Ended, Rotation!EnsureCall, Controller!EnsureCall,
         Rotation!EnsureNothing, Controller!EnsureNothing, Rotation!EnsurePending,
         Controller!EnsurePending, Rotation!EnsureProvision, Controller!EnsureProvision,
         Rotation!EnsureReconciles, Controller!EnsureReconciles, Rotation!EnsureRefused,
         Controller!EnsureRefused, Rotation!EnsureStageIssuers,
         Controller!EnsureStageIssuers, Rotation!EnsureStageRoot,
         Controller!EnsureStageRoot, Rotation!EnsureTurn, Controller!EnsureTurn,
         Rotation!FileSecret, Controller!FileSecret, Rotation!FirstVersion,
         Controller!FirstVersion, Rotation!Forget, Controller!Forget,
         Rotation!FreeGeneration, Controller!FreeGeneration, Rotation!Gens,
         Controller!Gens, Rotation!Idle, Controller!Idle, Rotation!IsTrustDeadline,
         Controller!IsTrustDeadline, Rotation!IssuerBefore, Controller!IssuerBefore,
         Rotation!IssuerFits, Controller!IssuerFits, Rotation!KeptSecret,
         Controller!KeptSecret, Rotation!Known, Controller!Known, Rotation!LedgerReadable,
         Controller!LedgerReadable, Rotation!Next, Controller!Next, Rotation!NoAuthority,
         Controller!NoAuthority, Rotation!NoIssuer, Controller!NoIssuer,
         Rotation!NoPending, Controller!NoPending, Rotation!NoRoot, Controller!NoRoot,
         Rotation!NoSecrets, Controller!NoSecrets, Rotation!NoVersion,
         Controller!NoVersion, Rotation!PendingRoot, Controller!PendingRoot,
         Rotation!PeriodEnds, Controller!PeriodEnds, Rotation!Persisted,
         Controller!Persisted, Rotation!PromotePending, Controller!PromotePending,
         Rotation!PromoteReadUnlocks, Controller!PromoteReadUnlocks,
         Rotation!PromoteReload, Controller!PromoteReload, Rotation!PromoteTurn,
         Controller!PromoteTurn, Rotation!Provisioned, Controller!Provisioned,
         Rotation!Ready, Controller!Ready, Rotation!Reconciled, Controller!Reconciled,
         Rotation!StagingKey, Controller!StagingKey, Rotation!Tick, Controller!Tick,
         Rotation!Versions, Controller!Versions, Rotation!VersionsLeft,
         Controller!VersionsLeft, Rotation!WriteOutcomes, Controller!WriteOutcomes,
         Rotation!activeRootSecret, Controller!activeRootSecret,
         Rotation!activeRootSigner, Controller!activeRootSigner, Rotation!addIssuers,
         Controller!addIssuers, Rotation!authVars, Controller!authVars,
         Rotation!controller, Controller!controller, Rotation!issuersDue,
         Controller!issuersDue, Rotation!ledgerInstants, Controller!ledgerInstants,
         Rotation!makeIssuer, Controller!makeIssuer, Rotation!makeRoot,
         Controller!makeRoot, Rotation!pendingRootSecret, Controller!pendingRootSecret,
         Rotation!prepareIssuers, Controller!prepareIssuers, Rotation!prepareRoot,
         Controller!prepareRoot, Rotation!promote, Controller!promote,
         Rotation!promotedSecret, Controller!promotedSecret, Rotation!provision,
         Controller!provision, Rotation!rootDue, Controller!rootDue,
         Rotation!stageVersions, Controller!stageVersions, Rotation!stagedManifest,
         Controller!stagedManifest, Rotation!validateLedgerRecords,
         Controller!validateLedgerRecords, Rotation!vars, Controller!vars

LEMMA SameTypes ==
  Controller!TypeOK => Rotation!TypeOK
  BY DEF Rotation!ActiveUnderActive, Controller!ActiveUnderActive, Rotation!ActiveVersion,
         Controller!ActiveVersion, Rotation!AuthTypeOK, Controller!AuthTypeOK,
         Rotation!AuthorityManager, Controller!AuthorityManager, Rotation!Gens,
         Controller!Gens, Rotation!IssuerKeysExact, Controller!IssuerKeysExact,
         Rotation!IssuersSigned, Controller!IssuersSigned, Rotation!Known,
         Controller!Known, Rotation!LedgerRecord, Controller!LedgerRecord,
         Rotation!ManagerPCs, Controller!ManagerPCs, Rotation!NoPending,
         Controller!NoPending, Rotation!PendingComplete, Controller!PendingComplete,
         Rotation!PendingRoot, Controller!PendingRoot, Rotation!Provisioned,
         Controller!Provisioned, Rotation!RootKeysExact, Controller!RootKeysExact,
         Rotation!SecretMap, Controller!SecretMap, Rotation!TypeOK, Controller!TypeOK,
         Rotation!ValidStore, Controller!ValidStore, Rotation!Versions,
         Controller!Versions, Rotation!authorityState, Controller!authorityState,
         Rotation!issuerRecord, Controller!issuerRecord, Rotation!issuerVersion,
         Controller!issuerVersion, Rotation!pendingManifest, Controller!pendingManifest,
         Rotation!promote, Controller!promote, Rotation!rootRecord, Controller!rootRecord,
         Rotation!validateState, Controller!validateState

LEMMA SameNeverExpires ==
  Controller!NeverExpires => Rotation!NeverExpires
  BY DEF Rotation!ActiveVersion, Controller!ActiveVersion, Rotation!Known, Controller!Known,
         Rotation!NeverExpires, Controller!NeverExpires, Rotation!Provisioned,
         Controller!Provisioned, Rotation!RootsEarly, Controller!RootsEarly

LEMMA SameDueIsStaged ==
  Controller!DueIsStagedEarly => Rotation!DueIsStagedEarly
  BY DEF Rotation!ActiveVersion, Controller!ActiveVersion, Rotation!Due, Controller!Due,
         Rotation!DueIsStagedEarly, Controller!DueIsStagedEarly, Rotation!IssuerBefore,
         Controller!IssuerBefore, Rotation!Known, Controller!Known, Rotation!NoPending,
         Controller!NoPending, Rotation!PendingRoot, Controller!PendingRoot,
         Rotation!Provisioned, Controller!Provisioned, Rotation!RootsEarly,
         Controller!RootsEarly, Rotation!authVars, Controller!authVars,
         Rotation!controller, Controller!controller, Rotation!issuersDue,
         Controller!issuersDue, Rotation!promote, Controller!promote, Rotation!rootDue,
         Controller!rootDue, Rotation!vars, Controller!vars

LEMMA RotationAtWork ==
  MCSpec => Controller!Spec
<1>1. MCInit => Controller!Init
  BY SameBegin DEF MCInit
<1>2. [MCNext]_<<part, vars, optionsVars, bundleVars, filesVars, rotationVars>>
         => [Controller!Next]_Controller!vars
  <2> SUFFICES ASSUME [MCNext]_<<part, vars, optionsVars, bundleVars, filesVars, rotationVars>>
               PROVE  Rotation!Next \/ UNCHANGED rotationVars
    BY SameSteps DEF rotationVars, Controller!vars, Controller!authVars, Controller!controller
  <2> QED BY DEF MCNext
<1> QED BY <1>1, <1>2, PTL DEF MCSpec, Controller!Spec

\* The controllers of this module, whose issuers are valid for five periods and
\* renewed two or three before the end, never let the active root or an active
\* issuer expire if they rotate roots early enough, and Ensure (authority.go)
\* leaves nothing that is due and not pending.
THEOREM RotatedInTime == MCSpec => RotationInTime
<1>1. Controller!Spec => []Controller!NeverExpires
  BY ControllerConstants, Controller!NothingExpires
<1>2. Controller!Spec => Controller!DueIsStagedEarly
  BY ControllerConstants, Controller!DueIsPending
<1>3. MCSpec => []Rotation!NeverExpires
  BY <1>1, RotationAtWork, SameNeverExpires, PTL
<1>4. MCSpec => Rotation!DueIsStagedEarly
  BY <1>2, RotationAtWork, SameDueIsStaged
<1> QED BY <1>3, <1>4 DEF RotationInTime

-----------------------------------------------------------------------------
\* Types

LEMMA OptionsTypes == MCSpec => []Options!TypeOK
<1>1. MCInit => OptionsInv
  BY OptionsBegin
<1>2. OptionsInv /\ [MCNext]_<<part, vars, optionsVars, bundleVars, filesVars, rotationVars>>
         => OptionsInv'
  BY OptionsAtWork, OptionsStep
<1>3. OptionsInv => Options!TypeOK
  BY OptionsSay
<1> QED BY <1>1, <1>2, <1>3, PTL DEF MCSpec

LEMMA RotationTypes == MCSpec => []Rotation!TypeOK
<1>1. Controller!Spec => []Controller!TypeOK
  BY ControllerConstants, Controller!RotationTypes
<1> QED BY <1>1, RotationAtWork, SameTypes, PTL

\* Every variable of the five parts has its type, and the authority that a
\* controller stores passes validateState (options.go, request.go, bundle.go,
\* save.go, authority.go).
THEOREM MaterialTypes == MCSpec => []TypesOK
<1>1. TypeOK /\ BundleTypeOK /\ FilesTypeOK /\ Rotation!TypeOK /\ Options!TypeOK => TypesOK
  BY DEF TypesOK
<1> QED BY <1>1, RequestsTypes, BundleTypes, FilesTypes, RotationTypes, OptionsTypes, PTL
=============================================================================
