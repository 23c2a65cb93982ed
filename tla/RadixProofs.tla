------------------------------ MODULE RadixProofs ------------------------------
(***************************************************************************)
(* The radix selection is right, for every number of candidates, every     *)
(* base and every length of a key: one chunk after the other, its accounts *)
(* keep the invariant Selecting below, and that invariant says that the    *)
(* winners are the smallest keys.  The modules of Selection and Giveaway   *)
(* put the chunks into their behaviours.                                   *)
(***************************************************************************)
EXTENDS RadixSelection, NaturalFacts

(***************************************************************************)
(* Sets of candidates.                                                     *)
(***************************************************************************)
LEMMA CandidateCount ==
    ASSUME NEW S \in SUBSET Candidates
    PROVE  IsFiniteSet(S) /\ Cardinality(S) \in Nat
BY SelectionAssumption, FS_Subset, FS_CardinalityType

LEMMA OneMore ==
    ASSUME NEW S \in SUBSET Candidates, NEW w \in Candidates, w \notin S
    PROVE  Cardinality(S \cup {w}) = Cardinality(S) + 1
BY CandidateCount, FS_AddElement

LEMMA SubCount ==
    ASSUME NEW S \in SUBSET Candidates, NEW T \in SUBSET S
    PROVE  /\ Cardinality(T) <= Cardinality(S)
           /\ Cardinality(T) = Cardinality(S) => T = S
           /\ Cardinality(T) = 0 <=> T = {}
<1>1. T \in SUBSET Candidates  OBVIOUS
<1> QED  BY <1>1, CandidateCount, FS_Subset, FS_EmptySet

LEMMA DisjointCount ==
    ASSUME NEW S \in SUBSET Candidates, NEW T \in SUBSET Candidates, S \cap T = {}
    PROVE  Cardinality(S \cup T) = Cardinality(S) + Cardinality(T)
<1>1. IsFiniteSet(S) /\ IsFiniteSet(T) /\ Cardinality(S) \in Nat /\ Cardinality(T) \in Nat
  BY CandidateCount
<1>2. Cardinality(S \cap T) = 0  BY FS_EmptySet
<1>3. Cardinality(S \cup T) = Cardinality(S) + Cardinality(T) - Cardinality(S \cap T)
  BY <1>1, FS_Union
<1> QED  BY <1>1, <1>2, <1>3

LEMMA OnlyOne ==
    ASSUME NEW S \in SUBSET Candidates, NEW w \in S
    PROVE  Cardinality(S) = 1 <=> S = {w}
<1>1. IsFiniteSet(S)  BY CandidateCount
<1>2. Cardinality(S) = 1 <=> \E x : S = {x}  BY <1>1, FS_Singleton
<1> QED  BY <1>2

(***************************************************************************)
(* Least and greatest numbers.                                             *)
(***************************************************************************)
LEMMA MinOf ==
    ASSUME NEW a \in Nat, NEW b \in Nat
    PROVE  /\ Min({a, b}) \in {a, b} /\ Min({a, b}) \in Nat
           /\ Min({a, b}) <= a /\ Min({a, b}) <= b
<1>1. \E x \in {a, b} : \A y \in {a, b} : x <= y
  <2>1. CASE a <= b  BY <2>1
  <2>2. CASE b <= a  BY <2>2
  <2> QED  BY <2>1, <2>2
<1> QED  BY <1>1 DEF Min

LEMMA MinOfSet ==
    ASSUME NEW S \in SUBSET Nat, S # {}
    PROVE  Min(S) \in S /\ \A y \in S : Min(S) <= y
BY LeastNatural DEF Min

LEMMA MaxWithZero ==
    ASSUME NEW x \in Int
    PROVE  Max({0, x}) = IF x > 0 THEN x ELSE 0
<1>1. \E m \in {0, x} : \A y \in {0, x} : m >= y
  <2>1. CASE x > 0  BY <2>1
  <2>2. CASE ~(x > 0)  BY <2>2
  <2> QED  BY <2>1, <2>2
<1> QED  BY <1>1 DEF Max

(***************************************************************************)
(* The byte order of keys is a strict total order.                         *)
(***************************************************************************)
KeyLess(a, b) == \E i \in 1..KeyLen : a[i] < b[i] /\ \A j \in 1..(i - 1) : a[j] = b[j]

LEMMA DigitsOfKey ==
    ASSUME NEW a \in Keys, NEW i \in 1..KeyLen
    PROVE  a[i] \in Digit /\ a[i] \in Nat /\ i \in Nat
BY SelectionAssumption DEF Keys, Digit

LEMMA LeqIsLess == \A a, b : KeyLeq(a, b) <=> a = b \/ KeyLess(a, b)
BY DEF KeyLeq, KeyLess

LEMMA LessTotal ==
    ASSUME NEW a \in Keys, NEW b \in Keys, a # b
    PROVE  KeyLess(a, b) \/ KeyLess(b, a)
<1> DEFINE Differ == {i \in 1..KeyLen : a[i] # b[i]}
<1>1. Differ \in SUBSET Nat  BY SelectionAssumption
<1>2. Differ # {}
  <2>1. a = [i \in 1..KeyLen |-> a[i]] /\ b = [i \in 1..KeyLen |-> b[i]]  BY DEF Keys
  <2>2. (\A i \in 1..KeyLen : a[i] = b[i]) =>
            [i \in 1..KeyLen |-> a[i]] = [i \in 1..KeyLen |-> b[i]]
    OBVIOUS
  <2> QED  BY <2>1, <2>2
<1>3. PICK i \in Differ : \A j \in Differ : i <= j
  <2> HIDE DEF Differ
  <2> QED  BY <1>1, <1>2, LeastNatural
<1>4. a[i] \in Nat /\ b[i] \in Nat /\ a[i] # b[i] /\ i \in 1..KeyLen  BY DigitsOfKey
<1>5. \A j \in 1..(i - 1) : a[j] = b[j]  BY <1>3, <1>4, SelectionAssumption
<1> QED  BY <1>4, <1>5 DEF KeyLess

LEMMA LessAsymmetric ==
    ASSUME NEW a \in Keys, NEW b \in Keys, KeyLess(a, b)
    PROVE  a # b /\ ~KeyLess(b, a)
<1>1. PICK i \in 1..KeyLen : a[i] < b[i] /\ \A j \in 1..(i - 1) : a[j] = b[j]
  BY DEF KeyLess
<1>2. a[i] \in Nat /\ b[i] \in Nat /\ i \in Nat  BY DigitsOfKey
<1>3. a # b  BY <1>1, <1>2
<1>4. SUFFICES ASSUME NEW k \in 1..KeyLen, b[k] < a[k], \A j \in 1..(k - 1) : b[j] = a[j]
               PROVE  FALSE
  BY <1>3 DEF KeyLess
<1>5. a[k] \in Nat /\ b[k] \in Nat /\ k \in Nat  BY DigitsOfKey
<1>6. CASE i = k  BY <1>1, <1>2, <1>4, <1>6
<1>7. CASE i < k
  <2>1. i \in 1..(k - 1)  BY <1>2, <1>5, <1>7
  <2> QED  BY <1>1, <1>2, <1>4, <2>1
<1>8. CASE k < i
  <2>1. k \in 1..(i - 1)  BY <1>2, <1>5, <1>8
  <2> QED  BY <1>1, <1>4, <1>5, <2>1
<1> QED  BY <1>2, <1>5, <1>6, <1>7, <1>8

LEMMA LessTransitive ==
    ASSUME NEW a \in Keys, NEW b \in Keys, NEW c \in Keys, KeyLess(a, b), KeyLess(b, c)
    PROVE  KeyLess(a, c)
<1>1. PICK i \in 1..KeyLen : a[i] < b[i] /\ \A j \in 1..(i - 1) : a[j] = b[j]
  BY DEF KeyLess
<1>2. PICK k \in 1..KeyLen : b[k] < c[k] /\ \A j \in 1..(k - 1) : b[j] = c[j]
  BY DEF KeyLess
<1>3. /\ a[i] \in Nat /\ b[i] \in Nat /\ c[i] \in Nat /\ i \in Nat
      /\ a[k] \in Nat /\ b[k] \in Nat /\ c[k] \in Nat /\ k \in Nat
  BY DigitsOfKey
<1>4. CASE i <= k
  <2>1. \A j \in 1..(i - 1) : j \in 1..(k - 1)  BY <1>3, <1>4
  <2>2. \A j \in 1..(i - 1) : a[j] = c[j]  BY <1>1, <1>2, <2>1
  <2>3. a[i] < c[i]
    <3>1. CASE i = k  BY <1>1, <1>2, <1>3, <3>1
    <3>2. CASE i < k
      <4>1. i \in 1..(k - 1)  BY <1>3, <3>2
      <4> QED  BY <1>1, <1>2, <4>1
    <3> QED  BY <1>3, <1>4, <3>1, <3>2
  <2> QED  BY <2>2, <2>3 DEF KeyLess
<1>5. CASE k < i
  <2>1. k \in 1..(i - 1) /\ \A j \in 1..(k - 1) : j \in 1..(i - 1)  BY <1>3, <1>5
  <2>2. \A j \in 1..(k - 1) : a[j] = c[j]  BY <1>1, <1>2, <2>1
  <2>3. a[k] < c[k]  BY <1>1, <1>2, <2>1
  <2> QED  BY <2>2, <2>3 DEF KeyLess
<1> QED  BY <1>3, <1>4, <1>5

LEMMA LeqIsOrder ==
    ASSUME NEW a \in Keys, NEW b \in Keys
    PROVE  /\ KeyLeq(a, a)
           /\ KeyLeq(a, b) \/ KeyLeq(b, a)
           /\ KeyLeq(a, b) /\ KeyLeq(b, a) => a = b
           /\ \A c \in Keys : KeyLeq(a, b) /\ KeyLeq(b, c) => KeyLeq(a, c)
<1>1. KeyLeq(a, a)  BY LeqIsLess
<1>2. KeyLeq(a, b) \/ KeyLeq(b, a)  BY LeqIsLess, LessTotal
<1>3. KeyLeq(a, b) /\ KeyLeq(b, a) => a = b
  <2>1. KeyLess(a, b) => ~KeyLess(b, a)  BY LessAsymmetric
  <2> QED  BY <2>1, LeqIsLess
<1>4. ASSUME NEW c \in Keys, KeyLeq(a, b), KeyLeq(b, c)
      PROVE  KeyLeq(a, c)
  <2>1. KeyLess(a, b) /\ KeyLess(b, c) => KeyLess(a, c)  BY LessTransitive
  <2> QED  BY <1>4, <2>1, LeqIsLess
<1> QED  BY <1>1, <1>2, <1>3, <1>4

LEMMA KeyOfCandidate ==
    ASSUME NEW seed \in Seeds, NEW v \in Candidates, NEW w \in Candidates
    PROVE  seed[v] \in Keys /\ (seed[v] = seed[w] => v = w)
BY DEF Seeds

LEMMA KeyIsNotEmpty == \A key \in Keys : key # NoKey
<1>1. \A key \in Keys : 1 \in DOMAIN key  BY SelectionAssumption DEF Keys
<1>2. 1 \notin DOMAIN NoKey  BY DEF NoKey
<1> QED  BY <1>1, <1>2

(***************************************************************************)
(* A number of keys below a threshold that is one of them is its rank: the *)
(* keys up to it are the smallest.                                         *)
(***************************************************************************)
UpTo(E, seed, key) == {v \in E : KeyLeq(seed[v], key)}

LEMMA RankIsSmallest ==
    ASSUME NEW seed \in Seeds, NEW E \in SUBSET Candidates, NEW t \in E
    PROVE  UpTo(E, seed, seed[t]) = Smallest(E, Cardinality(UpTo(E, seed, seed[t])), seed)
<1> DEFINE key(w) == seed[w]
           U(w) == UpTo(E, seed, key(w))
           k == Cardinality(U(t))
<1>1. \A w \in E : key(w) \in Keys /\ U(w) \in SUBSET Candidates /\ Cardinality(U(w)) \in Nat
  <2>1. \A w \in E : U(w) \in SUBSET Candidates  BY DEF UpTo
  <2> QED  BY <2>1, KeyOfCandidate, CandidateCount
<1>2. ASSUME NEW w \in E, KeyLeq(key(w), key(t))
      PROVE  Cardinality(U(w)) <= k
  <2>1. U(w) \in SUBSET U(t)
    <3>1. \A v \in E : KeyLeq(key(v), key(w)) => KeyLeq(key(v), key(t))
      BY <1>1, <1>2, LeqIsOrder
    <3> QED  BY <3>1 DEF UpTo
  <2> QED  BY <1>1, <2>1, SubCount
<1>3. ASSUME NEW w \in E, ~KeyLeq(key(w), key(t))
      PROVE  Cardinality(U(w)) > k
  <2>1. KeyLeq(key(t), key(w))  BY <1>1, <1>3, LeqIsOrder
  <2>2. U(t) \in SUBSET U(w)
    <3>1. \A v \in E : KeyLeq(key(v), key(t)) => KeyLeq(key(v), key(w))
      BY <1>1, <2>1, LeqIsOrder
    <3> QED  BY <3>1 DEF UpTo
  <2>3. w \in U(w) /\ w \notin U(t)  BY <1>1, <1>3, LeqIsOrder DEF UpTo
  <2>4. U(w) \in SUBSET Candidates /\ Cardinality(U(t)) \in Nat /\ Cardinality(U(w)) \in Nat
    BY <1>1
  <2> HIDE DEF U
  <2>5. Cardinality(U(t)) <= Cardinality(U(w)) /\ Cardinality(U(t)) # Cardinality(U(w))
    BY <2>2, <2>3, <2>4, SubCount
  <2> QED  BY <2>4, <2>5
<1>4. \A w \in E : KeyLeq(key(w), key(t)) <=> Cardinality(U(w)) <= k
  BY <1>1, <1>2, <1>3
<1> QED  BY <1>4 DEF UpTo, Smallest

(***************************************************************************)
(* The buckets of a histogram, added up.                                   *)
(***************************************************************************)
NextDigit(r, w) == r.seed[w][Len(r.prefix) + 1]

InBucket(r, S, d) == {w \in Matching(r, S) : NextDigit(r, w) = d}

UpToBucket(r, S, d) == {w \in Matching(r, S) : NextDigit(r, w) <= d}

LEMMA BucketsThrough ==
    ASSUME NEW r, NEW S \in SUBSET Candidates,
           \A w \in Matching(r, S) : NextDigit(r, w) \in Digit,
           \A d \in Digit : r.histogram[d] = Cardinality(InBucket(r, S, d)),
           NEW e \in Digit
    PROVE  Through(r, e) = Cardinality(UpToBucket(r, S, e))
<1> DEFINE Sums(g) == [d \in Digit |-> r.histogram[d] + IF d = 0 THEN 0 ELSE g[d - 1]]
           iter    == CHOOSE g : g = Sums(g)
           G       == [d \in Digit |-> Cardinality(UpToBucket(r, S, d))]
<1>1. Through(r, e) = iter[e]  BY Zenon DEF Through
<1>2. \A d \in Digit : d \in Nat /\ (d # 0 => d - 1 \in Digit)
  BY SelectionAssumption DEF Digit
<1>2a. \A x \in Digit, d \in Digit :
           /\ d = 0 => (x <= d <=> x = d)
           /\ d # 0 => (x <= d <=> x <= d - 1 \/ x = d)
  BY SelectionAssumption DEF Digit
<1>3. \A d \in Digit :
          /\ UpToBucket(r, S, d) \in SUBSET Candidates
          /\ InBucket(r, S, d) \in SUBSET Candidates
  BY DEF UpToBucket, InBucket, Matching
<1>4. \A d \in Digit : G[d] = r.histogram[d] + IF d = 0 THEN 0 ELSE G[d - 1]
  <2> SUFFICES ASSUME NEW d \in Digit
               PROVE  G[d] = r.histogram[d] + IF d = 0 THEN 0 ELSE G[d - 1]
    OBVIOUS
  <2>1. /\ G[d] = Cardinality(UpToBucket(r, S, d)) /\ G[d] \in Nat
        /\ r.histogram[d] = Cardinality(InBucket(r, S, d)) /\ r.histogram[d] \in Nat
    BY <1>3, CandidateCount
  <2>2. CASE d = 0
    <3>1. \A w \in Matching(r, S) : NextDigit(r, w) <= d <=> NextDigit(r, w) = d
      BY <1>2a, <2>2
    <3>2. UpToBucket(r, S, d) = InBucket(r, S, d)  BY <3>1 DEF UpToBucket, InBucket
    <3> QED  BY <2>1, <2>2, <3>2
  <2>3. CASE d # 0
    <3>1. d - 1 \in Digit /\ d \in Nat  BY <1>2, <2>3
    <3>0. \A w \in Matching(r, S) :
              NextDigit(r, w) <= d <=> NextDigit(r, w) <= d - 1 \/ NextDigit(r, w) = d
      BY <1>2a, <2>3
    <3>2. UpToBucket(r, S, d) = UpToBucket(r, S, d - 1) \cup InBucket(r, S, d)
      BY <3>0 DEF UpToBucket, InBucket
    <3>3. UpToBucket(r, S, d - 1) \cap InBucket(r, S, d) = {}
      BY <1>2, <3>1 DEF UpToBucket, InBucket
    <3>4. Cardinality(UpToBucket(r, S, d)) =
              Cardinality(UpToBucket(r, S, d - 1)) + Cardinality(InBucket(r, S, d))
      BY <1>3, <3>1, <3>2, <3>3, DisjointCount
    <3>5. G[d - 1] = Cardinality(UpToBucket(r, S, d - 1)) /\ G[d - 1] \in Nat
      BY <1>3, <3>1, CandidateCount
    <3> HIDE DEF G
    <3> QED  BY <2>1, <2>3, <3>4, <3>5
  <2> QED  BY <2>2, <2>3
<1>5. G = Sums(G)
  <2>1. G = [d \in Digit |-> G[d]]  OBVIOUS
  <2> HIDE DEF G
  <2> QED  BY <1>4, <2>1
<1>6. iter = Sums(iter)
  <2> HIDE DEF Sums
  <2> QED  BY <1>5
<1> HIDE DEF iter
<1>7. \A d \in Digit : iter[d] = r.histogram[d] + IF d = 0 THEN 0 ELSE iter[d - 1]
  BY <1>6
<1> HIDE DEF G, Sums
<1> DEFINE Off == {d \in Digit : iter[d] # G[d]}
<1>8. Off = {}
  <2> SUFFICES ASSUME Off # {}  PROVE FALSE
    OBVIOUS
  <2>1. Off \in SUBSET Nat  BY <1>2
  <2>2. PICK d \in Off : \A c \in Off : d <= c
    <3> HIDE DEF Off
    <3> QED  BY <2>1, LeastNatural
  <2>3. d # 0  BY <1>4, <1>7, <2>2
  <2>4. d - 1 \in Digit /\ d \in Nat  BY <1>2, <2>2, <2>3
  <2>5. iter[d - 1] = G[d - 1]  BY <2>2, <2>4
  <2> QED  BY <1>4, <1>7, <2>2, <2>3, <2>5
<1>9. G[e] = Cardinality(UpToBucket(r, S, e))  BY DEF G
<1> QED  BY <1>1, <1>8, <1>9

(***************************************************************************)
(* Prefixes.  One more digit splits those with the prefix: the ones with   *)
(* that digit still have it, the ones with a smaller digit now precede it. *)
(***************************************************************************)
Prefixed(r) == r.seed \in Seeds /\ r.prefix \in Seq(Digit) /\ Len(r.prefix) <= KeyLen

LEMMA PrefixFacts ==
    ASSUME NEW r, Prefixed(r)
    PROVE  /\ Len(r.prefix) \in Nat /\ DOMAIN r.prefix = 1..Len(r.prefix)
           /\ \A i \in DOMAIN r.prefix : i \in 1..KeyLen /\ r.prefix[i] \in Digit
                                         /\ r.prefix[i] \in Nat /\ i \in Nat
           /\ \A w \in Candidates, i \in 1..KeyLen :
                 r.seed[w][i] \in Digit /\ r.seed[w][i] \in Nat
<1>1. /\ Len(r.prefix) \in Nat /\ DOMAIN r.prefix = 1..Len(r.prefix)
      /\ \A i \in DOMAIN r.prefix : r.prefix[i] \in Digit
  BY DEF Prefixed
<1>2. \A i \in 1..Len(r.prefix) : i \in 1..KeyLen /\ i \in Nat
  <2>1. PICK n : n = Len(r.prefix)  OBVIOUS
  <2>2. n \in Nat /\ n <= KeyLen  BY <1>1, <2>1 DEF Prefixed
  <2>3. KeyLen \in Nat  BY SelectionAssumption
  <2>4. \A i \in 1..n : i \in 1..KeyLen /\ i \in Nat  BY <2>2, <2>3
  <2> QED  BY <2>1, <2>4
<1>3. \A w \in Candidates, i \in 1..KeyLen :
          r.seed[w][i] \in Digit /\ r.seed[w][i] \in Nat
  BY KeyOfCandidate, DigitsOfKey DEF Prefixed
<1> QED  BY <1>1, <1>2, <1>3 DEF Digit

LEMMA MatchingApart ==
    ASSUME NEW r, Prefixed(r), NEW S \in SUBSET Candidates
    PROVE  /\ Matching(r, S) \in SUBSET Candidates
           /\ Preceding(r, S) \in SUBSET Candidates
           /\ Matching(r, S) \cap Preceding(r, S) = {}
<1>1. ASSUME NEW w \in Matching(r, S), w \in Preceding(r, S)
      PROVE  FALSE
  <2>1. PICK i \in DOMAIN r.prefix : r.seed[w][i] < r.prefix[i]  BY <1>1 DEF Preceding
  <2>2. r.seed[w][i] = r.prefix[i]  BY DEF Matching, MatchesPrefix
  <2>3. r.prefix[i] \in Nat  BY PrefixFacts
  <2> QED  BY <2>1, <2>2, <2>3
<1> QED  BY <1>1 DEF Matching, Preceding

LEMMA OneMoreDigit ==
    ASSUME NEW r, Prefixed(r), Len(r.prefix) < KeyLen, NEW d \in Digit,
           NEW s, s.seed = r.seed, s.prefix = Append(r.prefix, d),
           NEW S \in SUBSET Candidates
    PROVE  /\ Prefixed(s) /\ Len(s.prefix) = Len(r.prefix) + 1
           /\ Matching(s, S) = InBucket(r, S, d)
           /\ Preceding(s, S) =
                  Preceding(r, S) \cup {w \in Matching(r, S) : NextDigit(r, w) < d}
<1> DEFINE n == Len(r.prefix)
<1>1. n \in Nat /\ DOMAIN r.prefix = 1..n /\ r.prefix \in Seq(Digit) /\ KeyLen \in Nat
  BY PrefixFacts, SelectionAssumption DEF Prefixed
<1>2. /\ s.prefix \in Seq(Digit) /\ Len(s.prefix) = n + 1
      /\ DOMAIN s.prefix = 1..(n + 1) /\ s.prefix[n + 1] = d
      /\ \A i \in 1..n : s.prefix[i] = r.prefix[i]
  BY <1>1
<1>3. Prefixed(s)  BY <1>1, <1>2 DEF Prefixed
<1> HIDE DEF n
<1>4. \A i : i \in 1..(n + 1) <=> i \in 1..n \/ i = n + 1  BY <1>1
<1>5. \A key : MatchesPrefix(s, key) <=> MatchesPrefix(r, key) /\ key[n + 1] = d
  BY <1>1, <1>2, <1>4 DEF MatchesPrefix
<1>6. Matching(s, S) = InBucket(r, S, d)
  BY <1>5 DEF Matching, InBucket, NextDigit, n
<1> DEFINE Before(p, w, i) == /\ r.seed[w][i] < p[i]
                              /\ \A j \in 1..(i - 1) : r.seed[w][j] = p[j]
<1>7. ASSUME NEW w \in S
      PROVE  (\E i \in 1..(n + 1) : Before(s.prefix, w, i)) <=>
                 \/ \E i \in 1..n : Before(r.prefix, w, i)
                 \/ MatchesPrefix(r, r.seed[w]) /\ r.seed[w][n + 1] < d
  <2>1. \A i \in 1..n : Before(s.prefix, w, i) <=> Before(r.prefix, w, i)
    <3>1. \A i \in 1..n : \A j \in 1..(i - 1) : j \in 1..n  BY <1>1
    <3> QED  BY <1>2, <3>1
  <2>2. Before(s.prefix, w, n + 1) <=>
            MatchesPrefix(r, r.seed[w]) /\ r.seed[w][n + 1] < d
    <3>1. (n + 1) - 1 = n  BY <1>1
    <3> QED  BY <1>1, <1>2, <3>1 DEF MatchesPrefix
  <2> HIDE DEF Before
  <2> QED  BY <1>4, <2>1, <2>2
<1>8. Preceding(r, S) = {w \in S : \E i \in 1..n : Before(r.prefix, w, i)}
  BY <1>1 DEF Preceding
<1>9. Preceding(s, S) = {w \in S : \E i \in 1..(n + 1) : Before(s.prefix, w, i)}
  BY <1>2 DEF Preceding
<1> HIDE DEF Before
<1>10. {w \in Matching(r, S) : NextDigit(r, w) < d} =
           {w \in S : MatchesPrefix(r, r.seed[w]) /\ r.seed[w][n + 1] < d}
  BY DEF Matching, NextDigit, n
<1>11. Preceding(s, S) = Preceding(r, S) \cup {w \in Matching(r, S) : NextDigit(r, w) < d}
  BY <1>7, <1>8, <1>9, <1>10
<1> QED  BY <1>2, <1>3, <1>6, <1>11 DEF n

LEMMA SamePrefix ==
    ASSUME NEW r, NEW s, s.seed = r.seed, s.prefix = r.prefix, NEW S
    PROVE  /\ Matching(s, S) = Matching(r, S) /\ Preceding(s, S) = Preceding(r, S)
           /\ \A d : InBucket(s, S, d) = InBucket(r, S, d)
BY DEF Matching, Preceding, InBucket, NextDigit, MatchesPrefix

\* the wanted key has the prefix, and its rank among those that have it is right
Ranked(r, E) ==
    /\ Prefixed(r)
    /\ r.target_winners \in Nat /\ r.remaining_rank \in Nat
    /\ Cardinality(Preceding(r, E)) + r.remaining_rank = r.target_winners
    /\ r.remaining_rank \in 1..Cardinality(Matching(r, E))

(* A whole key belongs to one candidate. *)
LEMMA WholeKey ==
    ASSUME NEW r, Prefixed(r), Len(r.prefix) = KeyLen, NEW S \in SUBSET Candidates,
           NEW v \in Matching(r, S), NEW w \in Matching(r, S)
    PROVE  v = w
<1>1. v \in Candidates /\ w \in Candidates  BY DEF Matching
<1>2. DOMAIN r.prefix = 1..KeyLen  BY PrefixFacts
<1>3. \A i \in 1..KeyLen : r.seed[v][i] = r.seed[w][i]
  BY <1>2 DEF Matching, MatchesPrefix
<1>4. r.seed[v] \in Keys /\ r.seed[w] \in Keys  BY <1>1, KeyOfCandidate DEF Prefixed
<1>5. r.seed[v] = r.seed[w]
  <2>1. /\ r.seed[v] = [i \in 1..KeyLen |-> r.seed[v][i]]
        /\ r.seed[w] = [i \in 1..KeyLen |-> r.seed[w][i]]
    BY <1>4 DEF Keys
  <2>2. [i \in 1..KeyLen |-> r.seed[v][i]] = [i \in 1..KeyLen |-> r.seed[w][i]]
    BY <1>3
  <2> QED  BY <2>1, <2>2
<1> QED  BY <1>1, <1>5, KeyOfCandidate DEF Prefixed

(* With one key left, it is the threshold: as many keys are up to it as there
   are winners to find. *)
LEMMA LastKeyIsThreshold ==
    ASSUME NEW r, NEW E \in SUBSET Candidates, Ranked(r, E),
           NEW t, Matching(r, E) = {t}
    PROVE  Cardinality(UpTo(E, r.seed, r.seed[t])) = r.target_winners
<1> DEFINE key(w) == r.seed[w]
<1>1. /\ Prefixed(r) /\ r.seed \in Seeds
      /\ Matching(r, E) \in SUBSET Candidates /\ Preceding(r, E) \in SUBSET Candidates
      /\ Matching(r, E) \cap Preceding(r, E) = {}
  BY MatchingApart DEF Ranked, Prefixed
<1>2. t \in E /\ t \in Candidates /\ MatchesPrefix(r, key(t))
  BY DEF Matching
<1>3. \A i \in DOMAIN r.prefix : r.prefix[i] = key(t)[i]
  BY <1>2 DEF MatchesPrefix
<1>4. DOMAIN r.prefix = 1..Len(r.prefix) /\ Len(r.prefix) \in Nat
  BY <1>1, PrefixFacts
<1>5. ASSUME NEW v \in Preceding(r, E)
      PROVE  v \in UpTo(E, r.seed, key(t))
  <2>1. PICK i \in DOMAIN r.prefix :
            /\ key(v)[i] < r.prefix[i] /\ \A j \in 1..(i - 1) : key(v)[j] = r.prefix[j]
    BY <1>5 DEF Preceding
  <2>2. i \in 1..KeyLen /\ \A j \in 1..(i - 1) : j \in DOMAIN r.prefix
    BY <1>1, <1>4, PrefixFacts
  <2>3. KeyLess(key(v), key(t))  BY <1>3, <2>1, <2>2 DEF KeyLess
  <2> QED  BY <2>3, LeqIsLess DEF UpTo, Preceding
<1>6. ASSUME NEW v \in UpTo(E, r.seed, key(t)), v # t
      PROVE  v \in Preceding(r, E)
  <2>1. v \in E /\ v \in Candidates  BY DEF UpTo
  <2>2. key(v) # key(t)  BY <1>1, <1>2, <1>6, <2>1, KeyOfCandidate
  <2>3. KeyLess(key(v), key(t))  BY <2>2, LeqIsLess DEF UpTo
  <2>4. PICK i \in 1..KeyLen :
            /\ key(v)[i] < key(t)[i] /\ \A j \in 1..(i - 1) : key(v)[j] = key(t)[j]
    BY <2>3 DEF KeyLess
  <2>5. i \in Nat  BY SelectionAssumption
  <2>6. CASE i \in DOMAIN r.prefix
    <3>1. \A j \in 1..(i - 1) : j \in DOMAIN r.prefix  BY <1>4, <2>6
    <3>2. key(v)[i] < r.prefix[i] /\ \A j \in 1..(i - 1) : key(v)[j] = r.prefix[j]
      BY <1>3, <2>4, <2>6, <3>1
    <3> QED  BY <2>1, <2>6, <3>2 DEF Preceding
  <2>7. CASE i \notin DOMAIN r.prefix
    <3>1. \A j \in DOMAIN r.prefix : j \in 1..(i - 1)  BY <1>4, <2>5, <2>7
    <3>2. MatchesPrefix(r, key(v))  BY <1>3, <2>4, <3>1 DEF MatchesPrefix
    <3>3. v \in Matching(r, E)  BY <2>1, <3>2 DEF Matching
    <3> QED  BY <1>6, <3>3
  <2> QED  BY <2>6, <2>7
<1>7. UpTo(E, r.seed, key(t)) = Preceding(r, E) \cup {t}
  <2>1. t \in UpTo(E, r.seed, key(t))  BY <1>2, LeqIsLess DEF UpTo
  <2> QED  BY <1>5, <1>6, <2>1
<1>8. t \notin Preceding(r, E)  BY <1>1
<1>9. Cardinality(UpTo(E, r.seed, key(t))) = Cardinality(Preceding(r, E)) + 1
  BY <1>1, <1>2, <1>7, <1>8, OneMore
<1>10. r.remaining_rank = 1
  <2>1. Cardinality({t}) = 1  BY FS_Singleton
  <2> QED  BY <2>1 DEF Ranked
<1> QED  BY <1>9, <1>10 DEF Ranked

(* The end of a pass that counted everybody: the bucket chosen keeps the rank
   right. *)
LEMMA FinishPassRanked ==
    ASSUME NEW r, NEW E \in SUBSET Candidates, Ranked(r, E), Len(r.prefix) < KeyLen,
           \A d \in Digit : r.histogram[d] = Cardinality(InBucket(r, E, d)),
           Reaching(r) # {},
           NEW s, s.seed = r.seed, s.prefix = Append(r.prefix, Min(Reaching(r))),
           s.target_winners = r.target_winners,
           s.remaining_rank =
               Max({0, r.remaining_rank - (Through(r, Min(Reaching(r)))
                                               - r.histogram[Min(Reaching(r))])})
    PROVE  /\ Ranked(s, E) /\ s.remaining_rank <= r.remaining_rank
           /\ Min(Reaching(r)) \in Digit
           /\ Len(s.prefix) = Len(r.prefix) + 1
           /\ r.histogram[Min(Reaching(r))] = Cardinality(Matching(s, E))
<1> DEFINE d == Min(Reaching(r))
           below == {w \in Matching(r, E) : NextDigit(r, w) < d}
           rank == r.remaining_rank
<1>1. /\ Prefixed(r) /\ rank \in Nat /\ rank > 0 /\ r.target_winners \in Nat
      /\ Cardinality(Preceding(r, E)) + rank = r.target_winners
  BY DEF Ranked
<1>2. Digit \in SUBSET Nat  BY SelectionAssumption DEF Digit
<1>3. d \in Reaching(r) /\ \A e \in Reaching(r) : d <= e
  <2>1. Reaching(r) \in SUBSET Nat  BY <1>2 DEF Reaching
  <2> QED  BY <2>1, MinOfSet
<1>4. d \in Digit /\ d \in Nat /\ rank <= Through(r, d)  BY <1>2, <1>3 DEF Reaching
<1> HIDE DEF d
<1>5. /\ Prefixed(s) /\ Len(s.prefix) = Len(r.prefix) + 1
      /\ Matching(s, E) = InBucket(r, E, d)
      /\ Preceding(s, E) = Preceding(r, E) \cup below
  BY <1>1, <1>4, OneMoreDigit DEF d
<1>6. /\ Matching(r, E) \in SUBSET Candidates /\ Preceding(r, E) \in SUBSET Candidates
      /\ Matching(r, E) \cap Preceding(r, E) = {}
  BY <1>1, MatchingApart
<1>7. \A w \in Matching(r, E) : NextDigit(r, w) \in Digit
  <2>1. Len(r.prefix) + 1 \in 1..KeyLen
    BY <1>1, PrefixFacts, SelectionAssumption
  <2> QED  BY <1>1, <1>6, <2>1, PrefixFacts DEF NextDigit
<1>8. \A e \in Digit : Through(r, e) = Cardinality(UpToBucket(r, E, e))
  BY <1>7, BucketsThrough
<1>9. /\ below \in SUBSET Candidates /\ InBucket(r, E, d) \in SUBSET Candidates
      /\ below \cap InBucket(r, E, d) = {} /\ below \cap Preceding(r, E) = {}
      /\ UpToBucket(r, E, d) = below \cup InBucket(r, E, d)
  <2>1. \A w \in Matching(r, E) :
            /\ ~(NextDigit(r, w) < d /\ NextDigit(r, w) = d)
            /\ NextDigit(r, w) <= d <=> NextDigit(r, w) < d \/ NextDigit(r, w) = d
    <3>1. \A x \in Digit : ~(x < d /\ x = d) /\ (x <= d <=> x < d \/ x = d)
      BY <1>2, <1>4
    <3> QED  BY <1>7, <3>1
  <2> QED  BY <1>6, <2>1 DEF InBucket, UpToBucket
<1>10. /\ Cardinality(below) \in Nat /\ Cardinality(InBucket(r, E, d)) \in Nat
       /\ Cardinality(Preceding(r, E)) \in Nat
  BY <1>6, <1>9, CandidateCount
<1>11. Through(r, d) = Cardinality(below) + Cardinality(InBucket(r, E, d))
  BY <1>4, <1>8, <1>9, DisjointCount
<1>12. Cardinality(below) < rank
  <2>1. CASE d = 0
    <3>1. below = {}
      <4>1. \A x \in Digit : ~(x < 0)  BY <1>2
      <4> QED  BY <1>7, <2>1, <4>1
    <3> QED  BY <1>1, <3>1, FS_EmptySet
  <2>2. CASE d # 0
    <3>1. d - 1 \in Digit /\ ~(d <= d - 1)  BY <1>4, <2>2, SelectionAssumption DEF Digit
    <3>2. d - 1 \notin Reaching(r)  BY <1>3, <3>1
    <3>3. below = UpToBucket(r, E, d - 1)
      <4>1. \A x \in Digit : x < d <=> x <= d - 1  BY <1>2, <1>4
      <4> QED  BY <1>7, <4>1 DEF UpToBucket
    <3>4. ~(rank <= Cardinality(below))  BY <1>8, <3>1, <3>2, <3>3 DEF Reaching
    <3> HIDE DEF below, rank
    <3> QED  BY <1>1, <1>10, <3>4
  <2> QED  BY <2>1, <2>2
<1>13. r.histogram[d] = Cardinality(InBucket(r, E, d))  BY <1>4
<1>14. Cardinality(Preceding(s, E)) = Cardinality(Preceding(r, E)) + Cardinality(below)
  BY <1>5, <1>6, <1>9, DisjointCount
<1>15. s.remaining_rank = Max({0, rank - (Through(r, d) - r.histogram[d])})
  BY DEF d
<1> HIDE DEF below, rank
<1>16. s.remaining_rank = rank - Cardinality(below)
  <2> DEFINE b == Cardinality(below)
             c == Cardinality(InBucket(r, E, d))
  <2>1. b \in Nat /\ c \in Nat /\ b < rank  BY <1>10, <1>12
  <2>2. s.remaining_rank = Max({0, rank - ((b + c) - c)})  BY <1>11, <1>13, <1>15
  <2> HIDE DEF b, c
  <2>3. rank - ((b + c) - c) = rank - b /\ rank - b \in Int /\ rank - b > 0
    BY <1>1, <2>1
  <2>4. s.remaining_rank = rank - b  BY <2>2, <2>3, MaxWithZero
  <2> QED  BY <2>4 DEF b
<1>17. Ranked(s, E)
  <2>1. rank <= Cardinality(below) + Cardinality(Matching(s, E))
    BY <1>4, <1>5, <1>11
  <2>2. Cardinality(Matching(s, E)) \in Nat  BY <1>5, <1>10
  <2>3. /\ s.remaining_rank \in Nat /\ s.remaining_rank >= 1
        /\ s.remaining_rank <= Cardinality(Matching(s, E))
        /\ Cardinality(Preceding(s, E)) + s.remaining_rank = r.target_winners
    BY <1>1, <1>10, <1>12, <1>14, <1>16, <2>1, <2>2
  <2> QED  BY <1>1, <1>5, <2>2, <2>3 DEF Ranked
<1>18. s.remaining_rank <= rank  BY <1>1, <1>10, <1>16
<1> QED  BY <1>4, <1>5, <1>13, <1>17, <1>18 DEF d, rank

(***************************************************************************)
(* The invariant of the selection among the participants E of an index     *)
(* order, `wanted` of whom win: one form for each phase, which says what   *)
(* the chunks of the pass so far have left in the FinalizationLedger.      *)
(***************************************************************************)
Listed(order, E) ==
    /\ order \in Seq(Candidates)
    /\ \A i, j \in DOMAIN order : i # j => order[i] # order[j]
    /\ E \subseteq {order[i] : i \in DOMAIN order}

Walked(r, order) == {order[i] : i \in 1..r.processed_count}

ShapedRoot(r, order) ==
    /\ r \in RootType
    /\ r.required_count = Len(order)
    /\ r.processed_count <= r.required_count
    /\ Len(r.prefix) <= KeyLen
    /\ r.remaining_rank <= r.target_winners
    /\ r.emitted_count <= r.target_winners

Seeded(r, E, wanted) ==
    /\ r.seed \in Seeds
    /\ r.target_winners = Min({wanted, Cardinality(E)})
    /\ r.target_winners > 0

AtAggregation(r, order, E) ==
    /\ r.phase = "aggregating"
    /\ r.eligible_count = Cardinality(E \cap Walked(r, order))
    /\ r.target_winners = 0 /\ r.prefix = << >> /\ r.threshold_key = NoKey
    /\ r.emitted_count = 0

AtRadix(r, order, E, wanted) ==
    /\ r.phase = "radix"
    /\ Seeded(r, E, wanted) /\ Ranked(r, E)
    /\ Len(r.prefix) < KeyLen
    /\ \A d \in Digit :
          r.histogram[d] = Cardinality(InBucket(r, E \cap Walked(r, order), d))
    /\ r.threshold_key = NoKey /\ r.emitted_count = 0

AtResolution(r, order, E, wanted) ==
    /\ r.phase = "resolving"
    /\ Seeded(r, E, wanted) /\ Ranked(r, E)
    /\ \E t : /\ Matching(r, E) = {t}
              /\ r.threshold_key = IF t \in Walked(r, order) THEN r.seed[t] ELSE NoKey
    /\ r.emitted_count = 0

\* the threshold is a key among E, and as many as there are winners are up to it
Found(r, E, wanted) ==
    /\ Seeded(r, E, wanted)
    /\ \E t \in E : /\ r.threshold_key = r.seed[t]
                    /\ Cardinality(UpTo(E, r.seed, r.seed[t])) = r.target_winners

AtEmission(r, order, E, wanted) ==
    /\ r.phase = "emitting"
    /\ Found(r, E, wanted)
    /\ r.emitted_count = Cardinality({w \in E \cap Walked(r, order) : Wins(r, w)})

AtEnd(r, E, wanted) ==
    /\ r.phase = "completed"
    /\ \/ Found(r, E, wanted)
       \/ r.target_winners = 0 /\ Min({wanted, Cardinality(E)}) = 0

SelectionInv(r, order, E, wanted) ==
    /\ ShapedRoot(r, order)
    /\ \/ AtAggregation(r, order, E)
       \/ AtRadix(r, order, E, wanted)
       \/ AtResolution(r, order, E, wanted)
       \/ AtEmission(r, order, E, wanted)
       \/ AtEnd(r, E, wanted)

(***************************************************************************)
(* A chunk of the pass: it is disjoint from what was walked before, and    *)
(* the last one completes the list.                                        *)
(***************************************************************************)
LEMMA ChunkWalks ==
    ASSUME NEW order, NEW E, Listed(order, E),
           NEW r, r.processed_count \in Nat, r.required_count = Len(order),
           NEW last, InPass(r, last),
           NEW s, s.processed_count = last
    PROVE  /\ last \in Nat /\ last <= Len(order) /\ Len(order) \in Nat
           /\ E \in SUBSET Candidates
           /\ Walked(s, order) = Walked(r, order) \cup Chunk(order, r, last)
           /\ Walked(r, order) \cap Chunk(order, r, last) = {}
           /\ last = Len(order) => E \cap Walked(s, order) = E
<1>1. /\ order \in Seq(Candidates) /\ Len(order) \in Nat
      /\ DOMAIN order = 1..Len(order)
      /\ \A i \in DOMAIN order : order[i] \in Candidates
  BY DEF Listed
<1>2. last \in Nat /\ last <= Len(order) /\ r.processed_count < last
  BY <1>1 DEF InPass
<1>3. E \in SUBSET Candidates  BY <1>1 DEF Listed
<1>4. Walked(s, order) = Walked(r, order) \cup Chunk(order, r, last)
  <2>1. 1..last = 1..r.processed_count \cup (r.processed_count + 1)..last  BY <1>2
  <2> QED  BY <2>1 DEF Walked, Chunk
<1>5. Walked(r, order) \cap Chunk(order, r, last) = {}
  <2>1. ASSUME NEW i \in 1..r.processed_count, NEW j \in (r.processed_count + 1)..last
        PROVE  order[i] # order[j]
    <3>1. i \in DOMAIN order /\ j \in DOMAIN order /\ i # j  BY <1>1, <1>2
    <3> QED  BY <3>1 DEF Listed
  <2> QED  BY <2>1 DEF Walked, Chunk
<1>6. last = Len(order) => E \cap Walked(s, order) = E
  BY <1>1 DEF Walked, Listed
<1> QED  BY <1>1, <1>2, <1>3, <1>4, <1>5, <1>6

LEMMA NothingWalked ==
    ASSUME NEW order, NEW r, r.processed_count = 0
    PROVE  Walked(r, order) = {}
BY DEF Walked

\* the record of a selection, field by field
LEMMA RootFields ==
    ASSUME NEW r \in RootType
    PROVE  /\ r.required_count \in Nat /\ r.processed_count \in Nat /\ r.eligible_count \in Nat
           /\ r.target_winners \in Nat /\ r.prefix \in Seq(Digit) /\ r.remaining_rank \in Nat
           /\ r.histogram \in HistogramType /\ r.threshold_key \in Keys \cup {NoKey}
           /\ r.emitted_count \in Nat
BY DEF RootType

LEMMA NewSelection ==
    ASSUME NEW order, NEW E, Listed(order, E), NEW wanted \in Nat
    PROVE  SelectionInv(NewRoot(Len(order)), order, E, wanted)
<1> DEFINE r == NewRoot(Len(order))
<1>1. Len(order) \in Nat  BY DEF Listed
<1>2. r = [NoRoot EXCEPT !.phase = "aggregating", !.required_count = Len(order)]
  BY DEF NewRoot
<1>3. NoHistogram \in HistogramType  BY DEF NoHistogram, HistogramType
<1>4. /\ r \in RootType /\ r.phase = "aggregating" /\ r.required_count = Len(order)
      /\ r.processed_count = 0 /\ r.eligible_count = 0 /\ r.target_winners = 0
      /\ r.prefix = << >> /\ r.remaining_rank = 0 /\ r.emitted_count = 0
      /\ r.threshold_key = NoKey
  <2>1. << >> \in Seq(Digit)  OBVIOUS
  <2>2. r = [phase |-> "aggregating", required_count |-> Len(order), processed_count |-> 0,
             eligible_count |-> 0, target_winners |-> 0, seed |-> NoSeed,
             prefix |-> << >>, remaining_rank |-> 0, histogram |-> NoHistogram,
             threshold_key |-> NoKey, emitted_count |-> 0]
    BY <1>2 DEF NoRoot
  <2> HIDE DEF r
  <2> QED  BY <1>1, <1>3, <2>1, <2>2 DEF RootType
<1> HIDE DEF r
<1>5. Walked(r, order) = {}  BY <1>4, NothingWalked
<1>6. Cardinality(E \cap Walked(r, order)) = 0
  <2>1. E \cap Walked(r, order) = {}  BY <1>5
  <2> QED  BY <2>1, FS_EmptySet
<1>7. ShapedRoot(r, order)
  <2>1. Len(r.prefix) = 0  BY <1>4
  <2> QED  BY <1>1, <1>4, <2>1, SelectionAssumption DEF ShapedRoot
<1>8. AtAggregation(r, order, E)  BY <1>4, <1>6 DEF AtAggregation
<1> QED  BY <1>7, <1>8 DEF SelectionInv, r

(***************************************************************************)
(* Aggregation.                                                            *)
(***************************************************************************)
LEMMA BeginsRadix ==
    ASSUME NEW order, NEW E, Listed(order, E), NEW wanted \in Nat,
           NEW r, ShapedRoot(r, order), AtAggregation(r, order, E),
           NEW seed \in Seeds, NEW target, target = Min({wanted, Cardinality(E)}), target > 0
    PROVE  SelectionInv(BeginRadix(r, seed, target), order, E, wanted)
<1> DEFINE s == BeginRadix(r, seed, target)
<1>1. E \in SUBSET Candidates /\ Cardinality(E) \in Nat
  <2>1. E \in SUBSET Candidates  BY DEF Listed
  <2> QED  BY <2>1, CandidateCount
<1>2. target \in Nat /\ target <= Cardinality(E)  BY <1>1, MinOf
<1>3. NoHistogram \in HistogramType /\ \A d \in Digit : NoHistogram[d] = 0
  BY DEF NoHistogram, HistogramType
<1>4. r \in RootType  BY DEF ShapedRoot
<1>5. s = [r EXCEPT !.phase = "radix", !.seed = seed, !.target_winners = target,
                    !.remaining_rank = target, !.processed_count = 0,
                    !.histogram = NoHistogram]
  BY <1>4 DEF BeginRadix, ResetPass, RootType
<1> HIDE DEF s
<1>6. /\ s \in RootType /\ s.phase = "radix" /\ s.required_count = r.required_count
      /\ s.processed_count = 0 /\ s.target_winners = target /\ s.seed = seed
      /\ s.prefix = r.prefix /\ s.remaining_rank = target /\ s.histogram = NoHistogram
      /\ s.threshold_key = r.threshold_key /\ s.emitted_count = r.emitted_count
  BY <1>2, <1>3, <1>4, <1>5 DEF RootType
<1>7. s.prefix = << >> /\ Len(s.prefix) = 0 /\ DOMAIN s.prefix = {}
      /\ s.threshold_key = NoKey /\ s.emitted_count = 0
  BY <1>6 DEF AtAggregation
<1>8. ShapedRoot(s, order)
  <2>1. r.required_count \in Nat /\ r.required_count = Len(order)
    BY <1>4, RootFields DEF ShapedRoot
  <2> QED  BY <1>2, <1>6, <1>7, <2>1, SelectionAssumption DEF ShapedRoot
<1>9. Matching(s, E) = E /\ Preceding(s, E) = {}
  BY <1>7 DEF Matching, MatchesPrefix, Preceding
<1>10. Ranked(s, E)
  <2>1. Prefixed(s)
    <3>1. s.prefix \in Seq(Digit)  BY <1>6, RootFields
    <3> QED  BY <1>6, <1>7, <3>1, SelectionAssumption DEF Prefixed
  <2>2. Cardinality(Preceding(s, E)) = 0  BY <1>9, FS_EmptySet
  <2>3. target \in 1..Cardinality(E)  BY <1>1, <1>2
  <2>4. 0 + target = target  BY <1>2
  <2> QED  BY <1>2, <1>6, <1>9, <2>1, <2>2, <2>3, <2>4 DEF Ranked
<1>11. \A d \in Digit : s.histogram[d] = Cardinality(InBucket(s, E \cap Walked(s, order), d))
  <2>1. E \cap Walked(s, order) = {}  BY <1>6, NothingWalked
  <2>2. \A d \in Digit : InBucket(s, {}, d) = {}  BY DEF InBucket, Matching
  <2> QED  BY <1>3, <1>6, <2>1, <2>2, FS_EmptySet
<1>12. Seeded(s, E, wanted)  BY <1>6 DEF Seeded
<1>13. Len(s.prefix) < KeyLen
  <2>1. 0 < KeyLen  BY SelectionAssumption
  <2>2. Len(s.prefix) = 0  BY <1>7
  <2> QED  BY <2>1, <2>2
<1>14. AtRadix(s, order, E, wanted)
  BY <1>6, <1>7, <1>10, <1>11, <1>12, <1>13 DEF AtRadix
<1> QED  BY <1>8, <1>14 DEF SelectionInv, s

LEMMA AggregateKeeps ==
    ASSUME NEW order, NEW E, Listed(order, E), NEW wanted \in Nat,
           NEW r, SelectionInv(r, order, E, wanted), NEW last, InPass(r, last), NEW seed,
           Aggregate(r, Chunk(order, r, last), Chunk(order, r, last) \cap E, last, wanted, seed)
    PROVE  SelectionInv(root', order, E, wanted)
<1> DEFINE C == Chunk(order, r, last)
           counted == [Processed(r, last) EXCEPT !.eligible_count = @ + Cardinality(C \cap E)]
           target  == Min({wanted, counted.eligible_count})
<1>1. /\ r.phase = "aggregating"
      /\ \/ last < r.required_count /\ root' = counted
         \/ /\ last = r.required_count /\ target > 0 /\ seed \in Seeds
            /\ root' = BeginRadix(counted, seed, target)
         \/ /\ last = r.required_count /\ target = 0
            /\ root' = [counted EXCEPT !.phase = "completed"]
  BY DEF Aggregate, MayAggregate
<1>2. ShapedRoot(r, order) /\ AtAggregation(r, order, E) /\ r \in RootType
  BY <1>1 DEF SelectionInv, AtRadix, AtResolution, AtEmission, AtEnd, ShapedRoot
<1>3. counted.processed_count = last
  BY <1>2 DEF Processed, RootType
<1>4. /\ last \in Nat /\ last <= Len(order) /\ Len(order) \in Nat
      /\ E \in SUBSET Candidates
      /\ Walked(counted, order) = Walked(r, order) \cup C
      /\ Walked(r, order) \cap C = {}
      /\ last = Len(order) => E \cap Walked(counted, order) = E
  <2>1. r.processed_count \in Nat /\ r.required_count = Len(order)
    BY <1>2, RootFields DEF ShapedRoot
  <2> HIDE DEF counted
  <2> QED  BY <1>3, <2>1, ChunkWalks
<1>5. /\ Cardinality(C \cap E) \in Nat
      /\ r.eligible_count + Cardinality(C \cap E) = Cardinality(E \cap Walked(counted, order))
  <2>1. /\ C \cap E \in SUBSET Candidates /\ E \cap Walked(r, order) \in SUBSET Candidates
        /\ (E \cap Walked(r, order)) \cap (C \cap E) = {}
        /\ E \cap Walked(counted, order) = (E \cap Walked(r, order)) \cup (C \cap E)
    BY <1>4
  <2>2. Cardinality(E \cap Walked(counted, order)) =
            Cardinality(E \cap Walked(r, order)) + Cardinality(C \cap E)
    BY <2>1, DisjointCount
  <2> QED  BY <1>2, <2>1, <2>2, CandidateCount DEF AtAggregation
<1> DEFINE n == r.eligible_count + Cardinality(C \cap E)
<1>6. n \in Nat  BY <1>2, <1>5, RootFields
<1>7. counted = [r EXCEPT !.processed_count = last, !.eligible_count = n]
  BY <1>2 DEF Processed, RootType
<1> HIDE DEF counted, n, C
<1>8. /\ counted \in RootType /\ counted.phase = "aggregating" /\ counted.eligible_count = n
      /\ counted.required_count = r.required_count /\ counted.target_winners = r.target_winners
      /\ counted.prefix = r.prefix /\ counted.remaining_rank = r.remaining_rank
      /\ counted.threshold_key = r.threshold_key /\ counted.emitted_count = r.emitted_count
  BY <1>1, <1>2, <1>4, <1>6, <1>7 DEF RootType
<1>9. ShapedRoot(counted, order)  BY <1>2, <1>3, <1>4, <1>8 DEF ShapedRoot
<1>10. AtAggregation(counted, order, E)
  BY <1>2, <1>5, <1>8 DEF AtAggregation, n
<1>11. CASE last < r.required_count /\ root' = counted
  BY <1>9, <1>10, <1>11 DEF SelectionInv
<1>12. last = r.required_count => target = Min({wanted, Cardinality(E)})
  BY <1>2, <1>4, <1>5, <1>8 DEF ShapedRoot, n
<1>13. CASE /\ last = r.required_count /\ target > 0 /\ seed \in Seeds
            /\ root' = BeginRadix(counted, seed, target)
  <2> HIDE DEF target
  <2> QED  BY <1>9, <1>10, <1>12, <1>13, BeginsRadix
<1>14. CASE /\ last = r.required_count /\ target = 0
            /\ root' = [counted EXCEPT !.phase = "completed"]
  <2> DEFINE s == [counted EXCEPT !.phase = "completed"]
  <2>1. /\ s \in RootType /\ s.phase = "completed"
        /\ s.required_count = counted.required_count
        /\ s.processed_count = counted.processed_count
        /\ s.target_winners = counted.target_winners
        /\ s.prefix = counted.prefix /\ s.remaining_rank = counted.remaining_rank
        /\ s.emitted_count = counted.emitted_count
    BY <1>8 DEF RootType
  <2> HIDE DEF s
  <2>2. ShapedRoot(s, order)  BY <1>9, <2>1 DEF ShapedRoot
  <2>3. AtEnd(s, E, wanted)  BY <1>10, <1>12, <1>14, <2>1 DEF AtEnd, AtAggregation
  <2>4. SelectionInv(s, order, E, wanted)  BY <2>2, <2>3 DEF SelectionInv
  <2> QED  BY <1>14, <2>4 DEF s
<1> QED  BY <1>1, <1>11, <1>13, <1>14

(***************************************************************************)
(* Counting the next digit.                                                *)
(***************************************************************************)
LEMMA BucketsAdd ==
    ASSUME NEW r, NEW K \in SUBSET Candidates, NEW D \in SUBSET Candidates, K \cap D = {},
           NEW d
    PROVE  Cardinality(InBucket(r, K \cup D, d)) =
               Cardinality(InBucket(r, K, d)) + Cardinality(InBucket(r, D, d))
<1>1. /\ InBucket(r, K \cup D, d) = InBucket(r, K, d) \cup InBucket(r, D, d)
      /\ InBucket(r, K, d) \cap InBucket(r, D, d) = {}
      /\ InBucket(r, K, d) \in SUBSET Candidates /\ InBucket(r, D, d) \in SUBSET Candidates
  BY DEF InBucket, Matching
<1> QED  BY <1>1, DisjointCount

LEMMA RecordedKeys ==
    ASSUME NEW r \in RootType, NEW D \in SUBSET Candidates
    PROVE  \E h \in HistogramType :
               /\ RecordRadixKeys(r, D) = [r EXCEPT !.histogram = h]
               /\ \A d \in Digit : h[d] = r.histogram[d] + Cardinality(InBucket(r, D, d))
<1> DEFINE h == [d \in Digit |-> r.histogram[d] + Cardinality(InBucket(r, D, d))]
<1>1. \A d : InBucket(r, D, d) =
          {w \in {v \in D : MatchesPrefix(r, r.seed[v])} : r.seed[w][Len(r.prefix) + 1] = d}
  BY DEF InBucket, Matching, NextDigit
<1>2. RecordRadixKeys(r, D) = [r EXCEPT !.histogram = h]  BY <1>1 DEF RecordRadixKeys
<1>3. h \in HistogramType
  <2>1. \A d \in Digit : Cardinality(InBucket(r, D, d)) \in Nat
    <3>1. \A d \in Digit : InBucket(r, D, d) \in SUBSET Candidates
      BY DEF InBucket, Matching
    <3> QED  BY <3>1, CandidateCount
  <2> QED  BY <2>1, RootFields DEF HistogramType
<1> QED  BY <1>2, <1>3

LEMMA PassFinished ==
    ASSUME NEW order, NEW E, Listed(order, E), NEW wanted,
           NEW r, ShapedRoot(r, order), AtRadix(r, order, E, wanted),
           E \cap Walked(r, order) = E, Reaching(r) # {}
    PROVE  SelectionInv(FinishRadixPass(r), order, E, wanted)
<1> DEFINE d    == Min(Reaching(r))
           x    == Append(r.prefix, d)
           y    == Max({0, r.remaining_rank - (Through(r, d) - r.histogram[d])})
           next == [r EXCEPT !.prefix = x, !.remaining_rank = y]
           z    == IF r.histogram[d] = 1 \/ Len(next.prefix) = KeyLen
                   THEN "resolving" ELSE "radix"
           s    == FinishRadixPass(r)
<1>1. s = ResetPass([next EXCEPT !.phase = z])  BY DEF FinishRadixPass
<1>2. /\ r \in RootType /\ Ranked(r, E) /\ Len(r.prefix) < KeyLen /\ E \in SUBSET Candidates
      /\ \A e \in Digit : r.histogram[e] = Cardinality(InBucket(r, E, e))
      /\ r.threshold_key = NoKey /\ r.emitted_count = 0
  <2>1. /\ r \in RootType /\ Ranked(r, E) /\ Len(r.prefix) < KeyLen
        /\ r.threshold_key = NoKey /\ r.emitted_count = 0
    BY DEF ShapedRoot, AtRadix
  <2>2. E \in SUBSET Candidates  BY DEF Listed
  <2>3. \A e \in Digit : r.histogram[e] = Cardinality(InBucket(r, E, e))  BY DEF AtRadix
  <2> QED  BY <2>1, <2>2, <2>3
<1>3. next.prefix = x  BY <1>2 DEF RootType
<1> HIDE DEF x, y, z, s
<1>4. s = [r EXCEPT !.prefix = x, !.remaining_rank = y, !.phase = z,
                    !.processed_count = 0, !.histogram = NoHistogram]
  BY <1>1, <1>2 DEF ResetPass, RootType
<1>5. /\ s.phase = z /\ s.prefix = x /\ s.remaining_rank = y /\ s.processed_count = 0
      /\ s.histogram = NoHistogram /\ s.seed = r.seed /\ s.target_winners = r.target_winners
      /\ s.required_count = r.required_count /\ s.threshold_key = r.threshold_key
      /\ s.emitted_count = r.emitted_count
  BY <1>2, <1>4 DEF RootType
<1>6. /\ Ranked(s, E) /\ s.remaining_rank <= r.remaining_rank
      /\ Len(s.prefix) = Len(r.prefix) + 1
      /\ r.histogram[d] = Cardinality(Matching(s, E))
  <2>1. s.prefix = Append(r.prefix, Min(Reaching(r)))  BY <1>5 DEF x
  <2>2. s.remaining_rank =
            Max({0, r.remaining_rank - (Through(r, Min(Reaching(r)))
                                            - r.histogram[Min(Reaching(r))])})
    BY <1>5 DEF y
  <2>3. s.seed = r.seed /\ s.target_winners = r.target_winners  BY <1>5
  <2> QED  BY <1>2, <2>1, <2>2, <2>3, FinishPassRanked
<1>7. z = IF Cardinality(Matching(s, E)) = 1 \/ Len(s.prefix) = KeyLen
          THEN "resolving" ELSE "radix"
  BY <1>3, <1>5, <1>6 DEF z
<1> HIDE DEF d, next
<1>8. NoHistogram \in HistogramType /\ \A e \in Digit : NoHistogram[e] = 0
  BY DEF NoHistogram, HistogramType
<1>9. s \in RootType /\ s.prefix \in Seq(Digit) /\ Len(s.prefix) <= KeyLen
  <2>1. x \in Seq(Digit) /\ y \in Nat /\ Len(s.prefix) <= KeyLen
    BY <1>5, <1>6 DEF Ranked, Prefixed
  <2>2. z \in {"resolving", "radix"}  BY <1>7
  <2> QED  BY <1>2, <1>4, <1>5, <1>8, <2>1, <2>2 DEF RootType
<1>10. ShapedRoot(s, order)
  <2>1. /\ r.required_count \in Nat /\ r.remaining_rank \in Nat /\ r.target_winners \in Nat
        /\ s.remaining_rank \in Nat
    BY <1>2, <1>9, RootFields
  <2> QED  BY <1>5, <1>6, <1>9, <2>1 DEF ShapedRoot
<1>11. Seeded(s, E, wanted)  BY <1>5 DEF AtRadix, Seeded
<1>12. Walked(s, order) = {}  BY <1>5, NothingWalked
<1>13. CASE z = "radix"
  <2>1. Len(s.prefix) < KeyLen
    <3>1. Len(s.prefix) # KeyLen /\ Len(s.prefix) <= KeyLen /\ Len(s.prefix) \in Nat
      BY <1>7, <1>9, <1>13
    <3> QED  BY <3>1, SelectionAssumption
  <2>2. \A e \in Digit : s.histogram[e] = Cardinality(InBucket(s, E \cap Walked(s, order), e))
    <3>1. E \cap Walked(s, order) = {}  BY <1>12
    <3>2. \A e : InBucket(s, {}, e) = {}  BY DEF InBucket, Matching
    <3> QED  BY <1>5, <1>8, <3>1, <3>2, FS_EmptySet
  <2>3. AtRadix(s, order, E, wanted)
    BY <1>2, <1>5, <1>6, <1>11, <1>13, <2>1, <2>2 DEF AtRadix
  <2> QED  BY <1>10, <2>3 DEF SelectionInv, s
<1>14. CASE z = "resolving"
  <2>1. \E t : Matching(s, E) = {t}
    <3>1. Prefixed(s) /\ Matching(s, E) \in SUBSET Candidates
      BY <1>2, <1>6, MatchingApart DEF Ranked
    <3>2. CASE Cardinality(Matching(s, E)) = 1
      BY <3>1, <3>2, CandidateCount, FS_Singleton
    <3>3. CASE Len(s.prefix) = KeyLen
      <4>1. Matching(s, E) # {}
        <5>1. Cardinality(Matching(s, E)) # 0 BY <3>1, <1>6, CandidateCount DEF Ranked
        <5> QED  BY <5>1, FS_EmptySet
      <4>2. PICK t : t \in Matching(s, E)  BY <4>1
      <4>3. \A v \in Matching(s, E) : v = t  BY <1>2, <3>1, <3>3, <4>2, WholeKey
      <4> QED  BY <4>2, <4>3
    <3> QED  BY <1>7, <1>14, <3>2, <3>3
  <2>2. PICK t : Matching(s, E) = {t}  BY <2>1
  <2>3. s.threshold_key = IF t \in Walked(s, order) THEN s.seed[t] ELSE NoKey
    BY <1>2, <1>5, <1>12
  <2>4. s.phase = "resolving" /\ s.emitted_count = 0  BY <1>2, <1>5, <1>14
  <2>5. AtResolution(s, order, E, wanted)
    BY <1>6, <1>11, <2>2, <2>3, <2>4 DEF AtResolution
  <2> QED  BY <1>10, <2>5 DEF SelectionInv, s
<1> QED  BY <1>7, <1>13, <1>14

\* what a chunk of the counting passes leaves, before the pass is finished
LEMMA DigitsAreCounted ==
    ASSUME NEW order, NEW E, Listed(order, E), NEW wanted \in Nat,
           NEW r, SelectionInv(r, order, E, wanted), NEW last, InPass(r, last),
           r.phase = "radix", NEW D, D = Chunk(order, r, last) \cap E
    PROVE  LET counted == DigitsCounted(r, D, last) IN
           /\ counted.prefix = r.prefix /\ counted.processed_count = last
           /\ ShapedRoot(counted, order) /\ AtRadix(counted, order, E, wanted)
           /\ last = r.required_count => E \cap Walked(counted, order) = E
<1> DEFINE C == Chunk(order, r, last)
           p == Processed(r, last)
           counted == DigitsCounted(r, D, last)
<1>1. r.phase = "radix" /\ counted = RecordRadixKeys(p, C \cap E)  BY DEF DigitsCounted
<1> HIDE DEF counted
<1>2. ShapedRoot(r, order) /\ AtRadix(r, order, E, wanted) /\ r \in RootType
  BY <1>1 DEF SelectionInv, AtAggregation, AtResolution, AtEmission, AtEnd, ShapedRoot
<1>3. p = [r EXCEPT !.processed_count = last]  BY DEF Processed
<1>4. p.processed_count = last  BY <1>2, <1>3 DEF RootType
<1> HIDE DEF p
<1>5. /\ last \in Nat /\ last <= Len(order) /\ Len(order) \in Nat
      /\ E \in SUBSET Candidates
      /\ Walked(p, order) = Walked(r, order) \cup C
      /\ Walked(r, order) \cap C = {}
      /\ last = Len(order) => E \cap Walked(p, order) = E
  <2>1. r.processed_count \in Nat /\ r.required_count = Len(order)
    BY <1>2, RootFields DEF ShapedRoot
  <2> QED  BY <1>4, <2>1, ChunkWalks
<1>6. /\ p \in RootType /\ p.phase = "radix" /\ p.required_count = r.required_count
      /\ p.target_winners = r.target_winners /\ p.seed = r.seed
      /\ p.prefix = r.prefix /\ p.remaining_rank = r.remaining_rank
      /\ p.histogram = r.histogram
      /\ p.threshold_key = r.threshold_key /\ p.emitted_count = r.emitted_count
  BY <1>1, <1>2, <1>3, <1>5 DEF RootType
<1>7. C \cap E \in SUBSET Candidates  BY <1>5
<1>8. PICK h \in HistogramType :
          /\ counted = [p EXCEPT !.histogram = h]
          /\ \A d \in Digit : h[d] = p.histogram[d] + Cardinality(InBucket(p, C \cap E, d))
  BY <1>1, <1>6, <1>7, RecordedKeys
<1> HIDE DEF C
<1>9. /\ counted \in RootType /\ counted.phase = "radix"
      /\ counted.required_count = r.required_count /\ counted.processed_count = last
      /\ counted.target_winners = r.target_winners /\ counted.seed = r.seed
      /\ counted.prefix = r.prefix /\ counted.remaining_rank = r.remaining_rank
      /\ counted.histogram = h
      /\ counted.threshold_key = r.threshold_key /\ counted.emitted_count = r.emitted_count
  BY <1>4, <1>6, <1>8 DEF RootType
<1>10. ShapedRoot(counted, order)  BY <1>2, <1>5, <1>9 DEF ShapedRoot
<1>11. Walked(counted, order) = Walked(p, order)  BY <1>4, <1>9 DEF Walked
<1>12. \A d \in Digit :
           counted.histogram[d] =
               Cardinality(InBucket(counted, E \cap Walked(counted, order), d))
  <2>0. PICK W : W = E \cap Walked(p, order)  OBVIOUS
  <2>00. \A d : InBucket(counted, W, d) = InBucket(r, W, d)
    <3>1. counted.seed = r.seed /\ counted.prefix = r.prefix  BY <1>9
    <3> QED  BY <3>1, SamePrefix
  <2> SUFFICES ASSUME NEW d \in Digit
               PROVE  h[d] = Cardinality(InBucket(r, E \cap Walked(p, order), d))
    BY <1>9, <1>11, <2>0, <2>00
  <2> DEFINE K == E \cap Walked(r, order)
  <2>1. /\ K \in SUBSET Candidates /\ K \cap (C \cap E) = {}
        /\ E \cap Walked(p, order) = K \cup (C \cap E)
    BY <1>5
  <2>2. r.histogram[d] = Cardinality(InBucket(r, K, d))  BY <1>2 DEF AtRadix
  <2>3. InBucket(p, C \cap E, d) = InBucket(r, C \cap E, d)  BY <1>6, SamePrefix
  <2> HIDE DEF K
  <2>4. h[d] = Cardinality(InBucket(r, K, d)) + Cardinality(InBucket(r, C \cap E, d))
    BY <1>6, <1>8, <2>2, <2>3
  <2> QED  BY <1>7, <2>1, <2>4, BucketsAdd
<1>13. Ranked(counted, E)
  <2>1. Ranked(r, E)  BY <1>2 DEF AtRadix
  <2> QED  BY <1>9, <2>1, SamePrefix DEF Ranked, Prefixed
<1>14. AtRadix(counted, order, E, wanted)
  BY <1>2, <1>9, <1>12, <1>13 DEF AtRadix, Seeded
<1>15. last = r.required_count => E \cap Walked(counted, order) = E
  BY <1>2, <1>5, <1>11 DEF ShapedRoot
<1> QED  BY <1>9, <1>10, <1>14, <1>15 DEF counted

LEMMA CountDigitsKeeps ==
    ASSUME NEW order, NEW E, Listed(order, E), NEW wanted \in Nat,
           NEW r, SelectionInv(r, order, E, wanted), NEW last, InPass(r, last),
           CountDigits(r, Chunk(order, r, last), Chunk(order, r, last) \cap E, last)
    PROVE  SelectionInv(root', order, E, wanted)
<1> DEFINE counted == DigitsCounted(r, Chunk(order, r, last) \cap E, last)
<1>1. /\ r.phase = "radix"
      /\ \/ last < r.required_count /\ root' = counted
         \/ /\ last = r.required_count /\ Reaching(counted) # {}
            /\ root' = FinishRadixPass(counted)
  BY DEF CountDigits, MayCountDigits
<1> HIDE DEF counted
<1>2. /\ ShapedRoot(counted, order) /\ AtRadix(counted, order, E, wanted)
      /\ last = r.required_count => E \cap Walked(counted, order) = E
  BY <1>1, DigitsAreCounted DEF counted
<1>3. CASE last < r.required_count /\ root' = counted
  BY <1>2, <1>3 DEF SelectionInv
<1>4. CASE /\ last = r.required_count /\ Reaching(counted) # {}
           /\ root' = FinishRadixPass(counted)
  BY <1>2, <1>4, PassFinished
<1> QED  BY <1>1, <1>3, <1>4

(***************************************************************************)
(* Resolving the one key that is left.                                     *)
(***************************************************************************)
LEMMA BeginsEmission ==
    ASSUME NEW order, NEW E, Listed(order, E), NEW wanted,
           NEW r, ShapedRoot(r, order), AtResolution(r, order, E, wanted),
           r.threshold_key # NoKey
    PROVE  SelectionInv(ResetPass([r EXCEPT !.phase = "emitting", !.emitted_count = 0]),
                        order, E, wanted)
<1> DEFINE s == ResetPass([r EXCEPT !.phase = "emitting", !.emitted_count = 0])
<1>1. r \in RootType /\ Seeded(r, E, wanted) /\ Ranked(r, E) /\ E \in SUBSET Candidates
  <2>1. E \in SUBSET Candidates  BY DEF Listed
  <2> QED  BY <2>1 DEF AtResolution, ShapedRoot
<1>2. PICK t : /\ Matching(r, E) = {t} /\ r.threshold_key = r.seed[t]
  BY DEF AtResolution
<1>3. NoHistogram \in HistogramType  BY DEF NoHistogram, HistogramType
<1>4. s = [r EXCEPT !.phase = "emitting", !.emitted_count = 0, !.processed_count = 0,
                    !.histogram = NoHistogram]
  BY <1>1 DEF ResetPass, RootType
<1> HIDE DEF s
<1>5. /\ s \in RootType /\ s.phase = "emitting" /\ s.emitted_count = 0
      /\ s.processed_count = 0 /\ s.required_count = r.required_count
      /\ s.target_winners = r.target_winners /\ s.seed = r.seed
      /\ s.prefix = r.prefix /\ s.remaining_rank = r.remaining_rank
      /\ s.threshold_key = r.threshold_key
  BY <1>1, <1>3, <1>4 DEF RootType
<1>6. ShapedRoot(s, order)
  <2>1. r.required_count \in Nat /\ r.target_winners \in Nat  BY <1>1, RootFields
  <2> QED  BY <1>5, <2>1 DEF ShapedRoot
<1>7. Found(s, E, wanted)
  <2>1. Cardinality(UpTo(E, r.seed, r.seed[t])) = r.target_winners
    BY <1>1, <1>2, LastKeyIsThreshold
  <2>2. t \in E  BY <1>2 DEF Matching
  <2>3. Seeded(s, E, wanted)  BY <1>1, <1>5 DEF Seeded
  <2> QED  BY <1>2, <1>5, <2>1, <2>2, <2>3 DEF Found
<1>8. Cardinality({w \in E \cap Walked(s, order) : Wins(s, w)}) = 0
  <2>1. {w \in E \cap Walked(s, order) : Wins(s, w)} = {}  BY <1>5, NothingWalked
  <2> QED  BY <2>1, FS_EmptySet
<1>9. AtEmission(s, order, E, wanted)  BY <1>5, <1>7, <1>8 DEF AtEmission
<1> QED  BY <1>6, <1>9 DEF SelectionInv, s

\* what a chunk of the resolving pass leaves, before the pass is finished
LEMMA KeyIsResolved ==
    ASSUME NEW order, NEW E, Listed(order, E), NEW wanted \in Nat,
           NEW r, SelectionInv(r, order, E, wanted), NEW last, InPass(r, last),
           r.phase = "resolving",
           NEW D, D = Chunk(order, r, last) \cap E
    PROVE  LET next == KeyResolved(r, D, last) IN
           /\ next.processed_count = last /\ next.prefix = r.prefix
           /\ ShapedRoot(next, order) /\ AtResolution(next, order, E, wanted)
           /\ Hits(r, D) # {} => r.threshold_key = NoKey /\ Cardinality(Hits(r, D)) = 1
           /\ last = r.required_count => next.threshold_key # NoKey
<1> DEFINE C == Chunk(order, r, last)
           hits  == Hits(r, D)
           found == IF hits = {} THEN r.threshold_key ELSE r.seed[CHOOSE w \in hits : TRUE]
           next  == KeyResolved(r, D, last)
<1>2. ShapedRoot(r, order) /\ AtResolution(r, order, E, wanted) /\ r \in RootType
  BY DEF SelectionInv, AtAggregation, AtRadix, AtEmission, AtEnd, ShapedRoot
<1>3. PICK t : /\ Matching(r, E) = {t}
               /\ r.threshold_key = IF t \in Walked(r, order) THEN r.seed[t] ELSE NoKey
  BY <1>2 DEF AtResolution
<1>4. hits = {t} \cap C  BY <1>3 DEF Matching, Hits
<1> HIDE DEF C, hits
<1>5. /\ t \in C => found = r.seed[t]
      /\ t \notin C => found = r.threshold_key
  <2>1. ASSUME t \in C  PROVE found = r.seed[t]
    <3>1. hits = {t}  BY <1>4, <2>1
    <3>2. (CHOOSE w \in hits : TRUE) \in {t}  BY <3>1
    <3> QED  BY <3>1, <3>2
  <2>2. ASSUME t \notin C  PROVE found = r.threshold_key  BY <1>4, <2>2
  <2> QED  BY <2>1, <2>2
<1> HIDE DEF found
<1>6. /\ last \in Nat /\ last <= Len(order) /\ Len(order) \in Nat
      /\ E \in SUBSET Candidates
      /\ \A s : s.processed_count = last =>
            Walked(s, order) = Walked(r, order) \cup C
  <2>1. r.processed_count \in Nat /\ r.required_count = Len(order)
    BY <1>2, RootFields DEF ShapedRoot
  <2>2. ASSUME NEW s, s.processed_count = last
        PROVE  /\ last \in Nat /\ last <= Len(order) /\ Len(order) \in Nat
               /\ E \in SUBSET Candidates
               /\ Walked(s, order) = Walked(r, order) \cup C
    BY <2>1, <2>2, ChunkWalks DEF C
  <2>3. [processed_count |-> last].processed_count = last  OBVIOUS
  <2> QED  BY <2>2, <2>3
<1>7. found \in Keys \cup {NoKey} /\ r.threshold_key \in Keys \cup {NoKey}
  <2>1. t \in Candidates  BY <1>3, <1>6 DEF Matching
  <2>2. r.seed[t] \in Keys  BY <1>2, <2>1, KeyOfCandidate DEF AtResolution, Seeded
  <2> QED  BY <1>2, <1>5, <2>2, RootFields
<1>8. next = [r EXCEPT !.processed_count = last, !.threshold_key = found]
  BY <1>2 DEF KeyResolved, Processed, RootType, found, hits
<1> HIDE DEF next
<1>9. /\ next \in RootType /\ next.phase = "resolving" /\ next.threshold_key = found
      /\ next.processed_count = last /\ next.required_count = r.required_count
      /\ next.target_winners = r.target_winners /\ next.seed = r.seed
      /\ next.prefix = r.prefix /\ next.remaining_rank = r.remaining_rank
      /\ next.emitted_count = r.emitted_count
  BY <1>2, <1>6, <1>7, <1>8 DEF RootType
<1>10. ShapedRoot(next, order)  BY <1>2, <1>6, <1>9 DEF ShapedRoot
<1>11. AtResolution(next, order, E, wanted)
  <2>1. Ranked(next, E)
    <3>1. Ranked(r, E)  BY <1>2 DEF AtResolution
    <3> QED  BY <1>9, <3>1, SamePrefix DEF Ranked, Prefixed
  <2>2. Matching(next, E) = {t}  BY <1>3, <1>9, SamePrefix
  <2>3. next.threshold_key = IF t \in Walked(next, order) THEN next.seed[t] ELSE NoKey
    BY <1>3, <1>5, <1>6, <1>9
  <2>4. Seeded(next, E, wanted)  BY <1>2, <1>9 DEF AtResolution, Seeded
  <2>5. next.emitted_count = 0  BY <1>2, <1>9 DEF AtResolution
  <2> QED  BY <1>9, <2>1, <2>2, <2>3, <2>4, <2>5 DEF AtResolution
<1>12. hits # {} => r.threshold_key = NoKey /\ Cardinality(hits) = 1
  <2> SUFFICES ASSUME hits # {}  PROVE r.threshold_key = NoKey /\ Cardinality(hits) = 1
    OBVIOUS
  <2>1. t \in C /\ hits = {t}  BY <1>4
  <2>2. t \notin Walked(r, order)
    <3>1. Walked(r, order) \cap C = {}
      <4>1. r.processed_count \in Nat /\ r.required_count = Len(order)
        BY <1>2, RootFields DEF ShapedRoot
      <4> QED  BY <1>9, <4>1, ChunkWalks DEF C
    <3> QED  BY <2>1, <3>1
  <2> QED  BY <1>3, <2>1, <2>2, FS_Singleton
<1>13. last = r.required_count => found # NoKey
  <2> SUFFICES ASSUME last = r.required_count  PROVE found # NoKey
    OBVIOUS
  <2>1. t \in E /\ t \in Candidates  BY <1>3, <1>6 DEF Matching
  <2>2. t \in Walked(next, order)
    <3>1. Len(order) = last  BY <1>2 DEF ShapedRoot
    <3>2. DOMAIN order = 1..last  BY <3>1 DEF Listed
    <3> QED  BY <1>9, <2>1, <3>2 DEF Listed, Walked
  <2>3. found = r.seed[t]  BY <1>3, <1>5, <1>6, <1>9, <2>2
  <2>4. r.seed[t] \in Keys  BY <1>2, <2>1, KeyOfCandidate DEF AtResolution, Seeded
  <2> QED  BY <2>3, <2>4, KeyIsNotEmpty
<1> QED  BY <1>9, <1>10, <1>11, <1>12, <1>13 DEF hits, next

LEMMA ResolveKeeps ==
    ASSUME NEW order, NEW E, Listed(order, E), NEW wanted \in Nat,
           NEW r, SelectionInv(r, order, E, wanted), NEW last, InPass(r, last),
           Resolve(r, Chunk(order, r, last), Chunk(order, r, last) \cap E, last)
    PROVE  SelectionInv(root', order, E, wanted)
<1> DEFINE D    == Chunk(order, r, last) \cap E
           next == KeyResolved(r, D, last)
<1>1. /\ r.phase = "resolving"
      /\ \/ root' = next
         \/ /\ last = r.required_count
            /\ root' = ResetPass([next EXCEPT !.phase = "emitting", !.emitted_count = 0])
  BY DEF Resolve, MayResolve
<1> HIDE DEF D, next
<1>2. /\ ShapedRoot(next, order) /\ AtResolution(next, order, E, wanted)
      /\ last = r.required_count => next.threshold_key # NoKey
  BY <1>1, KeyIsResolved DEF D, next
<1>3. CASE root' = next  BY <1>2, <1>3 DEF SelectionInv
<1>4. CASE /\ last = r.required_count
           /\ root' = ResetPass([next EXCEPT !.phase = "emitting", !.emitted_count = 0])
  BY <1>2, <1>4, BeginsEmission
<1> QED  BY <1>1, <1>3, <1>4

(***************************************************************************)
(* Counting the winners.                                                   *)
(***************************************************************************)
\* what a chunk of the last pass leaves, before the pass is finished
LEMMA WinnersAreCounted ==
    ASSUME NEW order, NEW E, Listed(order, E), NEW wanted \in Nat,
           NEW r, SelectionInv(r, order, E, wanted), NEW last, InPass(r, last),
           r.phase = "emitting",
           NEW D, D = Chunk(order, r, last) \cap E
    PROVE  LET next == WinnersCounted(r, D, last) IN
           /\ next.processed_count = last /\ next.prefix = r.prefix
           /\ next \in RootType /\ ShapedRoot(next, order)
           /\ AtEmission(next, order, E, wanted)
           /\ last = r.required_count => next.emitted_count = r.target_winners
<1> DEFINE C == Chunk(order, r, last)
           won == {w \in C \cap E : Wins(r, w)}
           next == WinnersCounted(r, D, last)
<1>2. ShapedRoot(r, order) /\ AtEmission(r, order, E, wanted) /\ r \in RootType
  BY DEF SelectionInv, AtAggregation, AtRadix, AtResolution, AtEnd, ShapedRoot
<1>3. next.processed_count = last  BY <1>2 DEF WinnersCounted, Processed, RootType
<1> HIDE DEF next
<1>4. /\ last \in Nat /\ last <= Len(order) /\ Len(order) \in Nat
      /\ E \in SUBSET Candidates
      /\ Walked(next, order) = Walked(r, order) \cup C
      /\ Walked(r, order) \cap C = {}
  <2>1. r.processed_count \in Nat /\ r.required_count = Len(order)
    BY <1>2, RootFields DEF ShapedRoot
  <2> QED  BY <1>3, <2>1, ChunkWalks
<1> DEFINE Winning(s) == {w \in E \cap Walked(s, order) : Wins(r, w)}
           n == r.emitted_count + Cardinality(won)
<1>5. n = Cardinality(Winning(next)) /\ n \in Nat
  <2>1. /\ Winning(next) = Winning(r) \cup won /\ Winning(r) \cap won = {}
        /\ Winning(r) \in SUBSET Candidates /\ won \in SUBSET Candidates
    BY <1>4
  <2>2. r.emitted_count = Cardinality(Winning(r))  BY <1>2 DEF AtEmission
  <2> HIDE DEF Winning, won
  <2> QED  BY <2>1, <2>2, DisjointCount, CandidateCount
<1>6. next = [r EXCEPT !.processed_count = last, !.emitted_count = n]
  BY <1>2 DEF next, WinnersCounted, Processed, RootType
<1> HIDE DEF n
<1>7. /\ next \in RootType /\ next.phase = "emitting" /\ next.emitted_count = n
      /\ next.required_count = r.required_count
      /\ next.target_winners = r.target_winners /\ next.seed = r.seed
      /\ next.prefix = r.prefix /\ next.remaining_rank = r.remaining_rank
      /\ next.threshold_key = r.threshold_key
  BY <1>2, <1>4, <1>5, <1>6 DEF RootType
<1>8. n <= r.target_winners
  <2>1. PICK t \in E : /\ r.threshold_key = r.seed[t]
                       /\ Cardinality(UpTo(E, r.seed, r.seed[t])) = r.target_winners
    BY <1>2 DEF AtEmission, Found
  <2>2. /\ UpTo(E, r.seed, r.seed[t]) \in SUBSET Candidates
        /\ Winning(next) \in SUBSET UpTo(E, r.seed, r.seed[t])
    BY <1>4, <2>1 DEF UpTo, Wins
  <2> QED  BY <1>5, <2>1, <2>2, SubCount
<1>9. ShapedRoot(next, order)  BY <1>2, <1>3, <1>4, <1>7, <1>8 DEF ShapedRoot
<1>10. Found(next, E, wanted)
  BY <1>2, <1>7 DEF AtEmission, Found, Seeded
<1>11. AtEmission(next, order, E, wanted)
  <2>1. Winning(next) = {w \in E \cap Walked(next, order) : Wins(next, w)}
    BY <1>7 DEF Wins
  <2> QED  BY <1>5, <1>7, <1>10, <2>1 DEF AtEmission
<1>12. last = r.required_count => n = r.target_winners
  <2> SUFFICES ASSUME last = r.required_count  PROVE n = r.target_winners
    OBVIOUS
  <2>1. PICK t \in E : /\ r.threshold_key = r.seed[t]
                       /\ Cardinality(UpTo(E, r.seed, r.seed[t])) = r.target_winners
    BY <1>2 DEF AtEmission, Found
  <2>2. E \cap Walked(next, order) = E
    <3>1. r.processed_count \in Nat /\ r.required_count = Len(order)
      BY <1>2, RootFields DEF ShapedRoot
    <3> QED  BY <1>3, <3>1, ChunkWalks
  <2>3. Winning(next) = UpTo(E, r.seed, r.seed[t])  BY <2>1, <2>2 DEF UpTo, Wins
  <2> QED  BY <1>5, <2>1, <2>3
<1> QED  BY <1>3, <1>7, <1>9, <1>11, <1>12 DEF next

LEMMA EmitKeeps ==
    ASSUME NEW order, NEW E, Listed(order, E), NEW wanted \in Nat,
           NEW r, SelectionInv(r, order, E, wanted), NEW last, InPass(r, last),
           Emit(r, Chunk(order, r, last), Chunk(order, r, last) \cap E, last)
    PROVE  SelectionInv(root', order, E, wanted)
<1> DEFINE D    == Chunk(order, r, last) \cap E
           next == WinnersCounted(r, D, last)
<1>1. /\ r.phase = "emitting"
      /\ root' = next \/ root' = [next EXCEPT !.phase = "completed"]
  BY DEF Emit, MayEmit
<1> HIDE DEF D, next
<1>2. /\ next \in RootType /\ ShapedRoot(next, order)
      /\ AtEmission(next, order, E, wanted)
  BY <1>1, WinnersAreCounted DEF D, next
<1>3. CASE root' = next  BY <1>2, <1>3 DEF SelectionInv
<1>4. CASE root' = [next EXCEPT !.phase = "completed"]
  <2> DEFINE s == [next EXCEPT !.phase = "completed"]
  <2>1. /\ s \in RootType /\ s.phase = "completed" /\ s.emitted_count = next.emitted_count
        /\ s.required_count = next.required_count
        /\ s.processed_count = next.processed_count
        /\ s.target_winners = next.target_winners /\ s.seed = next.seed
        /\ s.prefix = next.prefix /\ s.remaining_rank = next.remaining_rank
        /\ s.threshold_key = next.threshold_key
    BY <1>2 DEF RootType
  <2> HIDE DEF s
  <2>2. ShapedRoot(s, order)  BY <1>2, <2>1 DEF ShapedRoot
  <2>3. AtEnd(s, E, wanted)  BY <1>2, <2>1 DEF AtEnd, AtEmission, Found, Seeded
  <2>4. SelectionInv(s, order, E, wanted)  BY <2>2, <2>3 DEF SelectionInv
  <2> QED  BY <1>4, <2>4 DEF s
<1> QED  BY <1>1, <1>3, <1>4

------------------------------------------------------------------------------
(***************************************************************************)
(* One FinalizeWinners transaction, and what the invariant says of the     *)
(* winners.                                                                *)
(***************************************************************************)
LEMMA ChunkKeeps ==
    ASSUME NEW order, NEW E, Listed(order, E), NEW wanted \in Nat,
           NEW r, SelectionInv(r, order, E, wanted), NEW last, NEW seed,
           SelectChunk(r, order, E, last, wanted, seed)
    PROVE  SelectionInv(root', order, E, wanted)
<1> DEFINE C == Chunk(order, r, last)
<1>1. /\ InPass(r, last)
      /\ \/ Aggregate(r, C, C \cap E, last, wanted, seed)
         \/ CountDigits(r, C, C \cap E, last)
         \/ Resolve(r, C, C \cap E, last)
         \/ Emit(r, C, C \cap E, last)
  BY DEF SelectChunk
<1>2. CASE Aggregate(r, C, C \cap E, last, wanted, seed)  BY <1>1, <1>2, AggregateKeeps
<1>3. CASE CountDigits(r, C, C \cap E, last)  BY <1>1, <1>3, CountDigitsKeeps
<1>4. CASE Resolve(r, C, C \cap E, last)  BY <1>1, <1>4, ResolveKeeps
<1>5. CASE Emit(r, C, C \cap E, last)  BY <1>1, <1>5, EmitKeeps
<1> QED  BY <1>1, <1>2, <1>3, <1>4, <1>5

LEMMA FoundAreSmallest ==
    ASSUME NEW r, NEW E \in SUBSET Candidates, NEW wanted, Found(r, E, wanted)
    PROVE  /\ {w \in E : Wins(r, w)} =
                  Smallest(E, Min({wanted, Cardinality(E)}), r.seed)
           /\ Cardinality({w \in E : Wins(r, w)}) = r.target_winners
<1>1. PICK t \in E : /\ r.threshold_key = r.seed[t]
                     /\ Cardinality(UpTo(E, r.seed, r.seed[t])) = r.target_winners
  BY DEF Found
<1>2. {w \in E : Wins(r, w)} = UpTo(E, r.seed, r.seed[t])  BY <1>1 DEF Wins, UpTo
<1>3. /\ r.seed \in Seeds /\ r.target_winners = Min({wanted, Cardinality(E)})
  BY DEF Found, Seeded
<1>4. UpTo(E, r.seed, r.seed[t]) =
          Smallest(E, Cardinality(UpTo(E, r.seed, r.seed[t])), r.seed)
  BY <1>3, RankIsSmallest
<1> QED  BY <1>1, <1>2, <1>3, <1>4

LEMMA PassNumberNat ==
    ASSUME NEW r \in RootType
    PROVE  PassNumber(r) \in Nat
<1>1. Len(r.prefix) \in Nat  BY RootFields
<1> QED  BY <1>1 DEF PassNumber

LEMMA StampsKept ==
    ASSUME NEW r \in RootType, NEW order, NEW E, NEW last, NEW wanted, NEW seed,
           SelectChunk(r, order, E, last, wanted, seed),
           stamp \in [Candidates -> StampType]
    PROVE  stamp' \in [Candidates -> StampType]
<1> DEFINE C == Chunk(order, r, last)
<1>1. \/ Aggregate(r, C, C \cap E, last, wanted, seed)
      \/ CountDigits(r, C, C \cap E, last)
      \/ Resolve(r, C, C \cap E, last)
      \/ Emit(r, C, C \cap E, last)
  BY DEF SelectChunk
<1>2. CASE Aggregate(r, C, C \cap E, last, wanted, seed)
  <2>1. stamp' = [w \in Candidates |->
            IF w \in C THEN [stamp[w] EXCEPT !.finalized = TRUE] ELSE stamp[w]]
    BY <1>2 DEF Aggregate
  <2> QED  BY <2>1 DEF StampType
<1>3. CASE stamp' = Visited(r, C)
  <2>1. PassNumber(r) \in Nat  BY PassNumberNat
  <2> QED  BY <1>3, <2>1 DEF Visited, StampType
<1> QED  BY <1>1, <1>2, <1>3 DEF CountDigits, Resolve, Emit

(***************************************************************************)
(* No chunk is refused.  The marks in the participants' accounts are of    *)
(* earlier passes, except for those already walked in this one: passes     *)
(* have growing numbers.                                                   *)
(***************************************************************************)
Passing == {"radix", "resolving", "emitting"}

Marked(marks, r, order) ==
    /\ marks \in [Candidates -> StampType]
    /\ r.phase # "completed" => r.processed_count < r.required_count
    /\ r.phase = "aggregating" =>
          /\ \A w \in Candidates : marks[w].pass = 0
          /\ \A i \in (r.processed_count + 1)..Len(order) : ~marks[order[i]].finalized
    /\ r.phase \in Passing =>
          /\ \A w \in Candidates : marks[w].pass <= PassNumber(r)
          /\ \A i \in (r.processed_count + 1)..Len(order) :
                marks[order[i]].pass < PassNumber(r)

LEMMA NewMarks ==
    ASSUME NEW order, NEW E, Listed(order, E), order # << >>
    PROVE  Marked([w \in Candidates |-> NoStamp], NewRoot(Len(order)), order)
<1>1. Len(order) \in Nat /\ Len(order) > 0 /\ \A i \in 1..Len(order) : order[i] \in Candidates
  BY DEF Listed
<1>2. /\ NewRoot(Len(order)).phase = "aggregating"
      /\ NewRoot(Len(order)).processed_count = 0
      /\ NewRoot(Len(order)).required_count = Len(order)
  BY DEF NewRoot, NoRoot
<1>3. NoStamp \in StampType /\ NoStamp.pass = 0 /\ ~NoStamp.finalized
  BY DEF NoStamp, StampType
<1> QED  BY <1>1, <1>2, <1>3 DEF Marked, Passing

\* the number of a pass, in the phases that have one
LEMMA PassNumbers ==
    ASSUME NEW order, NEW E, NEW wanted, NEW r, SelectionInv(r, order, E, wanted)
    PROVE  /\ Len(r.prefix) \in Nat /\ PassNumber(r) \in Nat
           /\ r.phase \in Passing => PassNumber(r) > 0
           /\ r.phase = "radix" =>
                 PassNumber(r) = Len(r.prefix) + 1 /\ PassNumber(r) <= 999
           /\ r.phase = "resolving" => PassNumber(r) >= 1000 /\ PassNumber(r) <= 1999
           /\ r.phase = "emitting" => PassNumber(r) = 2000
<1>1. Len(r.prefix) \in Nat /\ Len(r.prefix) <= KeyLen
  BY RootFields DEF SelectionInv, ShapedRoot
<1>2. r.phase = "radix" => Len(r.prefix) < KeyLen
  BY DEF SelectionInv, AtAggregation, AtRadix, AtResolution, AtEmission, AtEnd
<1>3. /\ r.phase = "radix" => PassNumber(r) = Len(r.prefix) + 1
      /\ r.phase = "resolving" => PassNumber(r) = 1000 + Len(r.prefix)
      /\ r.phase = "emitting" => PassNumber(r) = 2000
  BY DEF PassNumber
<1>4. PICK n \in Nat : n = Len(r.prefix) /\ n <= KeyLen /\ (r.phase = "radix" => n < KeyLen)
  BY <1>1, <1>2
<1>5. n \in Nat /\ n <= 999 /\ (r.phase = "radix" => n < 999)
  <2>1. KeyLen \in Nat /\ KeyLen <= 999  BY SelectionAssumption
  <2> QED  BY <1>4, <2>1
<1>6. PassNumber(r) \in Nat  BY PassNumberNat DEF SelectionInv, ShapedRoot
<1> QED  BY <1>3, <1>4, <1>5, <1>6 DEF Passing

\* a chunk either goes on with its pass, or begins the next, or ends the selection
GoesOn(r, s, last) ==
    /\ s.phase = r.phase /\ s.prefix = r.prefix
    /\ s.processed_count = last /\ last < r.required_count

Begins(r, s) ==
    /\ s.phase \in Passing
    /\ s.processed_count = 0
    /\ r.phase = "aggregating" \/ PassNumber(r) < PassNumber(s)

LEMMA ResetFields ==
    ASSUME NEW r \in RootType
    PROVE  /\ ResetPass(r).phase = r.phase /\ ResetPass(r).prefix = r.prefix
           /\ ResetPass(r).processed_count = 0
BY DEF ResetPass, RootType

LEMMA FinishFields ==
    ASSUME NEW r \in RootType, Reaching(r) # {}
    PROVE  /\ FinishRadixPass(r).phase \in {"radix", "resolving"}
           /\ Len(FinishRadixPass(r).prefix) = Len(r.prefix) + 1
           /\ FinishRadixPass(r).processed_count = 0
<1> DEFINE d == Min(Reaching(r))
           x == Append(r.prefix, d)
           y == Max({0, r.remaining_rank - (Through(r, d) - r.histogram[d])})
           next == [r EXCEPT !.prefix = x, !.remaining_rank = y]
           z    == IF r.histogram[d] = 1 \/ Len(next.prefix) = KeyLen
                   THEN "resolving" ELSE "radix"
<1>1. FinishRadixPass(r) = ResetPass([next EXCEPT !.phase = z])  BY DEF FinishRadixPass
<1>2. z \in {"radix", "resolving"}  OBVIOUS
<1>3. Len(x) = Len(r.prefix) + 1
  <2>1. r.prefix \in Seq(Digit)  BY RootFields
  <2>2. d \in Digit
    <3>1. Reaching(r) \in SUBSET Nat  BY SelectionAssumption DEF Reaching, Digit
    <3>2. d \in Reaching(r)  BY <3>1, MinOfSet
    <3> QED  BY <3>2 DEF Reaching
  <2> HIDE DEF d
  <2> QED  BY <2>1, <2>2
<1> HIDE DEF x, y, z
<1>4. FinishRadixPass(r) = [r EXCEPT !.prefix = x, !.remaining_rank = y, !.phase = z,
                                     !.processed_count = 0, !.histogram = NoHistogram]
  BY <1>1 DEF ResetPass, RootType
<1> QED  BY <1>2, <1>3, <1>4 DEF RootType

LEMMA PassGoesOn ==
    ASSUME NEW order, NEW E, Listed(order, E), NEW wanted \in Nat,
           NEW r, SelectionInv(r, order, E, wanted), NEW last, NEW seed,
           SelectChunk(r, order, E, last, wanted, seed)
    PROVE  GoesOn(r, root', last) \/ Begins(r, root') \/ root'.phase = "completed"
<1> DEFINE C == Chunk(order, r, last)
           D == C \cap E
<1>1. /\ InPass(r, last)
      /\ \/ Aggregate(r, C, D, last, wanted, seed)
         \/ CountDigits(r, C, D, last)
         \/ Resolve(r, C, D, last)
         \/ Emit(r, C, D, last)
  BY DEF SelectChunk
<1>2. r \in RootType /\ SelectionInv(root', order, E, wanted)
  BY ChunkKeeps DEF SelectionInv, ShapedRoot
<1>3. CASE Aggregate(r, C, D, last, wanted, seed)
  <2> DEFINE n       == r.eligible_count + Cardinality(D)
             counted == [Processed(r, last) EXCEPT !.eligible_count = @ + Cardinality(D)]
             target  == Min({wanted, counted.eligible_count})
  <2>1. /\ r.phase = "aggregating"
        /\ \/ last < r.required_count /\ root' = counted
           \/ root' = BeginRadix(counted, seed, target)
           \/ root' = [counted EXCEPT !.phase = "completed"]
    BY <1>3 DEF Aggregate, MayAggregate
  <2>2. counted = [r EXCEPT !.processed_count = last, !.eligible_count = n]
    BY <1>2 DEF Processed, RootType
  <2> HIDE DEF counted, target, n
  <2>3. CASE last < r.required_count /\ root' = counted
    BY <1>2, <2>2, <2>3 DEF GoesOn, RootType
  <2>4. CASE root' = BeginRadix(counted, seed, target)
    <3>1. root'.phase = "radix" /\ root'.processed_count = 0
      BY <1>2, <2>2, <2>4 DEF BeginRadix, ResetPass, RootType
    <3> QED  BY <2>1, <3>1 DEF Begins, Passing
  <2>5. CASE root' = [counted EXCEPT !.phase = "completed"]
    BY <1>2, <2>2, <2>5 DEF RootType
  <2> QED  BY <2>1, <2>3, <2>4, <2>5
<1>4. CASE CountDigits(r, C, D, last)
  <2> DEFINE counted == DigitsCounted(r, D, last)
  <2>1. /\ r.phase = "radix"
        /\ \/ last < r.required_count /\ root' = counted
           \/ Reaching(counted) # {} /\ root' = FinishRadixPass(counted)
    BY <1>4 DEF CountDigits, MayCountDigits
  <2> HIDE DEF counted
  <2>2. /\ counted.prefix = r.prefix /\ counted.processed_count = last
        /\ counted.phase = "radix" /\ counted \in RootType
    <3>1. /\ counted.prefix = r.prefix /\ counted.processed_count = last
          /\ ShapedRoot(counted, order) /\ AtRadix(counted, order, E, wanted)
      BY <1>1, <2>1, DigitsAreCounted DEF counted
    <3> QED  BY <3>1 DEF AtRadix, ShapedRoot
  <2>3. CASE last < r.required_count /\ root' = counted
    BY <2>1, <2>2, <2>3 DEF GoesOn
  <2>4. CASE Reaching(counted) # {} /\ root' = FinishRadixPass(counted)
    <3>1. /\ root'.phase \in {"radix", "resolving"} /\ root'.processed_count = 0
          /\ Len(root'.prefix) = Len(r.prefix) + 1
      BY <2>2, <2>4, FinishFields
    <3>2. PassNumber(r) < PassNumber(root')
      <4>1. PassNumber(r) = Len(r.prefix) + 1 /\ Len(r.prefix) \in Nat
            /\ PassNumber(r) <= 999
        BY <2>1, PassNumbers
      <4>2. \/ PassNumber(root') = Len(root'.prefix) + 1
            \/ PassNumber(root') >= 1000
        BY <1>2, <3>1, PassNumbers
      <4>3. PassNumber(root') \in Nat  BY <1>2, PassNumbers
      <4> QED  BY <3>1, <4>1, <4>2, <4>3
    <3> QED  BY <3>1, <3>2 DEF Begins, Passing
  <2> QED  BY <2>1, <2>3, <2>4
<1>5. CASE Resolve(r, C, D, last)
  <2> DEFINE next == KeyResolved(r, D, last)
             s    == [next EXCEPT !.phase = "emitting", !.emitted_count = 0]
  <2>1. /\ r.phase = "resolving"
        /\ \/ last < r.required_count /\ root' = next
           \/ root' = ResetPass(s)
    BY <1>5 DEF Resolve, MayResolve
  <2> HIDE DEF next
  <2>2. /\ next.prefix = r.prefix /\ next.processed_count = last
        /\ next.phase = "resolving" /\ next \in RootType
    BY <1>1, <2>1, KeyIsResolved DEF next, AtResolution, ShapedRoot
  <2>3. CASE last < r.required_count /\ root' = next
    BY <2>1, <2>2, <2>3 DEF GoesOn
  <2>4. CASE root' = ResetPass(s)
    <3>1. s \in RootType /\ s.phase = "emitting"  BY <2>2 DEF RootType
    <3> HIDE DEF s
    <3>2. root'.phase = "emitting" /\ root'.processed_count = 0
      BY <2>4, <3>1, ResetFields
    <3>3. PassNumber(r) < PassNumber(root')
      <4>1. PassNumber(r) <= 1999  BY <2>1, PassNumbers
      <4>2. PassNumber(root') = 2000  BY <1>2, <3>2, PassNumbers
      <4>3. PassNumber(r) \in Nat  BY <1>2, PassNumberNat
      <4> QED  BY <4>1, <4>2, <4>3
    <3> QED  BY <3>2, <3>3 DEF Begins, Passing
  <2> QED  BY <2>1, <2>3, <2>4
<1>6. CASE Emit(r, C, D, last)
  <2> DEFINE next == WinnersCounted(r, D, last)
  <2>1. /\ r.phase = "emitting"
        /\ \/ last < r.required_count /\ root' = next
           \/ root' = [next EXCEPT !.phase = "completed"]
    BY <1>6 DEF Emit, MayEmit
  <2> HIDE DEF next
  <2>2. /\ next.prefix = r.prefix /\ next.processed_count = last
        /\ next.phase = "emitting" /\ next \in RootType
    <3>1. /\ next.prefix = r.prefix /\ next.processed_count = last
          /\ next \in RootType /\ AtEmission(next, order, E, wanted)
      BY <1>1, <2>1, WinnersAreCounted DEF next
    <3> QED  BY <3>1 DEF AtEmission
  <2>3. CASE last < r.required_count /\ root' = next
    BY <2>1, <2>2, <2>3 DEF GoesOn
  <2>4. CASE root' = [next EXCEPT !.phase = "completed"]
    BY <2>2, <2>4 DEF RootType
  <2> QED  BY <2>1, <2>3, <2>4
<1> QED  BY <1>1, <1>3, <1>4, <1>5, <1>6

LEMMA MarksKept ==
    ASSUME NEW order, NEW E, Listed(order, E), NEW wanted \in Nat,
           NEW r, SelectionInv(r, order, E, wanted), NEW last, NEW seed,
           Marked(stamp, r, order),
           SelectChunk(r, order, E, last, wanted, seed)
    PROVE  Marked(stamp', root', order)
<1> DEFINE C == Chunk(order, r, last)
<1>1. /\ InPass(r, last)
      /\ \/ Aggregate(r, C, C \cap E, last, wanted, seed)
         \/ CountDigits(r, C, C \cap E, last)
         \/ Resolve(r, C, C \cap E, last)
         \/ Emit(r, C, C \cap E, last)
  BY DEF SelectChunk
<1>2. /\ r \in RootType /\ SelectionInv(root', order, E, wanted)
      /\ r.required_count = Len(order) /\ root'.required_count = Len(order)
      /\ r.processed_count \in Nat /\ Len(order) \in Nat
  BY ChunkKeeps, RootFields DEF SelectionInv, ShapedRoot
<1>3. stamp' \in [Candidates -> StampType]  BY <1>2, StampsKept DEF Marked
<1>4. /\ last \in Nat /\ r.processed_count < last /\ last <= Len(order)
  BY <1>1, <1>2 DEF InPass
<1>5. /\ DOMAIN order = 1..Len(order)
      /\ \A i \in 1..Len(order) : order[i] \in Candidates
      /\ \A i \in (last + 1)..Len(order) :
            /\ i \in 1..Len(order) /\ i \in (r.processed_count + 1)..Len(order)
            /\ order[i] \in Candidates /\ order[i] \notin C
  <2>1. /\ DOMAIN order = 1..Len(order)
        /\ \A i \in DOMAIN order : order[i] \in Candidates
    BY DEF Listed
  <2>2. ASSUME NEW i \in (last + 1)..Len(order)
        PROVE  /\ i \in 1..Len(order) /\ i \in (r.processed_count + 1)..Len(order)
               /\ order[i] \notin C
    <3>1. i \in 1..Len(order) /\ i \in (r.processed_count + 1)..Len(order)
      BY <1>2, <1>4
    <3>2. \A j \in (r.processed_count + 1)..last : j \in 1..Len(order) /\ j # i
      BY <1>2, <1>4
    <3> QED  BY <2>1, <3>1, <3>2 DEF Chunk, Listed
  <2> QED  BY <2>1, <2>2
<1>6. CASE r.phase = "aggregating"
  <2>1. stamp' = [w \in Candidates |->
            IF w \in C THEN [stamp[w] EXCEPT !.finalized = TRUE] ELSE stamp[w]]
    BY <1>1, <1>6 DEF Aggregate, CountDigits, Resolve, Emit, MayCountDigits, MayResolve,
                      MayEmit
  <2> HIDE DEF C
  <2>2. /\ \A w \in Candidates : stamp[w].pass = 0
        /\ \A i \in (r.processed_count + 1)..Len(order) : ~stamp[order[i]].finalized
    BY <1>6 DEF Marked
  <2>3. \A w \in Candidates : stamp'[w].pass = 0
    BY <2>1, <2>2 DEF Marked, StampType
  <2>4. CASE GoesOn(r, root', last)
    <3>1. \A i \in (last + 1)..Len(order) : ~stamp'[order[i]].finalized
      BY <1>5, <2>1, <2>2
    <3> QED  BY <1>2, <1>3, <1>6, <2>3, <2>4, <3>1 DEF Marked, GoesOn, Passing
  <2>5. CASE Begins(r, root')
    <3>1. PassNumber(root') \in Nat /\ PassNumber(root') > 0
      BY <1>2, <2>5, PassNumbers DEF Begins
    <3>2. \A w \in Candidates : stamp'[w].pass < PassNumber(root')
      BY <2>3, <3>1
    <3>3. root'.phase \in Passing /\ root'.phase # "aggregating"
      BY <2>5 DEF Begins, Passing
    <3>4. root'.processed_count < root'.required_count
      BY <1>2, <1>4, <2>5 DEF Begins
    <3>5. \A i \in (root'.processed_count + 1)..Len(order) : order[i] \in Candidates
      BY <1>5, <2>5 DEF Begins
    <3>6. \A w \in Candidates : stamp'[w].pass <= PassNumber(root')
      BY <1>3, <3>1, <3>2 DEF StampType
    <3> QED  BY <1>3, <3>2, <3>3, <3>4, <3>5, <3>6 DEF Marked
  <2>6. CASE root'.phase = "completed"  BY <1>3, <2>6 DEF Marked, Passing
  <2> QED  BY <2>4, <2>5, <2>6, PassGoesOn
<1>7. CASE r.phase # "aggregating"
  <2>1. r.phase \in Passing /\ stamp' = Visited(r, C)
    BY <1>1, <1>7 DEF Aggregate, CountDigits, Resolve, Emit, MayAggregate, MayCountDigits,
                      MayResolve, MayEmit, Passing
  <2> HIDE DEF C
  <2>2. /\ \A w \in Candidates : stamp[w].pass <= PassNumber(r) /\ stamp[w].pass \in Nat
        /\ \A i \in (r.processed_count + 1)..Len(order) : stamp[order[i]].pass < PassNumber(r)
    BY <2>1 DEF Marked, StampType
  <2>3. PassNumber(r) \in Nat  BY <1>2, PassNumberNat
  <2>4. \A w \in Candidates :
            stamp'[w].pass = IF w \in C THEN PassNumber(r) ELSE stamp[w].pass
    BY <2>1 DEF Visited, Marked, StampType
  <2>5. \A w \in Candidates : stamp'[w].pass <= PassNumber(r) /\ stamp'[w].pass \in Nat
    BY <2>2, <2>3, <2>4
  <2>6. CASE GoesOn(r, root', last)
    <3>1. \A i \in (last + 1)..Len(order) : stamp'[order[i]].pass < PassNumber(r)
      BY <1>5, <2>2, <2>4
    <3>2. PassNumber(root') = PassNumber(r)  BY <2>6 DEF GoesOn, PassNumber
    <3> QED  BY <1>2, <1>3, <1>7, <2>5, <2>6, <3>1, <3>2 DEF Marked, GoesOn
  <2>7. CASE Begins(r, root')
    <3>1. PassNumber(r) < PassNumber(root') /\ PassNumber(root') \in Nat
      <4>1. PassNumber(root') \in Nat  BY <1>2, PassNumbers
      <4> QED  BY <1>7, <2>7, <4>1 DEF Begins
    <3>2. \A w \in Candidates : stamp'[w].pass < PassNumber(root')
      BY <2>3, <2>5, <3>1
    <3>3. root'.phase \in Passing /\ root'.phase # "aggregating"
      BY <2>7 DEF Begins, Passing
    <3>4. root'.processed_count < root'.required_count
      BY <1>2, <1>4, <2>7 DEF Begins
    <3>5. \A i \in (root'.processed_count + 1)..Len(order) : order[i] \in Candidates
      BY <1>5, <2>7 DEF Begins
    <3>6. \A w \in Candidates : stamp'[w].pass <= PassNumber(root')
      BY <1>3, <3>1, <3>2 DEF StampType
    <3> QED  BY <1>3, <3>2, <3>3, <3>4, <3>5, <3>6 DEF Marked
  <2>8. CASE root'.phase = "completed"  BY <1>3, <2>8 DEF Marked, Passing
  <2> QED  BY <2>6, <2>7, <2>8, PassGoesOn
<1> QED  BY <1>6, <1>7

\* the buckets of a finished pass hold all the keys with the prefix
LEMMA RankIsReached ==
    ASSUME NEW r, NEW E \in SUBSET Candidates, Ranked(r, E), Len(r.prefix) < KeyLen,
           \A d \in Digit : r.histogram[d] = Cardinality(InBucket(r, E, d))
    PROVE  Reaching(r) # {}
<1> DEFINE d == Base - 1
<1>1. d \in Digit /\ \A x \in Digit : x <= d  BY SelectionAssumption DEF Digit
<1>2. Prefixed(r) /\ r.remaining_rank \in 1..Cardinality(Matching(r, E))  BY DEF Ranked
<1>3. Matching(r, E) \in SUBSET Candidates  BY <1>2, MatchingApart
<1>4. \A w \in Matching(r, E) : NextDigit(r, w) \in Digit
  <2>1. Len(r.prefix) + 1 \in 1..KeyLen  BY <1>2, PrefixFacts, SelectionAssumption
  <2> QED  BY <1>2, <1>3, <2>1, PrefixFacts DEF NextDigit
<1> HIDE DEF d
<1>5. Through(r, d) = Cardinality(UpToBucket(r, E, d))  BY <1>1, <1>4, BucketsThrough
<1>6. UpToBucket(r, E, d) = Matching(r, E)  BY <1>1, <1>4 DEF UpToBucket
<1>7. r.remaining_rank <= Through(r, d)  BY <1>2, <1>3, <1>5, <1>6, CandidateCount
<1> QED  BY <1>1, <1>7 DEF Reaching

LEMMA ChunkAccepted ==
    ASSUME NEW order, NEW E, Listed(order, E), NEW wanted \in Nat,
           NEW r, SelectionInv(r, order, E, wanted), Marked(stamp, r, order),
           r.phase # "completed"
    PROVE  /\ r.processed_count < Len(order)
           /\ \A last \in (r.processed_count + 1)..Len(order) :
                 MaySelect(r, order, E, last)
<1>1. /\ r \in RootType /\ r.required_count = Len(order)
      /\ r.processed_count \in Nat /\ Len(order) \in Nat
  BY RootFields DEF SelectionInv, ShapedRoot
<1>2. r.processed_count < Len(order)  BY <1>1 DEF Marked
<1> SUFFICES ASSUME NEW last \in (r.processed_count + 1)..Len(order)
             PROVE  MaySelect(r, order, E, last)
  BY <1>2
<1> DEFINE C == Chunk(order, r, last)
           D == C \cap E
<1>3. InPass(r, last)  BY <1>1 DEF InPass
<1>4. \A w \in C : \E i \in (r.processed_count + 1)..Len(order) : w = order[i]
  BY <1>1 DEF Chunk
<1>5. r.phase \in Passing => Unvisited(r, C)
  <2> SUFFICES ASSUME r.phase \in Passing, NEW w \in C
               PROVE  stamp[w].pass # PassNumber(r)
    BY DEF Unvisited
  <2>1. stamp[w].pass < PassNumber(r)  BY <1>4 DEF Marked
  <2>2. w \in Candidates
    <3>1. \A i \in 1..Len(order) : order[i] \in Candidates  BY DEF Listed
    <3> QED  BY <1>1, <1>4, <3>1
  <2>3. stamp[w].pass \in Nat /\ PassNumber(r) \in Nat
    BY <1>1, <2>2, PassNumberNat DEF Marked, StampType
  <2> QED  BY <2>1, <2>3
<1>6. CASE r.phase = "aggregating"
  <2>1. MayAggregate(r, C)  BY <1>4, <1>6 DEF MayAggregate, Marked
  <2> QED  BY <1>3, <2>1 DEF MaySelect
<1>7. CASE r.phase = "radix"
  <2> DEFINE counted == DigitsCounted(r, D, last)
  <2>1. /\ counted.prefix = r.prefix /\ AtRadix(counted, order, E, wanted)
        /\ last = r.required_count => E \cap Walked(counted, order) = E
    BY <1>3, <1>7, DigitsAreCounted
  <2> HIDE DEF counted
  <2>2. E \in SUBSET Candidates  BY DEF Listed
  <2>3. ASSUME last = r.required_count
        PROVE  counted.remaining_rank > 0 /\ Reaching(counted) # {}
    <3>1. Ranked(counted, E) /\ Len(counted.prefix) < KeyLen  BY <2>1 DEF AtRadix
    <3>2. \A d \in Digit : counted.histogram[d] = Cardinality(InBucket(counted, E, d))
      BY <2>1, <2>3 DEF AtRadix
    <3>3. Reaching(counted) # {}  BY <2>2, <3>1, <3>2, RankIsReached
    <3>4. counted.remaining_rank > 0  BY <3>1 DEF Ranked
    <3> QED  BY <3>3, <3>4
  <2>4. MayCountDigits(r, C, D, last)
    BY <1>5, <1>7, <2>3 DEF MayCountDigits, Passing, counted
  <2> QED  BY <1>3, <2>4 DEF MaySelect
<1>8. CASE r.phase = "resolving"
  <2>1. /\ Hits(r, D) # {} => r.threshold_key = NoKey /\ Cardinality(Hits(r, D)) = 1
        /\ last = r.required_count => KeyResolved(r, D, last).threshold_key # NoKey
    BY <1>3, <1>8, KeyIsResolved
  <2>2. MayResolve(r, C, D, last)  BY <1>5, <1>8, <2>1 DEF MayResolve, Passing
  <2> QED  BY <1>3, <2>2 DEF MaySelect
<1>9. CASE r.phase = "emitting"
  <2>1. PICK n : n = last  OBVIOUS
  <2>2. n = r.required_count =>
            WinnersCounted(r, Chunk(order, r, n) \cap E, n).emitted_count = r.target_winners
    <3>1. InPass(r, n)  BY <1>3, <2>1
    <3> QED  BY <1>9, <3>1, WinnersAreCounted
  <2>3. MayEmit(r, C, D, last)  BY <1>5, <1>9, <2>1, <2>2 DEF MayEmit, Passing
  <2> QED  BY <1>3, <2>3 DEF MaySelect
<1> QED
  BY <1>6, <1>7, <1>8, <1>9
     DEF SelectionInv, AtAggregation, AtRadix, AtResolution, AtEmission, AtEnd
================================================================================
