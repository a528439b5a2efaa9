-------------------------- MODULE PromptGuardProofs --------------------------
(***************************************************************************)
(* Theorems about PhraseChecks and PromptGuard for all requests, texts,    *)
(* models and window sizes: that the checks find what the reference says   *)
(* of a text, how windows cover a text, what an empty answer means and     *)
(* who holds a classifier.                                                 *)
(***************************************************************************)
EXTENDS PromptGuard, FiniteSetTheorems, TLAPS

-----------------------------------------------------------------------------
(* The k-th position of S is its only member with k members up to it.      *)
LEMMA PositionsAreOrdered ==
  ASSUME NEW n \in Nat, NEW S \in SUBSET (1..n)
  PROVE  /\ Cardinality(S) \in Nat
         /\ \A k \in 1..Cardinality(S) : Position(S, k) \in S
         /\ \A i \in S : \E k \in 1..Cardinality(S) : Position(S, k) = i
         /\ \A k, l \in 1..Cardinality(S) : k < l <=> Position(S, k) < Position(S, l)
<1> DEFINE m == Cardinality(S)
           rank == [i \in S |-> Cardinality(S \cap 1..i)]
<1>1. IsFiniteSet(S) /\ m \in Nat /\ \A i \in S : i \in 1..n
  <2>1. IsFiniteSet(1..n)
    BY FS_Interval
  <2> QED
    BY <2>1, FS_Subset, FS_CardinalityType
<1>2. \A i \in S : IsFiniteSet(S \cap 1..i) /\ S \cap 1..i \subseteq S
  BY <1>1, FS_Subset
<1>3. \A i \in S : rank[i] \in 1..m
  <2> TAKE i \in S
  <2>1. Cardinality(S \cap 1..i) <= m
    BY <1>1, <1>2, FS_Subset
  <2>2. Cardinality(S \cap 1..i) \in Nat
    BY <1>2, FS_CardinalityType
  <2>3. i \in S \cap 1..i
    BY <1>1
  <2>4. Cardinality(S \cap 1..i) # 0
    BY <1>2, <2>3, FS_EmptySet
  <2> QED
    BY <1>1, <2>1, <2>2, <2>4
<1>4. \A i, j \in S : i < j => rank[i] < rank[j]
  <2> SUFFICES ASSUME NEW i \in S, NEW j \in S, i < j PROVE rank[i] < rank[j]
    OBVIOUS
  <2>1. S \cap 1..i \subseteq S \cap 1..j
    BY <1>1
  <2>2. j \in S \cap 1..j /\ j \notin S \cap 1..i
    BY <1>1
  <2>3. /\ Cardinality(S \cap 1..i) <= Cardinality(S \cap 1..j)
        /\ Cardinality(S \cap 1..j) = Cardinality(S \cap 1..i) => S \cap 1..j = S \cap 1..i
    BY <1>2, <2>1, FS_Subset
  <2> QED
    BY <1>3, <2>2, <2>3
<1>5. \A i, j \in S : i # j => rank[i] # rank[j]
  BY <1>1, <1>3, <1>4
<1>6. rank \in Surjection(S, 1..m)
  <2>1. rank \in Injection(S, 1..m)
    BY <1>3, <1>5 DEF Injection, IsInjective
  <2>2. IsFiniteSet(1..m) /\ Cardinality(1..m) = m
    BY <1>1, FS_Interval
  <2> QED
    BY <2>1, <2>2, FS_Injection
<1>7. \A k \in 1..m : Position(S, k) \in S /\ rank[Position(S, k)] = k
  <2> TAKE k \in 1..m
  <2>1. PICK i \in S : rank[i] = k
    BY <1>6 DEF Surjection
  <2> QED
    BY <2>1 DEF Position
<1>8. \A i \in S : rank[i] \in 1..m /\ Position(S, rank[i]) = i
  BY <1>3, <1>5, <1>7
<1>9. \A k, l \in 1..m : k < l <=> Position(S, k) < Position(S, l)
  <2> TAKE k, l \in 1..m
  <2> DEFINE i == Position(S, k)
             j == Position(S, l)
  <2>1. i \in S /\ j \in S /\ rank[i] = k /\ rank[j] = l
    BY <1>7
  <2> HIDE DEF rank, i, j
  <2>2. i < j => k < l
    BY <1>4, <2>1
  <2>3. j < i => l < k
    BY <1>4, <2>1
  <2>4. i \in Nat /\ j \in Nat /\ k \in Nat /\ l \in Nat
    BY <1>1, <2>1
  <2>5. i = j => k = l
    BY <2>1
  <2> QED
    BY <2>2, <2>3, <2>4, <2>5 DEF i, j
<1> QED
  BY <1>1, <1>7, <1>8, <1>9

(* No position of S lies between i and j.                                  *)
NoneBetween(S, i, j) == i < j /\ \A q \in S : ~(i < q /\ q < j)

(* What stands beside each other after compaction has nothing kept between.*)
LEMMA Neighbours ==
  ASSUME NEW n \in Nat, NEW S \in SUBSET (1..n)
  PROVE  /\ \A k \in 1..Cardinality(S) : k + 1 \in 1..Cardinality(S) =>
              NoneBetween(S, Position(S, k), Position(S, k + 1))
         /\ \A i, j \in S : NoneBetween(S, i, j) =>
              \E k \in 1..Cardinality(S) :
                 k + 1 \in 1..Cardinality(S) /\ Position(S, k) = i /\ Position(S, k + 1) = j
<1> DEFINE m == Cardinality(S)
           P(k) == Position(S, k)
<1>0. \A i \in S : i \in Nat
  OBVIOUS
<1>1. /\ m \in Nat /\ \A k \in 1..m : P(k) \in S /\ P(k) \in Nat
      /\ \A i \in S : \E k \in 1..m : P(k) = i
      /\ \A k, l \in 1..m : k < l <=> P(k) < P(l)
  <2> HIDE DEF P
  <2> QED
    BY <1>0, PositionsAreOrdered DEF P
<1> HIDE DEF m, P
<1>2. ASSUME NEW k \in 1..m, k + 1 \in 1..m
      PROVE  NoneBetween(S, P(k), P(k + 1))
  <2>1. P(k) < P(k + 1)
    BY <1>1, <1>2
  <2>2. ASSUME NEW i \in S, P(k) < i, i < P(k + 1) PROVE FALSE
    <3>1. PICK l \in 1..m : P(l) = i
      BY <1>1
    <3>2. k < l /\ l < k + 1
      BY <1>1, <1>2, <2>2, <3>1
    <3> QED
      BY <1>1, <3>2
  <2> QED
    BY <2>1, <2>2 DEF NoneBetween
<1>3. ASSUME NEW i \in S, NEW j \in S, NoneBetween(S, i, j)
      PROVE  \E k \in 1..m : k + 1 \in 1..m /\ P(k) = i /\ P(k + 1) = j
  <2>1. PICK k \in 1..m, l \in 1..m : P(k) = i /\ P(l) = j
    BY <1>1
  <2>2. k < l /\ k + 1 \in 1..m /\ k < k + 1
    BY <1>1, <1>3, <2>1 DEF NoneBetween
  <2>3. P(k + 1) \in S /\ P(k) < P(k + 1)
    BY <1>1, <2>2
  <2>4. ~(k + 1 < l)
    BY <1>1, <1>3, <2>1, <2>2, <2>3 DEF NoneBetween
  <2> QED
    BY <1>1, <2>1, <2>2, <2>4
<1> QED
  BY <1>2, <1>3 DEF m, P

LEMMA OccurrencesOfTwo ==
  ASSUME NEW words, NEW m \in Nat, DOMAIN words = 1..m, Len(words) = m, NEW a, NEW b,
         NEW k \in 1..m
  PROVE  OccursAt(<<a, b>>, words, k) <=>
               k + 1 \in 1..m /\ words[k] = a /\ words[k + 1] = b
<1>1. Len(<<a, b>>) = 2 /\ <<a, b>>[1] = a /\ <<a, b>>[2] = b
  OBVIOUS
<1>2. 1..2 = {1, 2} /\ k + 1 - 1 = k /\ k + 2 - 1 = k + 1
  OBVIOUS
<1>3. k + 1 \in 1..m <=> k + 1 <= m
  OBVIOUS
<1> QED
  BY <1>1, <1>2, <1>3 DEF OccursAt

LEMMA OccurrencesOfThree ==
  ASSUME NEW words, NEW m \in Nat, DOMAIN words = 1..m, Len(words) = m, NEW a, NEW b, NEW c,
         NEW k \in 1..m
  PROVE  OccursAt(<<a, b, c>>, words, k) <=>
               k + 2 \in 1..m /\ words[k] = a /\ words[k + 1] = b /\ words[k + 2] = c
<1>1. /\ Len(<<a, b, c>>) = 3 /\ <<a, b, c>>[1] = a /\ <<a, b, c>>[2] = b
      /\ <<a, b, c>>[3] = c
  OBVIOUS
<1>2. 1..3 = {1, 2, 3} /\ k + 1 - 1 = k /\ k + 2 - 1 = k + 1 /\ k + 3 - 1 = k + 2
  OBVIOUS
<1>3. k + 2 \in 1..m <=> k + 2 <= m
  OBVIOUS
<1> QED
  BY <1>1, <1>2, <1>3 DEF OccursAt

HasWord(words, a) == \E k \in DOMAIN words : words[k] = a

(* What words say at the positions S.                                      *)
KeepsWord(words, S, a) == \E i \in S : words[i] = a
KeepsPair(words, S, a, b) ==
  \E i, j \in S : words[i] = a /\ words[j] = b /\ NoneBetween(S, i, j)
KeepsTriple(words, S, a, b, c) ==
  \E h, i, j \in S : /\ words[h] = a /\ words[i] = b /\ words[j] = c
                     /\ NoneBetween(S, h, i) /\ NoneBetween(S, i, j)

LEMMA CompactedWords ==
  ASSUME NEW words, NEW n \in Nat, NEW S \in SUBSET (1..n)
  PROVE  /\ Cardinality(S) \in Nat
         /\ DOMAIN Compacted(words, S) = 1..Cardinality(S)
         /\ Len(Compacted(words, S)) = Cardinality(S)
         /\ \A k \in 1..Cardinality(S) : /\ Position(S, k) \in S
                                         /\ Compacted(words, S)[k] = words[Position(S, k)]
         /\ \A i \in S : \E k \in 1..Cardinality(S) : Position(S, k) = i
<1>1. Cardinality(S) \in Nat /\ \A k \in 1..Cardinality(S) : Position(S, k) \in S
  BY PositionsAreOrdered
<1>2. \A i \in S : \E k \in 1..Cardinality(S) : Position(S, k) = i
  BY PositionsAreOrdered
<1> QED
  BY <1>1, <1>2 DEF Compacted

LEMMA WordInCompacted ==
  ASSUME NEW words, NEW n \in Nat, NEW S \in SUBSET (1..n), NEW a
  PROVE  HasWord(Compacted(words, S), a) <=> KeepsWord(words, S, a)
<1> DEFINE r == Compacted(words, S)
           m == Cardinality(S)
<1>1. /\ DOMAIN r = 1..m /\ \A k \in 1..m : Position(S, k) \in S /\ r[k] = words[Position(S, k)]
      /\ \A i \in S : \E k \in 1..m : Position(S, k) = i
  BY CompactedWords
<1> HIDE DEF r, m
<1>2. ASSUME NEW i \in S, words[i] = a PROVE \E k \in DOMAIN r : r[k] = a
  BY <1>1, <1>2
<1> QED
  BY <1>1, <1>2 DEF r, HasWord, KeepsWord

LEMMA PairInCompacted ==
  ASSUME NEW words, NEW n \in Nat, NEW S \in SUBSET (1..n), NEW a, NEW b
  PROVE  PhraseIsInWords(<<a, b>>, Compacted(words, S)) <=> KeepsPair(words, S, a, b)
<1> DEFINE r == Compacted(words, S)
           m == Cardinality(S)
<1>1. /\ m \in Nat /\ DOMAIN r = 1..m /\ Len(r) = m
      /\ \A k \in 1..m : Position(S, k) \in S /\ r[k] = words[Position(S, k)]
  BY CompactedWords
<1>2. \A k \in 1..m : k + 1 \in 1..m => NoneBetween(S, Position(S, k), Position(S, k + 1))
  BY Neighbours
<1>3. \A i, j \in S : NoneBetween(S, i, j) =>
        \E k \in 1..m : k + 1 \in 1..m /\ Position(S, k) = i /\ Position(S, k + 1) = j
  BY Neighbours
<1> HIDE DEF r, m
<1>4. PhraseIsInWords(<<a, b>>, r) <=>
        \E k \in 1..m : k + 1 \in 1..m /\ r[k] = a /\ r[k + 1] = b
  <2>1. \A k \in 1..m : OccursAt(<<a, b>>, r, k) <=>
           k + 1 \in 1..m /\ r[k] = a /\ r[k + 1] = b
    BY <1>1, OccurrencesOfTwo
  <2> QED
    BY <1>1, <2>1 DEF PhraseIsInWords
<1>5. ASSUME NEW k \in 1..m, k + 1 \in 1..m, r[k] = a, r[k + 1] = b
      PROVE  \E i, j \in S : words[i] = a /\ words[j] = b /\ NoneBetween(S, i, j)
  BY <1>1, <1>2, <1>5
<1>6. ASSUME NEW i \in S, NEW j \in S, words[i] = a, words[j] = b, NoneBetween(S, i, j)
      PROVE  \E k \in 1..m : k + 1 \in 1..m /\ r[k] = a /\ r[k + 1] = b
  <2>1. PICK k \in 1..m : k + 1 \in 1..m /\ Position(S, k) = i /\ Position(S, k + 1) = j
    BY <1>3, <1>6
  <2> QED
    BY <1>1, <1>6, <2>1
<1> QED
  BY <1>4, <1>5, <1>6 DEF r, KeepsPair

(* Three words, of which the first two and the last two are neighbours.    *)
LEMMA TripleInCompacted ==
  ASSUME NEW words, NEW n \in Nat, NEW S \in SUBSET (1..n), NEW a, NEW b, NEW c
  PROVE  PhraseIsInWords(<<a, b, c>>, Compacted(words, S)) <=> KeepsTriple(words, S, a, b, c)
<1> DEFINE r == Compacted(words, S)
           m == Cardinality(S)
           P(k) == Position(S, k)
<1>1. /\ m \in Nat /\ DOMAIN r = 1..m /\ Len(r) = m
      /\ \A k \in 1..m : P(k) \in S /\ r[k] = words[P(k)]
  BY CompactedWords
<1>2. \A k \in 1..m : k + 1 \in 1..m => NoneBetween(S, P(k), P(k + 1))
  BY Neighbours
<1>3. \A i, j \in S : NoneBetween(S, i, j) =>
        \E k \in 1..m : k + 1 \in 1..m /\ P(k) = i /\ P(k + 1) = j
  BY Neighbours
<1>4. \A k, l \in 1..m : P(k) = P(l) => k = l
  <2>1. \A k, l \in 1..m : k < l <=> P(k) < P(l)
    BY PositionsAreOrdered
  <2>2. \A k \in 1..m : P(k) \in Nat
    <3>1. \A i \in S : i \in Nat
      OBVIOUS
    <3> HIDE DEF P, m
    <3> QED
      BY <1>1, <3>1
  <2> HIDE DEF P, m
  <2> QED
    BY <1>1, <2>1, <2>2
<1> HIDE DEF r, m, P
<1>5. PhraseIsInWords(<<a, b, c>>, r) <=>
        \E k \in 1..m : k + 2 \in 1..m /\ r[k] = a /\ r[k + 1] = b /\ r[k + 2] = c
  <2>1. \A k \in 1..m : OccursAt(<<a, b, c>>, r, k) <=>
           k + 2 \in 1..m /\ r[k] = a /\ r[k + 1] = b /\ r[k + 2] = c
    BY <1>1, OccurrencesOfThree
  <2> QED
    BY <1>1, <2>1 DEF PhraseIsInWords
<1>6. ASSUME NEW k \in 1..m, k + 2 \in 1..m, r[k] = a, r[k + 1] = b, r[k + 2] = c
      PROVE  \E h, i, j \in S : /\ words[h] = a /\ words[i] = b /\ words[j] = c
                                /\ NoneBetween(S, h, i) /\ NoneBetween(S, i, j)
  <2>1. k + 1 \in 1..m /\ (k + 1) + 1 = k + 2
    BY <1>1, <1>6
  <2>2. NoneBetween(S, P(k), P(k + 1)) /\ NoneBetween(S, P(k + 1), P(k + 2))
    BY <1>2, <1>6, <2>1
  <2> QED
    BY <1>1, <1>6, <2>1, <2>2
<1>7. ASSUME NEW h \in S, NEW i \in S, NEW j \in S, words[h] = a, words[i] = b, words[j] = c,
             NoneBetween(S, h, i), NoneBetween(S, i, j)
      PROVE  \E k \in 1..m : k + 2 \in 1..m /\ r[k] = a /\ r[k + 1] = b /\ r[k + 2] = c
  <2>1. PICK k \in 1..m : k + 1 \in 1..m /\ P(k) = h /\ P(k + 1) = i
    BY <1>3, <1>7
  <2>2. PICK l \in 1..m : l + 1 \in 1..m /\ P(l) = i /\ P(l + 1) = j
    BY <1>3, <1>7
  <2>3. l = k + 1 /\ l + 1 = k + 2
    BY <1>1, <1>4, <2>1, <2>2
  <2> QED
    BY <1>1, <1>7, <2>1, <2>2, <2>3
<1> QED
  BY <1>5, <1>6, <1>7 DEF r, KeepsTriple

-----------------------------------------------------------------------------
(* Where exactly the skipped words are dropped, neighbours adjoin.         *)
LEMMA DroppedWords ==
  ASSUME NEW words, NEW n \in Nat, NEW S \in SUBSET (1..n), NEW Skipped,
         \A i \in 1..n : i \in S <=> words[i] \notin Skipped,
         NEW i \in 1..n, NEW j \in 1..n
  PROVE  NoneBetween(S, i, j) <=> Adjoin(words, i, j, Skipped)
<1>1. \A q \in (i + 1)..(j - 1) : q \in 1..n /\ i < q /\ q < j
  OBVIOUS
<1>2. \A q \in 1..n : i < q /\ q < j => q \in (i + 1)..(j - 1)
  OBVIOUS
<1> QED
  BY <1>1, <1>2 DEF NoneBetween, Adjoin

LEMMA IgnoreIsSaid ==
  ASSUME NEW words \in Seq(Words)
  PROVE  AttemptToIgnore(words) <=> SaysIgnore(words, 1, Len(words))
<1> DEFINE n == Len(words)
           f == [i \in DOMAIN words |-> ForIgnore(words[i])]
           S == {i \in DOMAIN words : ForIgnore(words[i]) # ""}
<1>0. n \in Nat /\ DOMAIN words = 1..n
  OBVIOUS
<1>1. n \in Nat /\ DOMAIN words = 1..n /\ S \in SUBSET (1..n)
  BY <1>0, Zenon
<1>2. AttemptToIgnore(words) <=>
        PhraseIsInWords(<<"ignore", "previous", "instructions">>, Compacted(f, S))
  BY DEF AttemptToIgnore, Standardized
<1>3. /\ \A i \in 1..n : i \in S <=> words[i] \notin {"all", ""}
      /\ \A i \in 1..n : f[i] = "ignore" <=> words[i] = "ignore"
      /\ \A i \in 1..n : f[i] = "previous" <=> words[i] = "previous"
      /\ \A i \in 1..n : f[i] = "instructions" <=> words[i] = "instructions"
      /\ \A i \in 1..n : words[i] \in {"ignore", "previous", "instructions"} => i \in S
  BY <1>1 DEF ForIgnore
<1> HIDE DEF n, f, S
<1>4. \A i, j \in 1..n : NoneBetween(S, i, j) <=> Adjoin(words, i, j, {"all", ""})
  BY <1>1, <1>3, DroppedWords
<1>5. AttemptToIgnore(words) <=> KeepsTriple(f, S, "ignore", "previous", "instructions")
  BY <1>1, <1>2, TripleInCompacted, Zenon
<1> QED
  BY <1>1, <1>3, <1>4, <1>5 DEF SaysIgnore, KeepsTriple, n

LEMMA RevealIsSaid ==
  ASSUME NEW words \in Seq(Words)
  PROVE  AttemptToReveal(words) <=> SaysReveal(words, 1, Len(words))
<1> DEFINE n == Len(words)
           f == [i \in DOMAIN words |-> ForReveal(words[i])]
           S == {i \in DOMAIN words : ForReveal(words[i]) # ""}
           r == Compacted(f, S)
<1>0. n \in Nat /\ DOMAIN words = 1..n
  OBVIOUS
<1>1. n \in Nat /\ DOMAIN words = 1..n /\ S \in SUBSET (1..n)
  BY <1>0, Zenon
<1>2. AttemptToReveal(words) <=>
        /\ HasWord(r, "reveal")
        /\ PhraseIsInWords(<<"system", "prompt">>, r)
  BY DEF AttemptToReveal, Standardized, HasWord
<1>3. /\ \A i \in 1..n : i \in S <=> words[i] \notin {""}
      /\ \A i \in 1..n : f[i] = "reveal" <=> words[i] = "reveal"
      /\ \A i \in 1..n : f[i] = "system" <=> words[i] = "system"
      /\ \A i \in 1..n : f[i] = "prompt" <=> words[i] \in {"prompt", "instructions"}
      /\ \A i \in 1..n : words[i] \in {"reveal", "system", "prompt", "instructions"} => i \in S
  BY <1>1 DEF ForReveal
<1> HIDE DEF n, f, S
<1>4. \A i, j \in 1..n : NoneBetween(S, i, j) <=> Adjoin(words, i, j, {""})
  BY <1>1, <1>3, DroppedWords
<1>5. PhraseIsInWords(<<"system", "prompt">>, r) <=> KeepsPair(f, S, "system", "prompt")
  BY <1>1, PairInCompacted, Zenon
<1>6. HasWord(r, "reveal") <=> KeepsWord(f, S, "reveal")
  BY <1>1, WordInCompacted, Zenon
<1> HIDE DEF r
<1>7. KeepsWord(f, S, "reveal") <=> \E i \in 1..n : words[i] = "reveal"
  BY <1>1, <1>3 DEF KeepsWord
<1>8. KeepsPair(f, S, "system", "prompt") <=>
      \E i, j \in 1..n : /\ words[i] = "system" /\ words[j] \in {"prompt", "instructions"}
                         /\ Adjoin(words, i, j, {""})
  BY <1>1, <1>3, <1>4 DEF KeepsPair
<1> QED
  BY <1>2, <1>5, <1>6, <1>7, <1>8 DEF SaysReveal, n

-----------------------------------------------------------------------------
(* The phrases that are replaced.                                          *)
Targets == {<<"you", "are">>, <<"you", "now", "are">>}

(* Where a target begins, what goes with it, what stays, and as what.      *)
Begins(words, target) == {i \in DOMAIN words : OccursAt(target, words, i)}
Vanishes(words, target) ==
  {i \in DOMAIN words : \E o \in Begins(words, target) : o < i /\ i < o + Len(target)}
Stays(words, target) == DOMAIN words \ Vanishes(words, target)
Rewritten(words, target) ==
  [i \in DOMAIN words |-> IF i \in Begins(words, target) THEN "change" ELSE words[i]]

LEMMA ReplacedIsCompacted ==
  ASSUME NEW words, NEW target
  PROVE  ReplacePhrase(words, target, "change")
           = Compacted(Rewritten(words, target), Stays(words, target))
  BY DEF ReplacePhrase, Rewritten, Stays, Vanishes, Begins

LEMMA TargetPositions ==
  ASSUME NEW words \in Seq(Words), NEW target \in Targets
  PROVE  /\ Stays(words, target) \in SUBSET (1..Len(words))
         /\ \A i \in Begins(words, target) : i \in Stays(words, target) /\ words[i] = "you"
         /\ \A i \in 1..Len(words) :
              i \notin Stays(words, target) =>
                /\ words[i] \in {"now", "are"}
                /\ \E o \in Begins(words, target) :
                     o < i /\ \A q \in 1..Len(words) : o < q /\ q <= i => q \notin Stays(words, target)
         /\ \A i \in Stays(words, target) \ Begins(words, target) :
              i + 1 \in 1..Len(words) => i + 1 \in Stays(words, target)
<1> DEFINE n == Len(words)
           B == Begins(words, target)
           G == Vanishes(words, target)
           S == Stays(words, target)
<1>1. n \in Nat /\ DOMAIN words = 1..n
  OBVIOUS
<1>2. \A i \in B : /\ i \in 1..n /\ words[i] = "you"
                   /\ \A q \in 1..n : i < q /\ q < i + Len(target) => words[q] \in {"now", "are"}
  <2> SUFFICES ASSUME NEW i \in B
               PROVE  /\ i \in 1..n /\ words[i] = "you"
                      /\ \A q \in 1..n : i < q /\ q < i + Len(target) => words[q] \in {"now", "are"}
    OBVIOUS
  <2>1. i \in 1..n /\ OccursAt(target, words, i)
    BY <1>1 DEF Begins
  <2>2. CASE target = <<"you", "are">>
    <3>1. words[i] = "you" /\ words[i + 1] = "are"
      BY <1>1, <2>1, <2>2, OccurrencesOfTwo
    <3>2. \A q \in 1..n : i < q /\ q < i + 2 => q = i + 1
      BY <2>1
    <3>3. Len(target) = 2
      BY <2>2
    <3> QED
      BY <2>1, <3>1, <3>2, <3>3
  <2>3. CASE target = <<"you", "now", "are">>
    <3>1. words[i] = "you" /\ words[i + 1] = "now" /\ words[i + 2] = "are"
      BY <1>1, <2>1, <2>3, OccurrencesOfThree
    <3>2. \A q \in 1..n : i < q /\ q < i + 3 => q = i + 1 \/ q = i + 2
      BY <2>1
    <3>3. Len(target) = 3
      BY <2>3
    <3> QED
      BY <2>1, <3>1, <3>2, <3>3
  <2> QED
    BY <2>2, <2>3 DEF Targets
<1>3. Len(target) \in Nat
  BY DEF Targets
<1>4. \A i \in 1..n : i \in S <=> i \notin G
  BY <1>1 DEF Stays
<1>5. \A i \in G : i \in 1..n /\ \E o \in B : o < i /\ i < o + Len(target)
  BY <1>1 DEF Vanishes
<1>6. \A i \in 1..n : \A o \in B : o < i /\ i < o + Len(target) => i \in G
  BY <1>1 DEF Vanishes
<1>7. S \in SUBSET (1..n)
  BY <1>1 DEF Stays
<1> HIDE DEF n, B, G, S
<1>8. \A i \in G : words[i] \in {"now", "are"}
  BY <1>2, <1>5
<1>9. \A i \in B : i \in S /\ words[i] = "you"
  BY <1>2, <1>4, <1>8
<1>10. \A i \in 1..n : i \notin S =>
         /\ words[i] \in {"now", "are"}
         /\ \E o \in B : o < i /\ \A q \in 1..n : o < q /\ q <= i => q \notin S
  <2> SUFFICES ASSUME NEW i \in 1..n, i \notin S
               PROVE  \E o \in B : o < i /\ \A q \in 1..n : o < q /\ q <= i => q \notin S
    BY <1>4, <1>8
  <2>1. PICK o \in B : o < i /\ i < o + Len(target)
    BY <1>4, <1>5
  <2>2. \A q \in 1..n : o < q /\ q <= i => q \in G
    BY <1>1, <1>2, <1>3, <1>6, <2>1
  <2> QED
    BY <1>4, <2>1, <2>2
<1>11. \A i \in S \ B : i + 1 \in 1..n => i + 1 \in S
  <2> SUFFICES ASSUME NEW i \in S, i \notin B, i + 1 \in 1..n, i + 1 \notin S PROVE FALSE
    OBVIOUS
  <2>1. PICK o \in B : o < i + 1 /\ \A q \in 1..n : o < q /\ q <= i + 1 => q \notin S
    BY <1>10
  <2>2. i \in 1..n /\ o \in 1..n
    BY <1>2, <1>7
  <2> QED
    BY <1>1, <2>1, <2>2
<1> QED
  BY <1>7, <1>9, <1>10, <1>11 DEF n, B, S

LEMMA ReplacedWords ==
  ASSUME NEW words \in Seq(Words), NEW target \in Targets
  PROVE  ReplacePhrase(words, target, "change") \in Seq(Words)
<1> DEFINE S == Stays(words, target)
           f == Rewritten(words, target)
           r == Compacted(f, S)
<1>0. "change" \in Words
  BY DEF Words
<1>1. DOMAIN words = 1..Len(words) /\ Len(words) \in Nat /\ "change" \in Words
  BY <1>0
<1>2. \A i \in 1..Len(words) : words[i] \in Words
  OBVIOUS
<1>3. \A i \in 1..Len(words) : f[i] \in Words
  BY <1>1, <1>2 DEF Rewritten
<1>4. S \in SUBSET (1..Len(words))
  BY TargetPositions
<1> HIDE DEF S, f
<1>5. Cardinality(S) \in Nat /\ \A k \in 1..Cardinality(S) : Position(S, k) \in S
  BY <1>1, <1>4, CompactedWords
<1>6. \A k \in 1..Cardinality(S) : f[Position(S, k)] \in Words
  BY <1>3, <1>4, <1>5
<1>7. r \in Seq(Words)
  BY <1>5, <1>6 DEF Compacted
<1> QED
  BY <1>7, ReplacedIsCompacted DEF S, f

(* A replacement adds "change" exactly where the target was,               *)
LEMMA ReplacedChange ==
  ASSUME NEW words \in Seq(Words), NEW target \in Targets
  PROVE  HasWord(ReplacePhrase(words, target, "change"), "change")
           <=> HasWord(words, "change") \/ PhraseIsInWords(target, words)
<1> DEFINE n == Len(words)
           B == Begins(words, target)
           S == Stays(words, target)
           f == Rewritten(words, target)
<1>1. n \in Nat /\ DOMAIN words = 1..n
  OBVIOUS
<1>2. S \in SUBSET (1..n)
  BY TargetPositions
<1>3. /\ \A i \in B : i \in S
      /\ \A i \in 1..n : i \notin S => words[i] \in {"now", "are"}
  BY TargetPositions
<1>4. \A i \in 1..n : f[i] = IF i \in B THEN "change" ELSE words[i]
  BY <1>1 DEF Rewritten
<1>5. PhraseIsInWords(target, words) <=> \E i \in 1..n : i \in B
  BY <1>1 DEF Begins, PhraseIsInWords
<1> HIDE DEF n, B, S, f
<1>6. HasWord(Compacted(f, S), "change") <=> KeepsWord(f, S, "change")
  BY <1>1, <1>2, WordInCompacted, Zenon
<1>7. KeepsWord(f, S, "change") <=> \E i \in 1..n : i \in B \/ words[i] = "change"
  BY <1>2, <1>3, <1>4 DEF KeepsWord
<1> QED
  BY <1>1, <1>5, <1>6, <1>7, ReplacedIsCompacted DEF HasWord, S, f

(* Two words the authority check takes for neighbours.                     *)
AuthorityIn(words) ==
  \E i, j \in DOMAIN words :
     words[i] = "developer" /\ words[j] = "mode" /\ Adjoin(words, i, j, {"the", ""})

FillersBetween(words, i, j) ==
  \A q \in 1..Len(words) : i < q /\ q < j => words[q] \in {"the", ""}

LEMMA AuthorityPositions ==
  ASSUME NEW words, NEW m \in Nat, DOMAIN words = 1..m, Len(words) = m
  PROVE  AuthorityIn(words) <=>
           \E i, j \in 1..m : /\ words[i] = "developer" /\ words[j] = "mode" /\ i < j
                              /\ FillersBetween(words, i, j)
<1>1. ASSUME NEW i \in 1..m, NEW j \in 1..m
      PROVE  Adjoin(words, i, j, {"the", ""}) <=> i < j /\ FillersBetween(words, i, j)
  <2>1. \A q \in (i + 1)..(j - 1) : q \in 1..m /\ i < q /\ q < j
    OBVIOUS
  <2>2. \A q \in 1..m : i < q /\ q < j => q \in (i + 1)..(j - 1)
    OBVIOUS
  <2> QED
    BY <2>1, <2>2 DEF Adjoin, FillersBetween
<1> QED
  BY <1>1 DEF AuthorityIn

(* and neither separates nor joins words that have no part in it.          *)
LEMMA ReplacedAuthority ==
  ASSUME NEW words \in Seq(Words), NEW target \in Targets
  PROVE  AuthorityIn(ReplacePhrase(words, target, "change")) <=> AuthorityIn(words)
<1> DEFINE n == Len(words)
           B == Begins(words, target)
           S == Stays(words, target)
           f == Rewritten(words, target)
           m == Cardinality(S)
           P(k) == Position(S, k)
           r == Compacted(f, S)
<1>1. n \in Nat /\ DOMAIN words = 1..n
  OBVIOUS
<1>2. S \in SUBSET (1..n)
  BY TargetPositions
<1>3. /\ \A i \in B : i \in S /\ words[i] = "you"
      /\ \A i \in 1..n : i \notin S =>
           /\ words[i] \in {"now", "are"}
           /\ \E o \in B : o < i /\ \A q \in 1..n : o < q /\ q <= i => q \notin S
  BY TargetPositions
<1>4. \A i \in 1..n : f[i] = IF i \in B THEN "change" ELSE words[i]
  BY <1>1 DEF Rewritten
<1>5. /\ m \in Nat /\ DOMAIN r = 1..m /\ Len(r) = m
      /\ \A k \in 1..m : P(k) \in S /\ r[k] = f[P(k)]
      /\ \A i \in S : \E k \in 1..m : P(k) = i
  BY <1>1, <1>2, CompactedWords
<1>6. \A k, l \in 1..m : k < l <=> P(k) < P(l)
  BY <1>1, <1>2, PositionsAreOrdered
<1> HIDE DEF n, B, S, f, m, P, r
<1>8. ASSUME NEW k \in 1..m, NEW l \in 1..m, r[k] = "developer", r[l] = "mode", k < l,
             FillersBetween(r, k, l)
      PROVE  \E i, j \in 1..n : /\ words[i] = "developer" /\ words[j] = "mode" /\ i < j
                                /\ FillersBetween(words, i, j)
  <2>1. P(k) \in S /\ P(l) \in S /\ P(k) \in 1..n /\ P(l) \in 1..n /\ P(k) < P(l)
    BY <1>2, <1>5, <1>6, <1>8
  <2>2. /\ P(k) \notin B /\ P(l) \notin B
        /\ words[P(k)] = "developer" /\ words[P(l)] = "mode"
    BY <1>4, <1>5, <1>8, <2>1
  <2>3. ASSUME NEW q \in S, P(k) < q, q < P(l)
        PROVE  q \notin B /\ words[q] \in {"the", ""}
    <3>1. PICK x \in 1..m : P(x) = q
      BY <1>5
    <3>2. k < x /\ x < l
      BY <1>6, <2>3, <3>1
    <3>3. f[q] \in {"the", ""}
      BY <1>5, <1>8, <3>1, <3>2 DEF FillersBetween
    <3>4. q \in 1..n
      BY <1>2
    <3> QED
      BY <1>4, <3>3, <3>4
  <2>4. ASSUME NEW q \in 1..n, P(k) < q, q < P(l), q \notin S PROVE FALSE
    <3>1. PICK o \in B : o < q /\ \A p \in 1..n : o < p /\ p <= q => p \notin S
      BY <1>3, <2>4
    <3>2. o \in S /\ o \in 1..n
      BY <1>2, <1>3
    <3>3. ~(o < P(k)) /\ o # P(k)
      BY <1>1, <2>1, <2>2, <2>4, <3>1, <3>2
    <3>4. P(k) < o /\ o < P(l)
      BY <1>1, <2>1, <2>4, <3>1, <3>2, <3>3
    <3> QED
      BY <2>3, <3>1, <3>2, <3>4
  <2>5. FillersBetween(words, P(k), P(l))
    BY <1>1, <2>3, <2>4 DEF n, FillersBetween
  <2> QED
    BY <2>1, <2>2, <2>5
<1>9. ASSUME NEW i \in 1..n, NEW j \in 1..n, words[i] = "developer", words[j] = "mode", i < j,
             FillersBetween(words, i, j)
      PROVE  \E k, l \in 1..m : /\ r[k] = "developer" /\ r[l] = "mode" /\ k < l
                                /\ FillersBetween(r, k, l)
  <2>1. i \in S /\ j \in S /\ f[i] = "developer" /\ f[j] = "mode"
    BY <1>3, <1>4, <1>9
  <2>2. PICK k \in 1..m, l \in 1..m : P(k) = i /\ P(l) = j
    BY <1>5, <2>1
  <2>3. k < l
    BY <1>6, <1>9, <2>2
  <2>4. ASSUME NEW x \in 1..m, k < x, x < l PROVE r[x] \in {"the", ""}
    <3>1. P(x) \in 1..n /\ i < P(x) /\ P(x) < j
      BY <1>2, <1>5, <1>6, <2>2, <2>4
    <3>2. words[P(x)] \in {"the", ""}
      BY <1>9, <3>1 DEF n, FillersBetween
    <3> QED
      BY <1>3, <1>4, <1>5, <3>1, <3>2
  <2> QED
    BY <1>5, <2>1, <2>2, <2>3, <2>4 DEF FillersBetween
<1>10. AuthorityIn(r) <=> \E k, l \in 1..m : /\ r[k] = "developer" /\ r[l] = "mode" /\ k < l
                                             /\ FillersBetween(r, k, l)
  BY <1>5, AuthorityPositions
<1>11. AuthorityIn(words) <=>
         \E i, j \in 1..n : /\ words[i] = "developer" /\ words[j] = "mode" /\ i < j
                            /\ FillersBetween(words, i, j)
  BY <1>1, AuthorityPositions DEF n
<1>12. AuthorityIn(r) <=> AuthorityIn(words)
  BY <1>8, <1>9, <1>10, <1>11
<1> QED
  BY <1>12, ReplacedIsCompacted DEF r, f, S

(* Replacing "you are" leaves every "you now are".                         *)
LEMMA ReplacedYouAre ==
  ASSUME NEW words \in Seq(Words)
  PROVE  PhraseIsInWords(<<"you", "now", "are">>,
                         ReplacePhrase(words, <<"you", "are">>, "change"))
           <=> PhraseIsInWords(<<"you", "now", "are">>, words)
<1> DEFINE n == Len(words)
           target == <<"you", "are">>
           B == Begins(words, target)
           S == Stays(words, target)
           f == Rewritten(words, target)
<1>0. target \in Targets
  BY DEF Targets
<1>1. n \in Nat /\ DOMAIN words = 1..n
  OBVIOUS
<1>2. S \in SUBSET (1..n)
  BY <1>0, TargetPositions
<1>3. /\ \A i \in 1..n : i \notin S => words[i] \in {"now", "are"}
      /\ \A i \in S \ B : i + 1 \in 1..n => i + 1 \in S
  BY <1>0, TargetPositions
<1>4. \A i \in 1..n : f[i] = IF i \in B THEN "change" ELSE words[i]
  BY <1>1 DEF Rewritten
<1>5. \A i \in 1..n : i \in B <=> i + 1 \in 1..n /\ words[i] = "you" /\ words[i + 1] = "are"
  BY <1>1, OccurrencesOfTwo DEF Begins
<1>6. PhraseIsInWords(<<"you", "now", "are">>, words) <=>
        \E i \in 1..n : i + 2 \in 1..n /\ words[i] = "you" /\ words[i + 1] = "now"
                        /\ words[i + 2] = "are"
  <2>1. \A i \in 1..n : OccursAt(<<"you", "now", "are">>, words, i) <=>
           i + 2 \in 1..n /\ words[i] = "you" /\ words[i + 1] = "now" /\ words[i + 2] = "are"
    BY <1>1, OccurrencesOfThree
  <2> QED
    BY <1>1, <2>1 DEF PhraseIsInWords
<1> HIDE DEF n, B, S, f, target
<1>7. PhraseIsInWords(<<"you", "now", "are">>, Compacted(f, S))
        <=> KeepsTriple(f, S, "you", "now", "are")
  BY <1>1, <1>2, TripleInCompacted, Zenon
<1>8. ASSUME NEW h \in S, NEW i \in S, NEW j \in S,
             f[h] = "you", f[i] = "now", f[j] = "are", NoneBetween(S, h, i), NoneBetween(S, i, j)
      PROVE  h + 2 \in 1..n /\ words[h] = "you" /\ words[h + 1] = "now" /\ words[h + 2] = "are"
  <2>1. h \in 1..n /\ i \in 1..n /\ j \in 1..n /\ h < i /\ i < j
    BY <1>2, <1>8 DEF NoneBetween
  <2>2. h \notin B /\ i \notin B /\ j \notin B
    BY <1>4, <1>8, <2>1
  <2>3. h + 1 \in S /\ i + 1 \in S
    BY <1>1, <1>3, <2>1, <2>2
  <2>4. i = h + 1 /\ j = i + 1
    BY <1>8, <2>1, <2>3 DEF NoneBetween
  <2>5. words[h] = "you" /\ words[i] = "now" /\ words[j] = "are" /\ j = h + 2
    BY <1>4, <1>8, <2>1, <2>2, <2>4
  <2> QED
    BY <2>1, <2>4, <2>5
<1>9. ASSUME NEW i \in 1..n, i + 2 \in 1..n,
             words[i] = "you", words[i + 1] = "now", words[i + 2] = "are"
      PROVE  KeepsTriple(f, S, "you", "now", "are")
  <2>1. i + 1 \in 1..n /\ (i + 1) + 1 = i + 2
    BY <1>1, <1>9
  <2>2. i \notin B /\ i + 1 \notin B /\ i + 2 \notin B
    BY <1>5, <1>9, <2>1
  <2>3. i \in S /\ i + 1 \in S /\ i + 2 \in S
    BY <1>3, <1>9, <2>1, <2>2
  <2>4. f[i] = "you" /\ f[i + 1] = "now" /\ f[i + 2] = "are"
    BY <1>4, <1>9, <2>1, <2>2
  <2>5. NoneBetween(S, i, i + 1) /\ NoneBetween(S, i + 1, i + 2)
    BY <1>1, <1>2 DEF NoneBetween
  <2> QED
    BY <2>3, <2>4, <2>5 DEF KeepsTriple
<1>10. KeepsTriple(f, S, "you", "now", "are") <=>
         \E i \in 1..n : i + 2 \in 1..n /\ words[i] = "you" /\ words[i + 1] = "now"
                         /\ words[i + 2] = "are"
  <2>1. ASSUME KeepsTriple(f, S, "you", "now", "are")
        PROVE  \E i \in 1..n : i + 2 \in 1..n /\ words[i] = "you" /\ words[i + 1] = "now"
                               /\ words[i + 2] = "are"
    BY <1>2, <1>8, <2>1 DEF KeepsTriple
  <2> QED
    BY <1>9, <2>1
<1> QED
  BY <1>6, <1>7, <1>10, ReplacedIsCompacted DEF f, S, target

LEMMA AuthorityIsSaid ==
  ASSUME NEW words \in Seq(Words)
  PROVE  AttemptToChangeAuthority(words) <=> SaysAuthority(words, 1, Len(words))
<1> DEFINE two   == <<"you", "are">>
           three == <<"you", "now", "are">>
           once  == ReplacePhrase(words, two, "change")
           twice == ReplacePhrase(once, three, "change")
           f == [i \in DOMAIN twice |-> ForAuthority(twice[i])]
           S == {i \in DOMAIN twice : ForAuthority(twice[i]) # ""}
           r == Compacted(f, S)
           m == Len(twice)
           n == Len(words)
<1>1. two \in Targets /\ three \in Targets
  BY DEF Targets
<1>2. once \in Seq(Words)
  BY <1>1, ReplacedWords
<1> HIDE DEF two, three
<1>a. /\ HasWord(once, "change") <=> HasWord(words, "change") \/ PhraseIsInWords(two, words)
      /\ AuthorityIn(once) <=> AuthorityIn(words)
  BY <1>1, ReplacedChange, ReplacedAuthority
<1>b. PhraseIsInWords(three, once) <=> PhraseIsInWords(three, words)
  BY ReplacedYouAre DEF two, three
<1>c. AttemptToChangeAuthority(words) <=>
        /\ HasWord(r, "change")
        /\ PhraseIsInWords(<<"developer", "mode">>, r)
  BY DEF AttemptToChangeAuthority, Standardized, HasWord, two, three
<1> HIDE DEF once
<1>3. twice \in Seq(Words)
  BY <1>1, <1>2, ReplacedWords
<1>d. /\ HasWord(twice, "change") <=> HasWord(once, "change") \/ PhraseIsInWords(three, once)
      /\ AuthorityIn(twice) <=> AuthorityIn(once)
  BY <1>1, <1>2, ReplacedChange, ReplacedAuthority
<1> HIDE DEF twice
<1>4. m \in Nat /\ DOMAIN twice = 1..m
  BY <1>3
<1>5. m \in Nat /\ DOMAIN twice = 1..m /\ S \in SUBSET (1..m)
  BY <1>4, Zenon
<1>6. /\ \A i \in 1..m : i \in S <=> twice[i] \notin {"the", ""}
      /\ \A i \in 1..m : f[i] = "change" <=> twice[i] = "change"
      /\ \A i \in 1..m : f[i] = "developer" <=> twice[i] = "developer"
      /\ \A i \in 1..m : f[i] = "mode" <=> twice[i] = "mode"
      /\ \A i \in 1..m : twice[i] \in {"change", "developer", "mode"} => i \in S
  BY <1>4 DEF ForAuthority
<1> HIDE DEF f, S, m
<1>7. \A i, j \in 1..m : NoneBetween(S, i, j) <=> Adjoin(twice, i, j, {"the", ""})
  BY <1>5, <1>6, DroppedWords
<1>8. PhraseIsInWords(<<"developer", "mode">>, r) <=> KeepsPair(f, S, "developer", "mode")
  BY <1>5, PairInCompacted, Zenon
<1>9. HasWord(r, "change") <=> KeepsWord(f, S, "change")
  BY <1>5, WordInCompacted, Zenon
<1> HIDE DEF r
<1>10. KeepsWord(f, S, "change") <=> HasWord(twice, "change")
  BY <1>5, <1>6 DEF KeepsWord, HasWord
<1>11. KeepsPair(f, S, "developer", "mode") <=> AuthorityIn(twice)
  BY <1>5, <1>6, <1>7 DEF KeepsPair, AuthorityIn
<1>12. n \in Nat /\ DOMAIN words = 1..n
  OBVIOUS
<1>13. PhraseIsInWords(two, words) <=>
         \E i \in 1..n : i + 1 \in 1..n /\ words[i] = "you" /\ words[i + 1] = "are"
  <2>1. \A i \in 1..n : OccursAt(two, words, i) <=>
           i + 1 \in 1..n /\ words[i] = "you" /\ words[i + 1] = "are"
    BY <1>12, OccurrencesOfTwo DEF two
  <2> QED
    BY <1>12, <2>1 DEF PhraseIsInWords
<1>14. PhraseIsInWords(three, words) <=>
         \E i \in 1..n : i + 2 \in 1..n /\ words[i] = "you" /\ words[i + 1] = "now"
                         /\ words[i + 2] = "are"
  <2>1. \A i \in 1..n : OccursAt(three, words, i) <=>
           i + 2 \in 1..n /\ words[i] = "you" /\ words[i + 1] = "now" /\ words[i + 2] = "are"
    BY <1>12, OccurrencesOfThree DEF three
  <2> QED
    BY <1>12, <2>1 DEF PhraseIsInWords
<1>15. AttemptToChangeAuthority(words) <=>
         /\ HasWord(words, "change") \/ PhraseIsInWords(two, words) \/ PhraseIsInWords(three, words)
         /\ AuthorityIn(words)
  BY <1>a, <1>b, <1>c, <1>d, <1>8, <1>9, <1>10, <1>11, Zenon
<1>16. HasWord(words, "change") \/ PhraseIsInWords(two, words) \/ PhraseIsInWords(three, words)
         <=> SaysChange(words, 1, n)
  <2>1. \A i \in 1..n : /\ i + 1 \in 1..n <=> i + 1 <= n
                        /\ i + 2 \in 1..n <=> i + 2 <= n
    BY <1>12
  <2>2. HasWord(words, "change") <=> \E i \in 1..n : words[i] = "change"
    BY <1>12 DEF HasWord
  <2> HIDE DEF two, three, n
  <2> QED
    BY <1>13, <1>14, <2>1, <2>2 DEF SaysChange
<1> QED
  BY <1>12, <1>15, <1>16 DEF SaysAuthority, AuthorityIn

(* The three checks find exactly what the reference says of a text,        *)
(* whatever its length.                                                    *)
THEOREM ChecksMeetReference ==
  ASSUME NEW words \in Seq(Words)
  PROVE  Attempts(words) = {c \in Indicators : Says(c, words, 1, Len(words))}
  BY IgnoreIsSaid, AuthorityIsSaid, RevealIsSaid DEF Attempts, Says

-----------------------------------------------------------------------------
(* What part of a text says of its own positions, the text says of them.   *)
LEMMA PartOfText ==
  ASSUME NEW whole \in Seq(Words), NEW first \in Nat, NEW last \in Nat,
         first <= last, last <= Len(whole)
  PROVE  /\ SubSeq(whole, first + 1, last) \in Seq(Words)
         /\ Len(SubSeq(whole, first + 1, last)) = last - first
         /\ \A i \in 1..(last - first) : SubSeq(whole, first + 1, last)[i] = whole[first + i]
<1>1. /\ SubSeq(whole, first + 1, last) \in Seq(Words)
      /\ Len(SubSeq(whole, first + 1, last)) = last - first
  OBVIOUS
<1>2. \A i \in 1..(last - first) : SubSeq(whole, first + 1, last)[i] = whole[first + i]
  OBVIOUS
<1> QED
  BY <1>1, <1>2

SaysWord(words, from, to, a) == \E i \in from..to : words[i] = a
SaysPair(words, from, to, a, B, Skipped) ==
  \E i, j \in from..to : words[i] = a /\ words[j] \in B /\ Adjoin(words, i, j, Skipped)

LEMMA SaysOfPart ==
  ASSUME NEW whole \in Seq(Words), NEW first \in Nat, NEW last \in Nat,
         first <= last, last <= Len(whole), NEW c
  PROVE  Says(c, SubSeq(whole, first + 1, last), 1, last - first) <=> Says(c, whole, first + 1, last)
<1> DEFINE part == SubSeq(whole, first + 1, last)
           n == last - first
<1>1. n \in Nat /\ \A i \in 1..n : part[i] = whole[first + i]
  BY PartOfText
<1> HIDE DEF part
<1>2. /\ \A i \in 1..n : first + i \in (first + 1)..last
      /\ \A i \in (first + 1)..last : i - first \in 1..n /\ first + (i - first) = i
  OBVIOUS
<1>3. ASSUME NEW i \in 1..n, NEW j \in 1..n, NEW Skipped
      PROVE  Adjoin(part, i, j, Skipped) <=> Adjoin(whole, first + i, first + j, Skipped)
  <2>1. ASSUME Adjoin(part, i, j, Skipped), NEW k \in (first + i + 1)..(first + j - 1)
        PROVE  whole[k] \in Skipped
    <3>1. k - first \in (i + 1)..(j - 1) /\ k - first \in 1..n /\ first + (k - first) = k
      OBVIOUS
    <3> QED
      BY <1>1, <2>1, <3>1 DEF Adjoin
  <2>2. ASSUME Adjoin(whole, first + i, first + j, Skipped), NEW k \in (i + 1)..(j - 1)
        PROVE  part[k] \in Skipped
    <3>1. first + k \in (first + i + 1)..(first + j - 1) /\ k \in 1..n
      OBVIOUS
    <3>2. whole[first + k] \in Skipped
      BY <2>2, <3>1 DEF Adjoin
    <3> QED
      BY <1>1, <3>1, <3>2
  <2>3. i < j <=> first + i < first + j
    OBVIOUS
  <2> QED
    BY <2>1, <2>2, <2>3 DEF Adjoin
<1>4. SaysIgnore(part, 1, n) <=> SaysIgnore(whole, first + 1, last)
  <2>1. ASSUME SaysIgnore(part, 1, n) PROVE SaysIgnore(whole, first + 1, last)
    <3>1. PICK h \in 1..n, i \in 1..n, j \in 1..n :
             /\ part[h] = "ignore" /\ part[i] = "previous" /\ part[j] = "instructions"
             /\ Adjoin(part, h, i, {"all", ""}) /\ Adjoin(part, i, j, {"all", ""})
      BY <2>1 DEF SaysIgnore
    <3>2. /\ whole[first + h] = "ignore" /\ whole[first + i] = "previous"
          /\ whole[first + j] = "instructions"
          /\ Adjoin(whole, first + h, first + i, {"all", ""})
          /\ Adjoin(whole, first + i, first + j, {"all", ""})
      BY <1>1, <1>3, <3>1
    <3> QED
      BY <1>2, <3>2 DEF SaysIgnore
  <2>2. ASSUME SaysIgnore(whole, first + 1, last) PROVE SaysIgnore(part, 1, n)
    <3>1. PICK h \in (first + 1)..last, i \in (first + 1)..last, j \in (first + 1)..last :
             /\ whole[h] = "ignore" /\ whole[i] = "previous" /\ whole[j] = "instructions"
             /\ Adjoin(whole, h, i, {"all", ""}) /\ Adjoin(whole, i, j, {"all", ""})
      BY <2>2 DEF SaysIgnore
    <3>2. /\ part[h - first] = "ignore" /\ part[i - first] = "previous"
          /\ part[j - first] = "instructions"
      BY <1>1, <1>2, <3>1
    <3>3. /\ Adjoin(part, h - first, i - first, {"all", ""})
          /\ Adjoin(part, i - first, j - first, {"all", ""})
      BY <1>2, <1>3, <3>1
    <3> QED
      BY <1>2, <3>2, <3>3 DEF SaysIgnore
  <2> QED
    BY <2>1, <2>2
<1>5. ASSUME NEW K, NEW A, NEW B, NEW Skipped
      PROVE  /\ SaysWord(part, 1, n, K) <=> SaysWord(whole, first + 1, last, K)
             /\ SaysPair(part, 1, n, A, B, Skipped) <=> SaysPair(whole, first + 1, last, A, B, Skipped)
  <2>1. ASSUME NEW i \in 1..n, NEW j \in 1..n,
               part[i] = A, part[j] \in B, Adjoin(part, i, j, Skipped)
        PROVE  \E k, l \in (first + 1)..last :
                       whole[k] = A /\ whole[l] \in B /\ Adjoin(whole, k, l, Skipped)
    BY <1>1, <1>2, <1>3, <2>1
  <2>2. ASSUME NEW k \in (first + 1)..last, NEW l \in (first + 1)..last,
               whole[k] = A, whole[l] \in B, Adjoin(whole, k, l, Skipped)
        PROVE  \E i, j \in 1..n : part[i] = A /\ part[j] \in B /\ Adjoin(part, i, j, Skipped)
    <3>1. Adjoin(part, k - first, l - first, Skipped)
      BY <1>2, <1>3, <2>2
    <3>2. part[k - first] = A /\ part[l - first] \in B
      BY <1>1, <1>2, <2>2
    <3> QED
      BY <1>2, <3>1, <3>2
  <2>3. (\E i \in 1..n : part[i] = K) <=> \E i \in (first + 1)..last : whole[i] = K
    BY <1>1, <1>2
  <2> HIDE DEF n
  <2> QED
    BY <2>1, <2>2, <2>3 DEF SaysWord, SaysPair
<1>6. SaysReveal(part, 1, n) <=> SaysReveal(whole, first + 1, last)
  <2>1. \A w, from, to : SaysReveal(w, from, to) <=>
          /\ SaysWord(w, from, to, "reveal")
          /\ SaysPair(w, from, to, "system", {"prompt", "instructions"}, {""})
    BY DEF SaysReveal, SaysWord, SaysPair
  <2> HIDE DEF n
  <2> QED
    BY <1>5, <2>1, Zenon
<1>7. SaysChange(part, 1, n) <=> SaysChange(whole, first + 1, last)
  <2>1. ASSUME NEW i \in 1..n
        PROVE  /\ part[i] = whole[first + i]
               /\ i + 1 <= n => part[i + 1] = whole[(first + i) + 1]
               /\ i + 2 <= n => part[i + 2] = whole[(first + i) + 2]
               /\ i + 1 <= n <=> (first + i) + 1 <= last
               /\ i + 2 <= n <=> (first + i) + 2 <= last
    <3>1. /\ first + (i + 1) = (first + i) + 1 /\ first + (i + 2) = (first + i) + 2
          /\ i + 1 <= n => i + 1 \in 1..n
          /\ i + 2 <= n => i + 2 \in 1..n
      OBVIOUS
    <3>2. /\ i + 1 <= n <=> (first + i) + 1 <= last
          /\ i + 2 <= n <=> (first + i) + 2 <= last
      OBVIOUS
    <3> HIDE DEF n
    <3> QED
      BY <1>1, <3>1, <3>2
  <2> DEFINE C(w, i, to) ==
        \/ w[i] = "change"
        \/ i + 1 <= to /\ w[i] = "you" /\ w[i + 1] = "are"
        \/ i + 2 <= to /\ w[i] = "you" /\ w[i + 1] = "now" /\ w[i + 2] = "are"
  <2>2. \A i \in 1..n : C(part, i, n) <=> C(whole, first + i, last)
    <3> TAKE i \in 1..n
    <3>1. i + 2 <= n => i + 1 <= n
      OBVIOUS
    <3> HIDE DEF n
    <3> QED
      BY <2>1, <3>1
  <2>3. SaysChange(part, 1, n) <=> \E i \in 1..n : C(part, i, n)
    BY DEF SaysChange
  <2>4. SaysChange(whole, first + 1, last) <=> \E i \in (first + 1)..last : C(whole, i, last)
    BY DEF SaysChange
  <2> HIDE DEF C, n
  <2>5. ASSUME NEW i \in (first + 1)..last, C(whole, i, last) PROVE \E k \in 1..n : C(part, k, n)
    <3>1. i - first \in 1..n /\ C(whole, first + (i - first), last)
      BY <1>2, <2>5
    <3> QED
      BY <2>2, <3>1
  <2> QED
    BY <1>2, <2>2, <2>3, <2>4, <2>5
<1>8. SaysAuthority(part, 1, n) <=> SaysAuthority(whole, first + 1, last)
  <2>1. \A w, from, to : SaysAuthority(w, from, to) <=>
          /\ SaysChange(w, from, to)
          /\ SaysPair(w, from, to, "developer", {"mode"}, {"the", ""})
    BY DEF SaysAuthority, SaysPair
  <2> HIDE DEF n
  <2> QED
    BY <1>5, <1>7, <2>1, Zenon
<1> QED
  BY <1>4, <1>6, <1>8 DEF Says, part

(* What a stretch of a text says, a longer one says too.                   *)
LEMMA SaysMore ==
  ASSUME NEW words, NEW a \in Nat, NEW b \in Nat, NEW from \in Nat, NEW to \in Nat,
         from <= a, b <= to, NEW c, Says(c, words, a, b)
  PROVE  Says(c, words, from, to)
<1>1. \A i \in a..b : i \in from..to
  OBVIOUS
<1>2. SaysIgnore(words, a, b) => SaysIgnore(words, from, to)
  BY <1>1 DEF SaysIgnore
<1>3. SaysReveal(words, a, b) => SaysReveal(words, from, to)
  BY <1>1 DEF SaysReveal
<1>4. SaysChange(words, a, b) => SaysChange(words, from, to)
  <2>1. \A i \in a..b : (i + 1 <= b => i + 1 <= to) /\ (i + 2 <= b => i + 2 <= to)
    OBVIOUS
  <2> QED
    BY <1>1, <2>1 DEF SaysChange
<1>5. SaysAuthority(words, a, b) => SaysAuthority(words, from, to)
  BY <1>1, <1>4 DEF SaysAuthority
<1> QED
  BY <1>2, <1>3, <1>5 DEF Says

-----------------------------------------------------------------------------
Outcomes == Indicators \cup Categories \cup {ModelFinding, "checker_exception", "UNKNOWN"}

(* The span of words that begins at position i is in a window whose        *)
(* findings are known.                                                     *)
Covered(h, i) ==
  \E first \in 0..(i - 1) :
     /\ i + Overlap <= first + ChunkSize \/ Len(text[h]) <= first + ChunkSize
     /\ Attempts(Chunk(text[h], first)) \subseteq found[h]

(* All spans before the next window are covered, and all once it is past.  *)
SpanInv ==
  \A h \in Handlers : path[h] = "classify" =>
    /\ pc[h] = "chunks" => \A i \in 1..Len(text[h]) : i <= start[h] => Covered(h, i)
    /\ pc[h] \in {"acquire", "windows", "answered"} =>
         \A i \in 1..Len(text[h]) : Covered(h, i)
    /\ pc[h] = "received" => start[h] = 0

(* The windows before the current one were clean, or their labels are kept.*)
CleanInv ==
  \A h \in Handlers :
    /\ pc[h] # "answered" => ~raised[h]
    /\ windows[h] = << >> => text[h] = << >>
    /\ pc[h] \in {"acquire", "windows"} => windows[h] # << >>
    /\ path[h] = "classify" /\ pc[h] = "windows" =>
         \A i \in DOMAIN windows[h] : i < window[h] => windows[h][i] = {}

LabelInv ==
  \A h \in Handlers : path[h] = "moderate" =>
    /\ pc[h] # "chunks"
    /\ pc[h] \in {"received", "acquire"} => found[h] = {}
    /\ pc[h] = "windows" =>
         found[h] = UNION {windows[h][i] : i \in {j \in DOMAIN windows[h] : j < window[h]}}

(* A window begins within the text.                                        *)
StartInv == \A h \in Handlers : pc[h] = "chunks" => start[h] < Len(text[h])

GuardInv ==
  /\ TypeOK /\ SpanInv /\ StartInv /\ CleanInv /\ LabelInv
  /\ EmptyAnswersAreClean /\ LabelsAreComplete /\ LockFollowsInference
  /\ FoundAttemptsExist

-----------------------------------------------------------------------------
LEMMA StepIsNat == Step \in Nat /\ Step + Overlap = ChunkSize /\ Step > 0
  BY ChunksAssumption DEF ChunksAssumption, Step

LEMMA AttemptsAreOutcomes == \A words : Attempts(words) \subseteq Outcomes
  BY DEF Attempts, Outcomes

LEMMA Lengths ==
  ASSUME TypeOK, NEW h \in Handlers
  PROVE  /\ Len(text[h]) \in Nat
         /\ windows[h] \in Seq(SUBSET Categories)
         /\ Len(windows[h]) \in Nat
         /\ DOMAIN windows[h] = 1..Len(windows[h])
         /\ \A i \in DOMAIN windows[h] : windows[h][i] \subseteq Categories
         /\ windows[h] # << >> => Len(windows[h]) >= 1
         /\ window[h] \in Nat /\ \A i \in DOMAIN windows[h] : i \in Nat
<1>1. text[h] \in Seq(Words) /\ windows[h] \in Seq(SUBSET Categories) /\ window[h] \in Nat
  BY DEF TypeOK
<1>2. Len(windows[h]) \in Nat /\ DOMAIN windows[h] = 1..Len(windows[h])
  BY <1>1
<1>3. window[h] \in Nat /\ \A i \in DOMAIN windows[h] : i \in Nat
  BY <1>1, <1>2
<1> QED
  BY <1>1, <1>2, <1>3

(* Moving on to some stage other than the windows keeps the types.         *)
LEMMA GoesTypes ==
  ASSUME TypeOK, NEW h \in Handlers, NEW from,
         NEW to \in {"received", "chunks", "acquire", "windows", "answered", "refused"},
         Goes(h, from, to)
  PROVE  /\ pc' \in [Handlers -> {"received", "chunks", "acquire", "windows",
                                  "answered", "refused"}]
         /\ pc'[h] = to /\ \A g \in Handlers : g # h => pc'[g] = pc[g]
         /\ pc[h] = from
  BY DEF TypeOK, Goes

LEMMA TypeInit == Init => TypeOK
  BY ArrivalsAssumption DEF ArrivalsAssumption, Requests, Init, TypeOK

LEMMA TypeStep == TypeOK /\ CleanInv /\ [Next]_vars => TypeOK'
<1> SUFFICES ASSUME TypeOK, CleanInv, [Next]_vars PROVE TypeOK'
  OBVIOUS
<1> USE DEF request
<1>1. ASSUME NEW h \in Handlers, HandlerStep(h) PROVE TypeOK'
  <2>1. CASE Refuse(h)
    BY <2>1 DEF Refuse, Goes, TypeOK
  <2>2. CASE Receive(h)
    <3>1. ModelStage(h) \in {"answered", "acquire"}
      BY DEF ModelStage
    <3> QED
      BY <2>2, <3>1 DEF Receive, Goes, TypeOK
  <2>3. CASE CheckChunk(h)
    <3>1. ModelStage(h) \in {"answered", "acquire"}
      BY DEF ModelStage
    <3>2. start' \in [Handlers -> Nat]
      BY <2>3, StepIsNat DEF CheckChunk, TypeOK
    <3>3. found' \in [Handlers -> SUBSET Outcomes]
      BY <2>3, AttemptsAreOutcomes DEF CheckChunk, TypeOK, Outcomes
    <3> QED
      BY <2>3, <3>1, <3>2, <3>3 DEF CheckChunk, Goes, TypeOK, Outcomes
  <2>4. CASE Acquire(h)
    <3>1. 1 \in DOMAIN windows[h]
      BY <2>4, Lengths DEF Acquire, Goes, CleanInv
    <3> QED
      BY <2>4, <3>1 DEF Acquire, Goes, TypeOK
  <2>5. CASE ClassifyMalicious(h)
    BY <2>5 DEF ClassifyMalicious, Goes, Release, TypeOK
  <2>6. CASE ClassifyBenign(h)
    <3>1. CASE NextWindow(h)
      <4>1. window[h] \in DOMAIN windows[h] /\ window[h] # Len(windows[h])
        BY <3>1 DEF NextWindow, IsLast, TypeOK
      <4>2. window[h] + 1 \in DOMAIN windows[h] /\ window[h] + 1 \in Nat
        BY <4>1, Lengths
      <4> QED
        BY <2>6, <3>1, <4>2 DEF ClassifyBenign, NextWindow, TypeOK
    <3>2. CASE Goes(h, "windows", "answered")
      BY <2>6, <3>2 DEF ClassifyBenign, NextWindow, Goes, Release, TypeOK
    <3> QED
      BY <2>6, <3>1, <3>2 DEF ClassifyBenign
  <2>7. CASE ModerateWindow(h)
    <3>1. window[h] \in DOMAIN windows[h]
      BY <2>7 DEF ModerateWindow, TypeOK
    <3>2. found' \in [Handlers -> SUBSET Outcomes]
      BY <2>7, <3>1, Lengths DEF ModerateWindow, TypeOK, Outcomes
    <3>3. CASE NextWindow(h)
      <4>1. window[h] \in DOMAIN windows[h] /\ window[h] # Len(windows[h])
        BY <3>3 DEF NextWindow, IsLast, TypeOK
      <4>2. window[h] + 1 \in DOMAIN windows[h] /\ window[h] + 1 \in Nat
        BY <4>1, Lengths
      <4> QED
        BY <2>7, <3>2, <3>3, <4>2 DEF ModerateWindow, NextWindow, TypeOK, Outcomes
    <3>4. CASE Goes(h, "windows", "answered")
      BY <2>7, <3>2, <3>4 DEF ModerateWindow, NextWindow, Goes, Release, TypeOK, Outcomes
    <3> QED
      BY <2>7, <3>3, <3>4 DEF ModerateWindow
  <2>8. CASE Raises(h)
    BY <2>8 DEF Raises, Goes, Release, Exceptional, TypeOK
  <2> QED
    BY <1>1, <2>1, <2>2, <2>3, <2>4, <2>5, <2>6, <2>7, <2>8 DEF HandlerStep, ModelStep
<1>2. CASE UNCHANGED vars
  BY <1>2 DEF vars, TypeOK
<1> QED
  BY <1>1, <1>2 DEF Next, Finished

-----------------------------------------------------------------------------
(* A step of one handler leaves the others where they are.                 *)
LEMMA OthersStay ==
  ASSUME TypeOK, NEW h \in Handlers, HandlerStep(h), NEW g \in Handlers, g # h
  PROVE  /\ pc'[g] = pc[g] /\ start'[g] = start[g] /\ window'[g] = window[g]
         /\ found'[g] = found[g] /\ raised'[g] = raised[g] /\ UNCHANGED request
<1> USE DEF Goes, TypeOK
<1>1. CASE Refuse(h)
  BY <1>1 DEF Refuse
<1>2. CASE Receive(h)
  BY <1>2 DEF Receive
<1>3. CASE CheckChunk(h)
  BY <1>3 DEF CheckChunk
<1>4. CASE Acquire(h)
  BY <1>4 DEF Acquire
<1>5. CASE ClassifyMalicious(h)
  BY <1>5 DEF ClassifyMalicious
<1>6. CASE ClassifyBenign(h)
  BY <1>6 DEF ClassifyBenign, NextWindow
<1>7. CASE ModerateWindow(h)
  BY <1>7 DEF ModerateWindow, NextWindow
<1>8. CASE Raises(h)
  BY <1>8 DEF Raises
<1> QED
  BY <1>1, <1>2, <1>3, <1>4, <1>5, <1>6, <1>7, <1>8 DEF HandlerStep, ModelStep

(* A classification only adds findings.                                    *)
LEMMA FindingsGrow ==
  ASSUME TypeOK, NEW h \in Handlers, HandlerStep(h), path[h] = "classify"
  PROVE  found[h] \subseteq found'[h] /\ UNCHANGED request
<1> USE DEF Goes, TypeOK
<1>1. CASE Refuse(h)
  BY <1>1 DEF Refuse
<1>2. CASE Receive(h)
  BY <1>2 DEF Receive
<1>3. CASE CheckChunk(h)
  BY <1>3 DEF CheckChunk
<1>4. CASE Acquire(h)
  BY <1>4 DEF Acquire
<1>5. CASE ClassifyMalicious(h)
  BY <1>5 DEF ClassifyMalicious
<1>6. CASE ClassifyBenign(h)
  BY <1>6 DEF ClassifyBenign, NextWindow
<1>7. CASE ModerateWindow(h)
  BY <1>7 DEF ModerateWindow
<1>8. CASE Raises(h)
  BY <1>8 DEF Raises
<1> QED
  BY <1>1, <1>2, <1>3, <1>4, <1>5, <1>6, <1>7, <1>8 DEF HandlerStep, ModelStep

-----------------------------------------------------------------------------
LEMMA SpanInit == Init => SpanInv
  BY DEF Init, SpanInv

(* The window that begins after start[h] words covers the next Step spans, *)
(* and all that are left if it reaches the end.                            *)
LEMMA ChunkCovers ==
  ASSUME TypeOK, SpanInv, NEW h \in Handlers, path[h] = "classify", CheckChunk(h),
         NEW i \in 1..Len(text[h]),
         i <= start[h] + Step \/ start[h] + ChunkSize >= Len(text[h])
  PROVE  Covered(h, i)'
<1>1. UNCHANGED request /\ pc[h] = "chunks"
  BY DEF CheckChunk, Goes
<1>2. /\ found[h] \subseteq found'[h]
      /\ Attempts(Chunk(text[h], start[h])) \subseteq found'[h]
      /\ start[h] \in Nat
  BY DEF CheckChunk, TypeOK
<1>3. CASE i <= start[h]
  <2>1. Covered(h, i)
    BY <1>1, <1>3 DEF SpanInv
  <2> QED
    BY <1>1, <1>2, <2>1 DEF Covered, request, Chunk
<1>4. CASE i > start[h]
  <2>1. Len(text[h]) \in Nat
    BY Lengths
  <2>2. start[h] \in 0..(i - 1)
    BY <1>2, <1>4
  <2>3. i + Overlap <= start[h] + ChunkSize \/ Len(text[h]) <= start[h] + ChunkSize
    BY <1>2, <2>1, StepIsNat, ChunksAssumption DEF ChunksAssumption
  <2> QED
    BY <1>1, <1>2, <2>2, <2>3 DEF Covered, request, Chunk
<1> QED
  BY <1>2, <1>3, <1>4

LEMMA SpanStep == TypeOK /\ CleanInv /\ SpanInv /\ [Next]_vars => SpanInv'
<1> SUFFICES ASSUME TypeOK, CleanInv, SpanInv, [Next]_vars,
                    NEW g \in Handlers, path'[g] = "classify"
             PROVE  /\ pc'[g] = "chunks" =>
                         \A i \in 1..Len(text'[g]) : i <= start'[g] => Covered(g, i)'
                    /\ pc'[g] \in {"acquire", "windows", "answered"} =>
                         \A i \in 1..Len(text'[g]) : Covered(g, i)'
                    /\ pc'[g] = "received" => start'[g] = 0
  BY DEF SpanInv
<1> DEFINE Goal ==
      /\ pc'[g] = "chunks" => \A i \in 1..Len(text'[g]) : i <= start'[g] => Covered(g, i)'
      /\ pc'[g] \in {"acquire", "windows", "answered"} =>
           \A i \in 1..Len(text'[g]) : Covered(g, i)'
      /\ pc'[g] = "received" => start'[g] = 0
<1>1. ASSUME NEW h \in Handlers, HandlerStep(h), h # g PROVE Goal
  <2>1. /\ pc'[g] = pc[g] /\ start'[g] = start[g] /\ found'[g] = found[g]
        /\ UNCHANGED request
    BY <1>1, OthersStay
  <2> QED
    BY <2>1 DEF SpanInv, Covered, request, Chunk
<1>2. ASSUME HandlerStep(g) PROVE Goal
  <2>1. found[g] \subseteq found'[g] /\ UNCHANGED request /\ path[g] = "classify"
    <3>1. path[g] = "classify"
      BY <1>2 DEF HandlerStep, ModelStep, Refuse, Receive, CheckChunk, Acquire,
             ClassifyMalicious, ClassifyBenign, NextWindow, ModerateWindow, Raises, request
    <3> QED
      BY <1>2, <3>1, FindingsGrow
  <2>2. \A i \in 1..Len(text'[g]) : Covered(g, i) => Covered(g, i)'
    BY <2>1 DEF Covered, request, Chunk
  <2>3. CASE Refuse(g)
    BY <2>3 DEF Refuse, Goes, TypeOK
  <2>4. CASE Receive(g)
    <3>1. text[g] = << >> => 1..Len(text'[g]) = {}
      BY <2>1 DEF request
    <3>2. start'[g] = 0 /\ pc'[g] \in {"chunks", "acquire", "answered"}
      BY <2>1, <2>4 DEF Receive, Goes, SpanInv, ModelStage, TypeOK
    <3>3. pc'[g] # "chunks" => text[g] = << >>
      BY <2>1, <2>4 DEF Receive, Goes, TypeOK
    <3> QED
      BY <3>1, <3>2, <3>3
  <2>5. CASE CheckChunk(g)
    <3>1. pc'[g] \in {"chunks", "acquire", "answered"} /\ start'[g] = start[g] + Step
      BY <2>5 DEF CheckChunk, Goes, ModelStage, TypeOK
    <3>2. pc'[g] # "chunks" => start[g] + ChunkSize >= Len(text[g])
      BY <2>5 DEF CheckChunk, Goes, ModelStage, TypeOK
    <3>3. \A i \in 1..Len(text[g]) :
             i <= start[g] + Step \/ start[g] + ChunkSize >= Len(text[g]) => Covered(g, i)'
      BY <2>1, <2>5, ChunkCovers
    <3> QED
      BY <2>1, <3>1, <3>2, <3>3 DEF request
  <2>6. CASE Acquire(g)
    BY <2>1, <2>2, <2>6 DEF Acquire, Goes, SpanInv, TypeOK, request
  <2>7. CASE ModelStep(g)
    <3>1. pc[g] = "windows" /\ pc'[g] \in {"windows", "answered"}
      BY <2>7 DEF ModelStep, ClassifyMalicious, ClassifyBenign, ModerateWindow, Raises,
             NextWindow, Goes, TypeOK
    <3> QED
      BY <2>1, <2>2, <3>1 DEF SpanInv, request
  <2> QED
    BY <1>2, <2>3, <2>4, <2>5, <2>6, <2>7 DEF HandlerStep
<1>3. CASE UNCHANGED vars
  BY <1>3 DEF vars, request, SpanInv, Covered, Chunk
<1> QED
  BY <1>1, <1>2, <1>3 DEF Next, Finished

-----------------------------------------------------------------------------
LEMMA CleanInit == Init => CleanInv /\ EmptyAnswersAreClean
  BY ArrivalsAssumption DEF ArrivalsAssumption, Requests, Init, CleanInv, EmptyAnswersAreClean, Answered

LEMMA CleanStep ==
  TypeOK /\ CleanInv /\ LabelInv /\ EmptyAnswersAreClean /\ [Next]_vars
    => CleanInv' /\ EmptyAnswersAreClean'
<1> SUFFICES ASSUME TypeOK, CleanInv, LabelInv, EmptyAnswersAreClean, [Next]_vars
             PROVE  CleanInv' /\ EmptyAnswersAreClean'
  OBVIOUS
<1> DEFINE Clean(h) ==
      /\ pc[h] # "answered" => ~raised[h]
      /\ windows[h] = << >> => text[h] = << >>
      /\ pc[h] \in {"acquire", "windows"} => windows[h] # << >>
      /\ path[h] = "classify" /\ pc[h] = "windows" =>
           \A i \in DOMAIN windows[h] : i < window[h] => windows[h][i] = {}
    Empty(h) ==
      pc[h] = "answered" /\ found[h] = {} =>
        ~raised[h] /\ \A i \in DOMAIN windows[h] : windows[h][i] = {}
<1>1. ASSUME NEW g \in Handlers PROVE Clean(g) /\ Empty(g)
  BY <1>1 DEF CleanInv, EmptyAnswersAreClean, Answered
<1>2. ASSUME NEW h \in Handlers, HandlerStep(h), NEW g \in Handlers, g # h
      PROVE  Clean(g)' /\ Empty(g)'
  BY <1>1, <1>2, OthersStay DEF request
<1>3. ASSUME NEW h \in Handlers, HandlerStep(h) PROVE Clean(h)' /\ Empty(h)'
  <2>0. window[h] \in Nat /\ \A i \in DOMAIN windows[h] : i \in Nat
    BY Lengths
  <2> USE <1>1 DEF Goes, TypeOK, request
  <2>1. CASE Refuse(h)
    BY <2>1 DEF Refuse
  <2>2. CASE Receive(h)
    BY <2>2 DEF Receive, ModelStage
  <2>3. CASE CheckChunk(h)
    BY <2>3 DEF CheckChunk, ModelStage
  <2>4. CASE Acquire(h)
    BY <2>4, Lengths DEF Acquire
  <2>5. CASE ClassifyMalicious(h)
    BY <2>5 DEF ClassifyMalicious
  <2>6. CASE ClassifyBenign(h)
    <3>1. /\ path[h] = "classify" /\ pc[h] = "windows" /\ windows[h][window[h]] = {}
          /\ window[h] \in 1..Len(windows[h]) /\ UNCHANGED <<request, raised, found>>
      BY <2>6, Lengths DEF ClassifyBenign, NextWindow
    <3>4. \A i \in DOMAIN windows[h] : i < window[h] + 1 => windows[h][i] = {}
      <4> SUFFICES ASSUME NEW i \in DOMAIN windows[h], i < window[h] + 1
                   PROVE  windows[h][i] = {}
        OBVIOUS
      <4>1. i \in Nat /\ window[h] \in Nat
        BY <2>0
      <4>2. i < window[h] \/ i = window[h]
        BY <4>1
      <4>3. i < window[h] => windows[h][i] = {}
        BY <3>1 DEF CleanInv
      <4> QED
        BY <3>1, <4>2, <4>3
    <3>2. CASE NextWindow(h)
      <4>1. window'[h] = window[h] + 1 /\ pc' = pc
        BY <3>2 DEF NextWindow
      <4> QED
        BY <3>1, <3>4, <4>1
    <3>3. CASE IsLast(h) /\ Goes(h, "windows", "answered")
      <4>2. \A i \in DOMAIN windows[h] : i < window[h] + 1
        BY <3>1, <3>3, Lengths DEF IsLast
      <4> QED
        BY <3>1, <3>3, <3>4, <4>2
    <3> QED
      BY <2>6, <3>2, <3>3 DEF ClassifyBenign
  <2>7. CASE ModerateWindow(h)
    <3>1. CASE NextWindow(h)
      BY <2>7, <3>1 DEF ModerateWindow, NextWindow
    <3>2. CASE IsLast(h) /\ Goes(h, "windows", "answered") /\ UNCHANGED <<window, raised>>
      <4>1. found'[h] = found[h] \cup windows[h][window[h]]
        BY <2>7 DEF ModerateWindow
      <4>2. found'[h] = {} => \A i \in DOMAIN windows[h] : windows[h][i] = {}
        <5> SUFFICES ASSUME found'[h] = {}, NEW i \in DOMAIN windows[h]
                     PROVE  windows[h][i] = {}
          OBVIOUS
        <5>1. CASE i = window[h]
          BY <4>1, <5>1
        <5>2. CASE i < window[h]
          <6>1. found[h] = UNION {windows[h][j] : j \in {k \in DOMAIN windows[h] : k < window[h]}}
            BY <2>7 DEF LabelInv, ModerateWindow
          <6>2. windows[h][i] \subseteq found[h]
            BY <5>2, <6>1
          <6> QED
            BY <4>1, <6>2
        <5> QED
          BY <3>2, <5>1, <5>2, Lengths DEF IsLast
      <4> QED
        BY <2>7, <3>2, <4>2 DEF ModerateWindow, NextWindow
    <3> QED
      BY <2>7, <3>1, <3>2 DEF ModerateWindow
  <2>8. CASE Raises(h)
    BY <2>8 DEF Raises
  <2> QED
    BY <1>3, <2>1, <2>2, <2>3, <2>4, <2>5, <2>6, <2>7, <2>8 DEF HandlerStep, ModelStep
<1>4. CASE UNCHANGED vars
  BY <1>1, <1>4 DEF vars, request, CleanInv, EmptyAnswersAreClean, Answered
<1>5. CASE \E h \in Handlers : HandlerStep(h)
  <2>1. \A g \in Handlers : Clean(g)' /\ Empty(g)'
    BY <1>2, <1>3, <1>5
  <2> QED
    BY <2>1 DEF CleanInv, EmptyAnswersAreClean, Answered
<1> QED
  BY <1>4, <1>5 DEF Next, Finished
-----------------------------------------------------------------------------
LEMMA LabelInit == Init => LabelInv /\ LabelsAreComplete
  BY DEF Init, LabelInv, LabelsAreComplete, Answered

LEMMA LabelStep ==
  TypeOK /\ CleanInv /\ LabelInv /\ LabelsAreComplete /\ [Next]_vars
    => LabelInv' /\ LabelsAreComplete'
<1> SUFFICES ASSUME TypeOK, CleanInv, LabelInv, LabelsAreComplete, [Next]_vars
             PROVE  LabelInv' /\ LabelsAreComplete'
  OBVIOUS
<1> DEFINE Labels(h) ==
      path[h] = "moderate" =>
        /\ pc[h] # "chunks"
        /\ pc[h] \in {"received", "acquire"} => found[h] = {}
        /\ pc[h] = "windows" =>
             found[h] = UNION {windows[h][i] : i \in {j \in DOMAIN windows[h] : j < window[h]}}
    Complete(h) ==
      pc[h] = "answered" /\ path[h] = "moderate" /\ ~raised[h] =>
        found[h] = UNION {windows[h][i] : i \in DOMAIN windows[h]}
<1>1. ASSUME NEW g \in Handlers PROVE Labels(g) /\ Complete(g)
  BY <1>1 DEF LabelInv, LabelsAreComplete, Answered
<1>2. ASSUME NEW h \in Handlers, HandlerStep(h), NEW g \in Handlers, g # h
      PROVE  Labels(g)' /\ Complete(g)'
  BY <1>1, <1>2, OthersStay DEF request
<1>3. ASSUME NEW h \in Handlers, HandlerStep(h) PROVE Labels(h)' /\ Complete(h)'
  <2> USE <1>1 DEF Goes, TypeOK, request
  <2>1. CASE Refuse(h)
    BY <2>1 DEF Refuse
  <2>2. CASE Receive(h)
    <3>1. windows[h] = << >> => UNION {windows[h][i] : i \in DOMAIN windows[h]} = {}
      BY Lengths
    <3> QED
      BY <2>2, <3>1 DEF Receive, ModelStage
  <2>3. CASE CheckChunk(h)
    BY <2>3 DEF CheckChunk
  <2>4. CASE Acquire(h)
    <3>1. {j \in DOMAIN windows[h] : j < 1} = {}
      BY Lengths
    <3> QED
      BY <2>4, <3>1 DEF Acquire
  <2>5. CASE ClassifyMalicious(h)
    BY <2>5 DEF ClassifyMalicious
  <2>6. CASE ClassifyBenign(h)
    BY <2>6 DEF ClassifyBenign, NextWindow
  <2>7. CASE ModerateWindow(h)
    <3>1. /\ path[h] = "moderate" /\ pc[h] = "windows"
          /\ window[h] \in 1..Len(windows[h])
          /\ found'[h] = found[h] \cup windows[h][window[h]]
      BY <2>7, Lengths DEF ModerateWindow
    <3>2. found'[h] =
            UNION {windows[h][i] : i \in {j \in DOMAIN windows[h] : j < window[h] + 1}}
      <4>1. {j \in DOMAIN windows[h] : j < window[h] + 1}
               = {j \in DOMAIN windows[h] : j < window[h]} \cup {window[h]}
        BY <3>1, Lengths
      <4> QED
        BY <3>1, <4>1
    <3>3. CASE NextWindow(h)
      <4>1. window'[h] = window[h] + 1 /\ pc' = pc /\ UNCHANGED request
        BY <3>3 DEF NextWindow
      <4> QED
        BY <3>1, <3>2, <4>1
    <3>4. CASE IsLast(h) /\ Goes(h, "windows", "answered") /\ UNCHANGED request
      <4>1. {j \in DOMAIN windows[h] : j < window[h] + 1} = DOMAIN windows[h]
        BY <3>1, <3>4, Lengths DEF IsLast
      <4> QED
        BY <3>1, <3>2, <3>4, <4>1
    <3> QED
      BY <2>7, <3>3, <3>4 DEF ModerateWindow
  <2>8. CASE Raises(h)
    BY <2>8 DEF Raises
  <2> QED
    BY <1>3, <2>1, <2>2, <2>3, <2>4, <2>5, <2>6, <2>7, <2>8 DEF HandlerStep, ModelStep
<1>4. CASE UNCHANGED vars
  BY <1>1, <1>4 DEF vars, request, LabelInv, LabelsAreComplete, Answered
<1>5. CASE \E h \in Handlers : HandlerStep(h)
  <2>1. \A g \in Handlers : Labels(g)' /\ Complete(g)'
    BY <1>2, <1>3, <1>5
  <2> QED
    BY <2>1 DEF LabelInv, LabelsAreComplete, Answered
<1> QED
  BY <1>4, <1>5 DEF Next, Finished

-----------------------------------------------------------------------------
LEMMA LockInit == Init => LockFollowsInference
  BY DEF Init, LockFollowsInference

LEMMA LockStep == TypeOK /\ LockFollowsInference /\ [Next]_vars => LockFollowsInference'
<1> SUFFICES ASSUME TypeOK, LockFollowsInference, [Next]_vars PROVE LockFollowsInference'
  OBVIOUS
<1> DEFINE Inside(h, p) == path[h] = p /\ pc[h] = "windows"
<1>1. /\ \A p \in Paths : lock[p] <=> \E h \in Handlers : Inside(h, p)
      /\ \A p \in Paths : \A g, h \in Handlers : Inside(g, p) /\ Inside(h, p) => g = h
  BY DEF LockFollowsInference
<1>2. ASSUME NEW h \in Handlers, HandlerStep(h)
      PROVE  /\ \A p \in Paths : lock'[p] <=> \E g \in Handlers : Inside(g, p)'
             /\ \A p \in Paths : \A f, g \in Handlers : Inside(f, p)' /\ Inside(g, p)' => f = g
  <2> path' = path /\ path[h] \in Paths
    BY <1>2 DEF HandlerStep, ModelStep, Refuse, Receive, CheckChunk, Acquire, ClassifyMalicious,
           ClassifyBenign, NextWindow, ModerateWindow, Raises, request, TypeOK
  <2>1. CASE UNCHANGED lock /\ (pc[h] = "windows" <=> pc'[h] = "windows")
    BY <1>1, <1>2, <2>1, OthersStay
  <2>2. CASE Acquire(h)
    BY <1>1, <1>2, <2>2, OthersStay DEF Acquire, Goes, TypeOK
  <2>3. CASE Release(h) /\ Goes(h, "windows", "answered")
    BY <1>1, <1>2, <2>3, OthersStay DEF Release, Goes, TypeOK
  <2>4. \/ UNCHANGED lock /\ (pc[h] = "windows" <=> pc'[h] = "windows")
        \/ Acquire(h)
        \/ Release(h) /\ Goes(h, "windows", "answered")
    BY <1>2 DEF HandlerStep, ModelStep, Refuse, Receive, CheckChunk, ClassifyMalicious, ModelStage,
           ClassifyBenign, NextWindow, ModerateWindow, Raises, Goes, TypeOK
  <2> QED
    BY <2>1, <2>2, <2>3, <2>4
<1>3. CASE \E h \in Handlers : HandlerStep(h)
  BY <1>2, <1>3 DEF LockFollowsInference
<1>4. CASE UNCHANGED vars
  BY <1>4 DEF vars, request, LockFollowsInference
<1> QED
  BY <1>3, <1>4 DEF Next, Finished

-----------------------------------------------------------------------------
LEMMA ChunkAttempts ==
  ASSUME NEW words \in Seq(Words), NEW first \in Nat, first <= Len(words), NEW last,
         last = IF first + ChunkSize < Len(words) THEN first + ChunkSize ELSE Len(words)
  PROVE  Attempts(Chunk(words, first)) = {c \in Indicators : Says(c, words, first + 1, last)}
<1>1. ChunkSize \in Nat /\ Len(words) \in Nat
  BY ChunksAssumption DEF ChunksAssumption
<1>2. last \in Nat /\ first <= last /\ last <= Len(words)
  BY <1>1
<1>3. Chunk(words, first) = SubSeq(words, first + 1, last)
  BY DEF Chunk
<1>4. Chunk(words, first) \in Seq(Words) /\ Len(Chunk(words, first)) = last - first
  BY <1>2, <1>3, PartOfText
<1>5. Attempts(Chunk(words, first))
        = {c \in Indicators : Says(c, Chunk(words, first), 1, last - first)}
  BY <1>4, ChecksMeetReference
<1>6. \A c : Says(c, Chunk(words, first), 1, last - first) <=> Says(c, words, first + 1, last)
  BY <1>2, <1>3, SaysOfPart
<1> QED
  BY <1>5, <1>6

LEMMA FoundInit == Init => StartInv /\ FoundAttemptsExist
  BY DEF Init, StartInv, FoundAttemptsExist

LEMMA FoundStep ==
  TypeOK /\ SpanInv /\ StartInv /\ FoundAttemptsExist /\ [Next]_vars
    => StartInv' /\ FoundAttemptsExist'
<1> SUFFICES ASSUME TypeOK, SpanInv, StartInv, FoundAttemptsExist, [Next]_vars
             PROVE  StartInv' /\ FoundAttemptsExist'
  OBVIOUS
<1> DEFINE Within(h) == pc[h] = "chunks" => start[h] < Len(text[h])
           Exist(h) == \A c \in Indicators \cap found[h] : Says(c, text[h], 1, Len(text[h]))
<1>1. ASSUME NEW g \in Handlers PROVE Within(g) /\ Exist(g)
  BY <1>1 DEF StartInv, FoundAttemptsExist
<1>2. ASSUME NEW h \in Handlers, HandlerStep(h), NEW g \in Handlers, g # h
      PROVE  Within(g)' /\ Exist(g)'
  BY <1>1, <1>2, OthersStay DEF request
<1>3. ASSUME NEW h \in Handlers, HandlerStep(h) PROVE Within(h)' /\ Exist(h)'
  <2>0. text[h] \in Seq(Words) /\ Len(text[h]) \in Nat /\ start[h] \in Nat
    BY DEF TypeOK
  <2>a. Within(h) /\ Exist(h)
    BY <1>1
  <2>b. text' = text /\ pc' \in [Handlers -> {"received", "chunks", "acquire", "windows",
                                            "answered", "refused"}]
    <3>1. text' = text
      BY <1>3 DEF HandlerStep, ModelStep, Refuse, Receive, CheckChunk, Acquire, ClassifyMalicious,
             ClassifyBenign, NextWindow, ModerateWindow, Raises, request
    <3>2. ModelStage(h) \in {"answered", "acquire"}
      BY DEF ModelStage
    <3> QED
      BY <1>3, <3>1, <3>2 DEF HandlerStep, ModelStep, Refuse, Receive, CheckChunk, Acquire,
           ClassifyMalicious, ClassifyBenign, NextWindow, ModerateWindow, Raises, Goes, TypeOK
  <2>1. CASE Refuse(h)
    BY <2>a, <2>b, <2>1 DEF Refuse, Goes, TypeOK
  <2>2. CASE Receive(h)
    <3>1. start[h] = 0 \/ path[h] # "classify"
      BY <2>2 DEF Receive, Goes, SpanInv
    <3>2. pc'[h] = "chunks" => path[h] = "classify" /\ text[h] # << >>
      BY <2>2 DEF Receive, Goes, ModelStage, TypeOK
    <3>3. start' = start /\ found' = found
      BY <2>2 DEF Receive
    <3>4. text[h] # << >> => 0 < Len(text[h])
      BY <2>0
    <3> QED
      BY <2>a, <2>b, <3>1, <3>2, <3>3, <3>4
  <2>3. CASE CheckChunk(h)
    <3>1. /\ pc[h] = "chunks" /\ start'[h] = start[h] + Step
          /\ pc'[h] = "chunks" => ~(start[h] + ChunkSize >= Len(text[h]))
          /\ found'[h] = found[h] \cup Attempts(Chunk(text[h], start[h]))
      BY <2>3 DEF CheckChunk, Goes, ModelStage, TypeOK
    <3>2. Within(h)'
      BY <2>0, <2>b, <3>1, StepIsNat, ChunksAssumption DEF ChunksAssumption
    <3> DEFINE last == IF start[h] + ChunkSize < Len(text[h]) THEN start[h] + ChunkSize
                       ELSE Len(text[h])
    <3>3. last \in Nat /\ last <= Len(text[h]) /\ start[h] <= Len(text[h])
      BY <2>0, <2>a, <3>1, ChunksAssumption DEF ChunksAssumption
    <3>4. Attempts(Chunk(text[h], start[h]))
            = {c \in Indicators : Says(c, text[h], start[h] + 1, last)}
      BY <2>0, <3>3, ChunkAttempts
    <3>5. \A c : Says(c, text[h], start[h] + 1, last) => Says(c, text[h], 1, Len(text[h]))
      BY <2>0, <3>3, SaysMore
    <3> QED
      BY <2>a, <2>b, <3>1, <3>2, <3>4, <3>5
  <2>4. CASE Acquire(h)
    BY <2>a, <2>b, <2>4 DEF Acquire, Goes, TypeOK
  <2>5. CASE ModelStep(h)
    <3>1. pc'[h] # "chunks"
      BY <2>5 DEF ModelStep, ClassifyMalicious, ClassifyBenign, ModerateWindow, Raises,
             NextWindow, Goes, TypeOK
    <3>2. ModelFinding \notin Indicators /\ \A p : Exceptional(p) \notin Indicators
      BY DEF ModelFinding, Exceptional, Indicators
    <3>3. found'[h] \cap Indicators \subseteq found[h]
      <4>1. CASE ClassifyMalicious(h)
        BY <3>2, <4>1 DEF ClassifyMalicious, TypeOK
      <4>2. CASE ClassifyBenign(h)
        BY <4>2 DEF ClassifyBenign
      <4>3. CASE ModerateWindow(h)
        <5>1. window[h] \in DOMAIN windows[h]
          BY <4>3 DEF ModerateWindow, TypeOK
        <5>2. windows[h][window[h]] \cap Indicators = {}
          BY <5>1, Lengths, ChunksAssumption DEF ChunksAssumption
        <5> QED
          BY <4>3, <5>2 DEF ModerateWindow, TypeOK
      <4>4. CASE Raises(h)
        BY <3>2, <4>4 DEF Raises, TypeOK
      <4> QED
        BY <2>5, <4>1, <4>2, <4>3, <4>4 DEF ModelStep
    <3> QED
      BY <2>a, <2>b, <3>1, <3>3
  <2> QED
    BY <1>3, <2>1, <2>2, <2>3, <2>4, <2>5 DEF HandlerStep
<1>4. CASE UNCHANGED vars
  BY <1>1, <1>4 DEF vars, request, StartInv, FoundAttemptsExist
<1>5. CASE \E h \in Handlers : HandlerStep(h)
  <2>1. \A g \in Handlers : Within(g)' /\ Exist(g)'
    BY <1>2, <1>3, <1>5
  <2> QED
    BY <2>1 DEF StartInv, FoundAttemptsExist
<1> QED
  BY <1>4, <1>5 DEF Next, Finished

-----------------------------------------------------------------------------
LEMMA GuardInvariant == Spec => []GuardInv
<1>1. Init => GuardInv
  BY TypeInit, SpanInit, CleanInit, LabelInit, LockInit, FoundInit DEF GuardInv
<1>2. GuardInv /\ [Next]_vars => GuardInv'
  BY TypeStep, SpanStep, CleanStep, LabelStep, LockStep, FoundStep DEF GuardInv
<1> QED
  BY <1>1, <1>2, PTL DEF Spec

(* Types; a thread looks only at windows its text has.                     *)
THEOREM GuardTypes == Spec => []TypeOK
  BY GuardInvariant, PTL DEF GuardInv

(* run_checks: whatever the sizes, the windows leave no span of Overlap + 1*)
(* words uncovered.                                                        *)
THEOREM SpansAreChecked == Spec => []EverySpanIsChecked
<1>1. GuardInv => EverySpanIsChecked
  BY DEF GuardInv, SpanInv, Covered, EverySpanIsChecked, Answered
<1> QED
  BY <1>1, GuardInvariant, PTL

(* An answer without indicators or labels is that of a clean text, and     *)
(* get_labels returns the labels of all windows unless the model raises.   *)
THEOREM AnswersAreTrue == Spec => []AnswersReflectWindows
<1>1. GuardInv => AnswersReflectWindows
  BY DEF GuardInv, AnswersReflectWindows
<1> QED
  BY <1>1, GuardInvariant, PTL

(* _CLASSIFIER_LOCK is held exactly during an inference, by one thread.    *)
THEOREM OneInferencePerModel == Spec => []LockFollowsInference
  BY GuardInvariant, PTL DEF GuardInv

(* Replacing, dropping and cutting invent no attempt: an indicator of      *)
(* run_checks stands in the text, whatever its length and the windows.     *)
THEOREM FoundStandsInText == Spec => []FoundAttemptsExist
  BY GuardInvariant, PTL DEF GuardInv

(* run_checks reports every attempt whose words span at most Overlap + 1   *)
(* positions, wherever it begins.                                          *)
THEOREM ShortAttemptsFound == Spec => []ShortAttemptsAreFound
<1>1. ASSUME GuardInv, NEW h \in Handlers, Answered(h), path[h] = "classify",
             NEW c \in Indicators, NEW i \in 1..Len(text[h]), NEW to,
             to = IF i + Overlap < Len(text[h]) THEN i + Overlap ELSE Len(text[h]),
             Says(c, text[h], i, to)
      PROVE  c \in found[h]
  <2>1. text[h] \in Seq(Words) /\ Len(text[h]) \in Nat /\ Overlap \in Nat /\ ChunkSize \in Nat
    BY <1>1, ChunksAssumption DEF GuardInv, TypeOK, ChunksAssumption
  <2>2. PICK first \in 0..(i - 1) :
           /\ i + Overlap <= first + ChunkSize \/ Len(text[h]) <= first + ChunkSize
           /\ Attempts(Chunk(text[h], first)) \subseteq found[h]
    BY <1>1 DEF GuardInv, SpanInv, Covered, Answered
  <2> DEFINE last == IF first + ChunkSize < Len(text[h]) THEN first + ChunkSize ELSE Len(text[h])
  <2>3. /\ first \in Nat /\ first <= Len(text[h]) /\ first + 1 \in Nat /\ first + 1 <= i
        /\ last \in Nat /\ to \in Nat /\ to <= last /\ i \in Nat
    BY <1>1, <2>1, <2>2
  <2>4. Says(c, text[h], first + 1, last)
    BY <1>1, <2>3, SaysMore
  <2> QED
    BY <2>1, <2>2, <2>3, <2>4, ChunkAttempts
<1>2. GuardInv => ShortAttemptsAreFound
  BY <1>1 DEF ShortAttemptsAreFound
<1> QED
  BY <1>2, GuardInvariant, PTL
=============================================================================
