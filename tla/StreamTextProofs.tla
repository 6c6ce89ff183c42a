-------------------------- MODULE StreamTextProofs --------------------------
(***************************************************************************)
(* Proofs about StreamText for answers of any length, cut in any way.      *)
(*                                                                         *)
(* The parsers run loops over a text, so the proofs need induction over    *)
(* the naturals.  It is done with sets instead of predicates: the set of   *)
(* the numbers for which something holds has no least gap.                 *)
(***************************************************************************)
EXTENDS StreamText, Integers, SequenceTheorems, WellFoundedInduction, TLAPS

-----------------------------------------------------------------------------
(* Induction and recursion. *)

\* A set of naturals that is not empty has a least member.
LEMMA Least ==
    ASSUME NEW T \in SUBSET Nat, T # {}
    PROVE  \E m \in T : \A k \in T : m <= k
<1> DEFINE R == OpToRel(<, Nat)
<1>1. IsWellFoundedOn(R, Nat)
  BY NatLessThanWellFounded
<1>2. \A x, y \in Nat : <<x, y>> \in R <=> x < y
  BY DEF OpToRel
<1> HIDE DEF R
<1>3. PICK x \in T : \A y \in T : ~ (<<y, x>> \in R)
  BY <1>1, WFMin
<1>4. \A y \in T : ~ (y < x)
  BY <1>2, <1>3, Zenon
<1>5. x \in Nat /\ T \subseteq Nat
  OBVIOUS
<1> QED BY <1>4, <1>5

\* A set of naturals with a bound has a greatest member.
LEMMA Greatest ==
    ASSUME NEW N \in Nat, NEW T \in SUBSET (0 .. N), T # {}
    PROVE  \E m \in T : \A k \in T : k <= m
<1> DEFINE U == {n \in Nat : N - n \in T}
<1>1. U # {}
  <2>1. PICK k \in T : k \in 0 .. N
    OBVIOUS
  <2>2. N - k \in Nat /\ N - (N - k) = k
    BY <2>1
  <2> QED BY <2>1, <2>2
<1>2. PICK n \in U : \A k \in U : n <= k
  BY <1>1, Least
<1>3. N - n \in T
  OBVIOUS
<1>4. ASSUME NEW k \in T PROVE k <= N - n
  <2>1. k \in 0 .. N /\ N - k \in Nat /\ N - (N - k) = k
    OBVIOUS
  <2>2. N - k \in U
    BY <2>1
  <2> QED BY <1>2, <2>1, <2>2
<1> QED BY <1>3, <1>4

\* Induction: a set with 0, and with n + 1 for each n in it, has all naturals.
LEMMA Induction ==
    ASSUME NEW T, 0 \in T, \A n \in Nat : n \in T => n + 1 \in T
    PROVE  \A n \in Nat : n \in T
<1> SUFFICES ASSUME Nat \ T # {} PROVE FALSE
  OBVIOUS
<1>1. PICK m \in Nat \ T : \A k \in Nat \ T : m <= k
  BY Least
<1>2. m - 1 \in Nat /\ m - 1 \in T
  BY <1>1
<1> QED BY <1>1, <1>2

\* What holds of lo and of each number after one it holds of, holds up to hi.
LEMMA UpTo ==
    ASSUME NEW lo \in Nat, NEW hi \in Nat, NEW T,
           lo \in T, \A n \in lo + 1 .. hi : n - 1 \in T => n \in T
    PROVE  \A n \in lo .. hi : n \in T
<1> DEFINE U == {n \in Nat : lo + n > hi \/ lo + n \in T}
<1>1. 0 \in U
  OBVIOUS
<1>2. ASSUME NEW n \in Nat, n \in U PROVE n + 1 \in U
  <2>1. CASE lo + (n + 1) > hi
    BY <2>1
  <2>2. CASE lo + (n + 1) <= hi
    <3>1. /\ lo + (n + 1) \in lo + 1 .. hi
          /\ (lo + (n + 1)) - 1 = lo + n
      BY <2>2
    <3>2. lo + n \in T
      BY <1>2, <2>2
    <3> QED BY <3>1, <3>2
  <2> QED BY <2>1, <2>2
<1>3. \A n \in Nat : n \in U
  <2> HIDE DEF U
  <2> QED BY <1>1, <1>2, Induction
<1>4. ASSUME NEW n \in lo .. hi PROVE n \in T
  <2>1. n - lo \in Nat /\ lo + (n - lo) = n
    OBVIOUS
  <2>2. n - lo \in U
    BY <1>3, <2>1
  <2> QED BY <2>1, <2>2
<1> QED BY <1>4

\* The ways to make a value from the one before, for each number or for all.
NumberedSteps(lo, hi, S) == [lo .. hi -> [S -> S]]
Steps(S) == [S -> S]

\* g begins with e and makes each value from the one before.
NumberedRun(g, lo, hi, S, e, F) ==
    /\ g \in [lo .. hi -> S]
    /\ g[lo] = e /\ \A n \in lo + 1 .. hi : g[n] = F[n][g[n - 1]]

Run(g, N, S, e, G) ==
    /\ g \in [0 .. N -> S]
    /\ g[0] = e /\ \A n \in 1 .. N : g[n] = G[g[n - 1]]

\* There is a function with a given first value whose others are made from
\* their number and the value before: what a recursive definition promises.
LEMMA Recursion ==
    ASSUME NEW lo \in Nat, NEW hi \in Nat, lo <= hi, NEW S, NEW e \in S,
           NEW F \in NumberedSteps(lo, hi, S)
    PROVE  \E g : NumberedRun(g, lo, hi, S, e, F)
<1> DEFINE Runs(g, m) ==
               /\ g \in [lo .. m -> S]
               /\ g = [n \in lo .. m |-> IF n = lo THEN e ELSE F[n][g[n - 1]]]
           T == {m \in lo .. hi : \E g : Runs(g, m)}
<1>1. lo \in T
  <2> DEFINE h == [n \in lo .. lo |-> e]
  <2>1. \A n \in lo .. lo : n = lo
    OBVIOUS
  <2>2. h = [n \in lo .. lo |-> IF n = lo THEN e ELSE F[n][h[n - 1]]]
    BY <2>1
  <2>3. Runs(h, lo)
    BY <2>2
  <2> QED
    <3> HIDE DEF Runs
    <3>1. lo \in lo .. hi
      OBVIOUS
    <3> QED BY <2>3, <3>1
<1>2. ASSUME NEW m \in lo + 1 .. hi, m - 1 \in T PROVE m \in T
  <2>1. PICK g : Runs(g, m - 1)
    BY <1>2
  <2> DEFINE h == [n \in lo .. m |-> IF n = m THEN F[m][g[m - 1]] ELSE g[n]]
  <2>2. \A n \in lo .. m - 1 : h[n] = g[n] /\ g[n] \in S
    BY <2>1
  <2>3. h \in [lo .. m -> S]
    <3>1. F[m] \in [S -> S] /\ g[m - 1] \in S
      <4>1. m \in lo .. hi /\ m - 1 \in lo .. m - 1
        OBVIOUS
      <4>2. g[m - 1] \in S
        BY <2>2, <4>1
      <4> HIDE DEF h
      <4> QED BY <4>1, <4>2 DEF NumberedSteps
    <3>2. F[m][g[m - 1]] \in S
      BY <3>1
    <3>3. \A n \in lo .. m : n # m => n \in lo .. m - 1
      OBVIOUS
    <3> QED BY <2>2, <3>2, <3>3
  <2>4. ASSUME NEW n \in lo .. m
        PROVE  h[n] = IF n = lo THEN e ELSE F[n][h[n - 1]]
    <3>1. CASE n = m
      BY <2>2, <3>1
    <3>2. CASE n # m
      <4>1. n \in lo .. m - 1 /\ (n # lo => n - 1 \in lo .. m - 1)
        BY <3>2
      <4>2. g[n] = IF n = lo THEN e ELSE F[n][g[n - 1]]
        BY <2>1, <4>1
      <4> QED BY <2>2, <4>1, <4>2
    <3> QED BY <3>1, <3>2
  <2>5. h = [n \in lo .. m |-> IF n = lo THEN e ELSE F[n][h[n - 1]]]
    <3> HIDE DEF h
    <3> QED BY <2>3, <2>4
  <2>6. Runs(h, m)
    BY <2>3, <2>5
  <2> QED
    <3> HIDE DEF Runs
    <3> QED BY <2>6
<1>3. hi \in T
  <2> HIDE DEF T
  <2>1. \A n \in lo .. hi : n \in T
    BY <1>1, <1>2, UpTo
  <2> QED BY <2>1
<1>4. PICK g \in [lo .. hi -> S] :
         g = [n \in lo .. hi |-> IF n = lo THEN e ELSE F[n][g[n - 1]]]
  BY <1>3
<1>5. NumberedRun(g, lo, hi, S, e, F)
  BY <1>4 DEF NumberedRun
<1> QED BY <1>5

\* The same when every value is made from the one before in the same way.
LEMMA Iteration ==
    ASSUME NEW N \in Nat, NEW S, NEW e \in S, NEW G \in Steps(S)
    PROVE  \E g : Run(g, N, S, e, G)
<1> DEFINE F == [n \in 0 .. N |-> G]
<1>1. F \in NumberedSteps(0, N, S) /\ 0 \in Nat /\ 0 <= N
  BY DEF NumberedSteps, Steps
<1>2. \A n \in 0 .. N : F[n] = G
  OBVIOUS
<1> HIDE DEF F
<1>3. PICK g : NumberedRun(g, 0, N, S, e, F)
  BY <1>1, Recursion, Zenon
<1>4. Run(g, N, S, e, G)
  BY <1>2, <1>3 DEF NumberedRun, Run
<1> QED BY <1>4

-----------------------------------------------------------------------------
(* Texts over an alphabet. *)

\* Index finds the first occurrence of a tag in a text, if there is one.
LEMMA IndexValue ==
    ASSUME NEW A, NEW text \in Seq(A), NEW tag, Len(tag) \in Nat \ {0}
    PROVE  /\ Index(text, tag) \in Nat
           /\ Index(text, tag) # 0 =>
                 /\ Index(text, tag) \in 1 .. Len(text) - Len(tag) + 1
                 /\ SubSeq(text, Index(text, tag),
                           Index(text, tag) + Len(tag) - 1) = tag
           /\ \A i \in 1 .. Len(text) - Len(tag) + 1 :
                 SubSeq(text, i, i + Len(tag) - 1) = tag =>
                    Index(text, tag) # 0 /\ Index(text, tag) <= i
<1> DEFINE at == {i \in 1 .. Len(text) - Len(tag) + 1 :
                     SubSeq(text, i, i + Len(tag) - 1) = tag}
<1>1. Len(text) \in Nat
  BY LenProperties
<1>2. at \in SUBSET Nat /\ at \subseteq 1 .. Len(text) - Len(tag) + 1
  BY <1>1
<1>3. Index(text, tag) = IF at = {} THEN 0
                         ELSE CHOOSE i \in at : \A j \in at : i <= j
  BY DEF Index
<1>4. CASE at = {}
  <2>1. \A i \in 1 .. Len(text) - Len(tag) + 1 :
           SubSeq(text, i, i + Len(tag) - 1) # tag
    BY <1>4
  <2> HIDE DEF at
  <2>2. Index(text, tag) = 0
    BY <1>3, <1>4
  <2>3. Index(text, tag) \in Nat
    BY <2>2
  <2> QED BY <2>1, <2>2, <2>3, Zenon
<1>5. CASE at # {}
  <2> HIDE DEF at
  <2>1. \E i \in at : \A j \in at : i <= j
    BY <1>2, <1>5, Least
  <2>2. Index(text, tag) \in at /\ \A j \in at : Index(text, tag) <= j
    BY <1>3, <1>5, <2>1
  <2>3. Index(text, tag) \in 1 .. Len(text) - Len(tag) + 1
    BY <1>2, <2>2
  <2> QED BY <1>1, <2>2, <2>3 DEF at
<1> QED BY <1>4, <1>5

\* Where a tag can be.
LEMMA IndexRange ==
    ASSUME NEW A, NEW text \in Seq(A), NEW tag, Len(tag) \in Nat \ {0}
    PROVE  /\ Index(text, tag) \in Nat
           /\ Index(text, tag) # 0 => /\ Index(text, tag) \in 1 .. Len(text)
                                      /\ Index(text, tag) + Len(tag) <= Len(text) + 1
<1>1. Len(text) \in Nat
  BY LenProperties
<1>2. /\ Index(text, tag) \in Nat
      /\ Index(text, tag) # 0 => Index(text, tag) \in 1 .. Len(text) - Len(tag) + 1
  BY IndexValue
<1> QED BY <1>1, <1>2

\* What is kept of a text is an end of it that is shorter than the tag.
LEMMA SuffixPrefixValue ==
    ASSUME NEW A, NEW text \in Seq(A), NEW tag, Len(tag) \in Nat \ {0}
    PROVE  /\ SuffixPrefixLength(text, tag) \in 0 .. Len(text)
           /\ SuffixPrefixLength(text, tag) < Len(tag)
           /\ SuffixPrefixLength(text, tag) # 0 =>
                 IsSuffix(SubSeq(tag, 1, SuffixPrefixLength(text, tag)), text)
           /\ \A k \in 1 .. Len(tag) - 1 :
                 k <= Len(text) /\ IsSuffix(SubSeq(tag, 1, k), text) =>
                    k <= SuffixPrefixLength(text, tag)
<1> DEFINE keeps == {k \in 1 .. Len(tag) - 1 :
                        k <= Len(text) /\ IsSuffix(SubSeq(tag, 1, k), text)}
           kept == SuffixPrefixLength(text, tag)
<1>1. Len(text) \in Nat
  BY LenProperties
<1>2. keeps \in SUBSET (0 .. Len(tag)) /\ keeps \subseteq 1 .. Len(tag) - 1
  OBVIOUS
<1>3. kept = IF keeps = {} THEN 0
             ELSE CHOOSE k \in keeps : \A l \in keeps : l <= k
  BY DEF SuffixPrefixLength
<1>4. CASE keeps = {}
  BY <1>1, <1>3, <1>4
<1>5. CASE keeps # {}
  <2>1. \E k \in keeps : \A l \in keeps : l <= k
    <3> HIDE DEF keeps
    <3> QED BY <1>2, <1>5, Greatest
  <2>2. kept \in keeps /\ \A l \in keeps : l <= kept
    <3> HIDE DEF keeps
    <3> QED BY <1>3, <1>5, <2>1
  <2> HIDE DEF kept
  <2>3. kept \in 1 .. Len(tag) - 1 /\ kept <= Len(text)
        /\ IsSuffix(SubSeq(tag, 1, kept), text)
    BY <2>2
  <2>4. \A k \in 1 .. Len(tag) - 1 :
           k <= Len(text) /\ IsSuffix(SubSeq(tag, 1, k), text) => k <= kept
    BY <2>2
  <2> QED BY <1>1, <2>3, <2>4 DEF kept
<1> QED BY <1>4, <1>5

\* The parts of a text.
LEMMA PartTypes ==
    ASSUME NEW A, NEW text \in Seq(A), NEW i \in 1 .. Len(text) + 1
    PROVE  /\ Before(text, i) \in Seq(A) /\ Len(Before(text, i)) = i - 1
           /\ From(text, i) \in Seq(A) /\ Len(From(text, i)) = Len(text) + 1 - i
           /\ \A j \in 1 .. i - 1 : Before(text, i)[j] = text[j]
           /\ \A j \in 1 .. Len(text) + 1 - i : From(text, i)[j] = text[i + j - 1]
<1>1. Len(text) \in Nat /\ \A j \in 1 .. Len(text) : text[j] \in A
  BY LenProperties, ElementOfSeq
<1>2. /\ SubSeq(text, 1, i - 1) \in Seq(A)
      /\ Len(SubSeq(text, 1, i - 1)) = IF 1 <= i - 1 THEN (i - 1) - 1 + 1 ELSE 0
      /\ \A j \in 1 .. (i - 1) - 1 + 1 : SubSeq(text, 1, i - 1)[j] = text[1 + j - 1]
  <2>1. 1 \in Int /\ i - 1 \in Int /\ \A j \in 1 .. i - 1 : text[j] \in A
    BY <1>1
  <2> QED BY <2>1, SubSeqProperties
<1>3. /\ SubSeq(text, i, Len(text)) \in Seq(A)
      /\ Len(SubSeq(text, i, Len(text))) =
            IF i <= Len(text) THEN Len(text) - i + 1 ELSE 0
      /\ \A j \in 1 .. Len(text) - i + 1 :
            SubSeq(text, i, Len(text))[j] = text[i + j - 1]
  <2>1. i \in Int /\ Len(text) \in Int /\ \A j \in i .. Len(text) : text[j] \in A
    BY <1>1
  <2> QED BY <2>1, SubSeqProperties
<1> QED BY <1>1, <1>2, <1>3 DEF Before, From

\* The end that is kept and what comes before it.
LEMMA CarryTypes ==
    ASSUME NEW A, NEW text \in Seq(A), NEW tag, Len(tag) \in Nat \ {0}
    PROVE  Clean(text, tag) \in Seq(A) /\ Carry(text, tag) \in Seq(A)
<1>1. Len(text) \in Nat
  BY LenProperties
<1>2. Len(text) + 1 - SuffixPrefixLength(text, tag) \in 1 .. Len(text) + 1
  BY <1>1, SuffixPrefixValue
<1> QED BY <1>2, PartTypes DEF Clean, Carry

\* The lengths of tags.
LEMMA TagLengths ==
    ASSUME NEW name
    PROVE  /\ Len(OpenTag(name)) = 2 /\ Len(OpenTag(name)) \in Nat \ {0}
           /\ Len(StartTag(name)) = 3 /\ Len(StartTag(name)) \in Nat \ {0}
           /\ Len(EndTag(name)) = 4 /\ Len(EndTag(name)) \in Nat \ {0}
           /\ Len(<<">">>) = 1 /\ Len(<<">">>) \in Nat \ {0}
BY DEF OpenTag, StartTag, EndTag

\* Texts put together: each comes after what those before it make.
Flattens(g, texts, A) ==
    /\ g \in [0 .. Len(texts) -> Seq(A)]
    /\ g[0] = <<>> /\ \A n \in 1 .. Len(texts) : g[n] = g[n - 1] \o texts[n]

\* That is what FlattenSeq does.
LEMMA FlattenRun ==
    ASSUME NEW A, NEW texts \in Seq(Seq(A))
    PROVE  /\ \E g : Flattens(g, texts, A)
           /\ \A g : Flattens(g, texts, A) => FlattenSeq(texts) = g[Len(texts)]
<1> DEFINE N == Len(texts)
           F == [n \in 0 .. N |->
                    IF n = 0 THEN [s \in Seq(A) |-> s] ELSE [s \in Seq(A) |-> s \o texts[n]]]
           flat == CHOOSE g : g = [i \in 1 .. N |->
                                     IF i = 1 THEN texts[i] ELSE g[i - 1] \o texts[i]]
<1>1. N \in Nat /\ \A i \in 1 .. N : texts[i] \in Seq(A)
  BY LenProperties, ElementOfSeq
<1>2. \E g : Flattens(g, texts, A)
  <2>1. F \in NumberedSteps(0, N, Seq(A))
    <3>1. ASSUME NEW n \in 0 .. N
          PROVE  (IF n = 0 THEN [s \in Seq(A) |-> s] ELSE [s \in Seq(A) |-> s \o texts[n]])
                    \in [Seq(A) -> Seq(A)]
      <4>1. CASE n = 0
        BY <4>1
      <4>2. CASE n # 0
        <5>1. texts[n] \in Seq(A)
          BY <1>1, <4>2
        <5>2. \A s \in Seq(A) : s \o texts[n] \in Seq(A)
          BY <5>1, ConcatProperties
        <5> QED BY <4>2, <5>2
      <4> QED BY <4>1, <4>2
    <3> QED BY <3>1 DEF NumberedSteps
  <2>2. \A n \in 1 .. N : \A s \in Seq(A) : F[n][s] = s \o texts[n]
    BY <1>1
  <2>3. <<>> \in Seq(A) /\ 0 \in Nat /\ 0 <= N
    BY <1>1
  <2> HIDE DEF N, F
  <2>4. PICK g : NumberedRun(g, 0, N, Seq(A), <<>>, F)
    BY <1>1, <2>1, <2>3, Recursion, Zenon
  <2>5. g \in [0 .. N -> Seq(A)] /\ g[0] = <<>>
    BY <2>4 DEF NumberedRun
  <2>6. \A n \in 1 .. N : g[n] = g[n - 1] \o texts[n]
    <3> SUFFICES ASSUME NEW n \in 1 .. N PROVE g[n] = g[n - 1] \o texts[n]
      OBVIOUS
    <3>1. n \in 0 + 1 .. N /\ n - 1 \in 0 .. N
      BY <1>1
    <3>2. g[n] = F[n][g[n - 1]]
      BY <2>4, <3>1 DEF NumberedRun
    <3>3. g[n - 1] \in Seq(A)
      BY <2>5, <3>1
    <3> QED BY <2>2, <3>2, <3>3
  <2> QED BY <2>5, <2>6 DEF Flattens, N
<1>3. ASSUME NEW g, Flattens(g, texts, A) PROVE FlattenSeq(texts) = g[N]
  <2>1. /\ g \in [0 .. N -> Seq(A)] /\ g[0] = <<>>
        /\ \A n \in 1 .. N : g[n] = g[n - 1] \o texts[n]
    BY <1>3 DEF Flattens
  <2>2. CASE N = 0
    <3>1. FlattenSeq(texts) = texts /\ texts = <<>>
      BY <2>2, EmptySeq DEF FlattenSeq
    <3> QED BY <2>1, <2>2, <3>1
  <2>3. CASE N # 0
    <3>1. FlattenSeq(texts) = flat[N]
      BY <2>3 DEF FlattenSeq
    <3>2. 1 \in Nat /\ 1 \in 1 .. N /\ N \in 1 .. N
      BY <1>1, <2>3
    <3>3. g[1] = texts[1]
      <4>1. g[1] = <<>> \o texts[1] /\ texts[1] \in Seq(A)
        <5>1. 1 - 1 = 0
          OBVIOUS
        <5> QED BY <1>1, <2>1, <3>2, <5>1
      <4> QED BY <4>1, ConcatEmptySeq
    <3> HIDE DEF N, flat
    <3>4. [i \in 1 .. N |-> g[i]] =
             [i \in 1 .. N |-> IF i = 1 THEN texts[i]
                               ELSE [k \in 1 .. N |-> g[k]][i - 1] \o texts[i]]
      <4>1. \A i \in 1 .. N : i # 1 => i - 1 \in 1 .. N
        BY <1>1
      <4>2. \A i \in 1 .. N :
               g[i] = IF i = 1 THEN texts[i]
                      ELSE [k \in 1 .. N |-> g[k]][i - 1] \o texts[i]
        BY <2>1, <3>3, <4>1
      <4> QED BY <4>2
    <3>5. flat = [i \in 1 .. N |-> IF i = 1 THEN texts[i] ELSE flat[i - 1] \o texts[i]]
      BY <3>4 DEF flat
    <3> DEFINE T == {n \in 1 .. N : flat[n] = g[n]}
    <3>6. 1 \in T
      BY <3>2, <3>3, <3>5
    <3>7. ASSUME NEW n \in 1 + 1 .. N, n - 1 \in T PROVE n \in T
      <4>1. n \in 1 .. N /\ n # 1
        BY <1>1
      <4>2. flat[n] = flat[n - 1] \o texts[n] /\ g[n] = g[n - 1] \o texts[n]
        BY <2>1, <3>5, <4>1
      <4> QED BY <3>7, <4>1, <4>2
    <3>8. N \in T
      <4> HIDE DEF T
      <4>1. \A n \in 1 .. N : n \in T
        BY <1>1, <3>2, <3>6, <3>7, UpTo
      <4> QED BY <3>2, <4>1
    <3> QED BY <3>1, <3>8
  <2> QED BY <2>2, <2>3
<1> QED BY <1>2, <1>3

\* Texts that are put together stay texts.
LEMMA FlattenType ==
    ASSUME NEW A, NEW texts \in Seq(Seq(A))
    PROVE  FlattenSeq(texts) \in Seq(A)
<1>1. PICK g : Flattens(g, texts, A)
  BY FlattenRun
<1>2. FlattenSeq(texts) = g[Len(texts)] /\ Len(texts) \in 0 .. Len(texts)
  BY <1>1, FlattenRun, LenProperties
<1> QED BY <1>1, <1>2 DEF Flattens

\* Texts can be put together in any order.
LEMMA Grouped ==
    ASSUME NEW A, NEW S, S = Seq(A)
    PROVE  \A x, y, z \in S : (x \o y) \o z = x \o (y \o z)
BY ConcatAssociative

\* Two rows of texts put together, one after the other.
LEMMA FlattenJoin ==
    ASSUME NEW A, NEW s \in Seq(Seq(A)), NEW t \in Seq(Seq(A))
    PROVE  FlattenSeq(s \o t) = FlattenSeq(s) \o FlattenSeq(t)
<1> DEFINE N == Len(s)
           M == Len(t)
           j == s \o t
<1>1. /\ N \in Nat /\ M \in Nat /\ j \in Seq(Seq(A)) /\ Len(j) = N + M
      /\ \A i \in 1 .. N + M : j[i] = IF i <= N THEN s[i] ELSE t[i - N]
      /\ \A i \in 1 .. M : t[i] \in Seq(A)
  BY LenProperties, ConcatProperties, ElementOfSeq
<1>2. PICK g : Flattens(g, s, A)
  BY FlattenRun
<1>3. PICK h : Flattens(h, t, A)
  BY FlattenRun
<1> HIDE DEF j
<1>4. /\ g \in [0 .. N -> Seq(A)] /\ g[0] = <<>>
      /\ \A n \in 1 .. N : g[n] = g[n - 1] \o s[n]
  BY <1>2 DEF Flattens
<1>5. /\ h \in [0 .. M -> Seq(A)] /\ h[0] = <<>>
      /\ \A n \in 1 .. M : h[n] = h[n - 1] \o t[n]
  BY <1>3 DEF Flattens
<1> HIDE DEF N, M
<1> DEFINE e == [n \in 0 .. N + M |-> IF n <= N THEN g[n] ELSE g[N] \o h[n - N]]
<1>6. g[N] \in Seq(A) /\ 0 \in 0 .. N /\ N \in 0 .. N /\ M \in 0 .. M
  BY <1>1, <1>4
<1>7. e \in [0 .. N + M -> Seq(A)]
  <2> SUFFICES ASSUME NEW n \in 0 .. N + M
               PROVE  (IF n <= N THEN g[n] ELSE g[N] \o h[n - N]) \in Seq(A)
    OBVIOUS
  <2>1. CASE n <= N
    <3>1. n \in 0 .. N
      BY <1>1, <2>1
    <3> QED BY <1>4, <2>1, <3>1
  <2>2. CASE ~(n <= N)
    <3>1. n - N \in 0 .. M
      BY <1>1, <2>2
    <3>2. h[n - N] \in Seq(A)
      BY <1>5, <3>1
    <3>3. g[N] \o h[n - N] \in Seq(A)
      BY <1>6, <3>2, ConcatProperties
    <3> QED BY <2>2, <3>3
  <2> QED BY <2>1, <2>2
<1>8. ASSUME NEW n \in 1 .. N + M PROVE e[n] = e[n - 1] \o j[n]
  <2>1. n \in 0 .. N + M /\ n - 1 \in 0 .. N + M
    BY <1>1
  <2>2. CASE n <= N
    <3>1. n \in 1 .. N /\ n - 1 <= N
      BY <1>1, <2>2
    <3>2. e[n] = g[n] /\ e[n - 1] = g[n - 1] /\ j[n] = s[n]
      BY <1>1, <2>1, <2>2, <3>1
    <3> HIDE DEF e
    <3> QED BY <1>4, <3>1, <3>2
  <2>3. CASE n = N + 1
    <3>1. ~(n <= N) /\ n - 1 <= N /\ n - 1 = N /\ n - N = 1 /\ 1 \in 1 .. M /\ 1 - 1 = 0
      BY <1>1, <2>3
    <3>2. e[n] = g[N] \o h[1] /\ e[n - 1] = g[N] /\ j[n] = t[1]
      BY <1>1, <2>1, <3>1
    <3>3. h[1] = <<>> \o t[1] /\ t[1] \in Seq(A)
      BY <1>1, <1>5, <3>1
    <3>4. h[1] = t[1]
      BY <3>3, ConcatEmptySeq
    <3> HIDE DEF e
    <3> QED BY <3>2, <3>4
  <2>4. CASE n > N + 1
    <3>1. /\ ~(n <= N) /\ ~(n - 1 <= N) /\ n - N \in 1 .. M
          /\ (n - 1) - N = (n - N) - 1 /\ (n - N) - 1 \in 0 .. M
      BY <1>1, <2>4
    <3>2. /\ e[n] = g[N] \o h[n - N] /\ e[n - 1] = g[N] \o h[(n - N) - 1]
          /\ j[n] = t[n - N]
      BY <1>1, <2>1, <3>1
    <3>3. h[n - N] = h[(n - N) - 1] \o t[n - N]
      BY <1>5, <3>1
    <3>4. h[(n - N) - 1] \in Seq(A) /\ t[n - N] \in Seq(A)
      BY <1>1, <1>5, <3>1
    <3>5. g[N] \o (h[(n - N) - 1] \o t[n - N]) = (g[N] \o h[(n - N) - 1]) \o t[n - N]
      <4> DEFINE S == Seq(A)
      <4>1. S = Seq(A)
        OBVIOUS
      <4> HIDE DEF S
      <4>2. \A x, y, z \in S : (x \o y) \o z = x \o (y \o z)
        BY <4>1, Grouped, SMTT(30)
      <4> QED BY <1>6, <3>4, <4>1, <4>2, Zenon
    <3> HIDE DEF e
    <3> QED BY <3>2, <3>3, <3>5
  <2> QED BY <1>1, <2>2, <2>3, <2>4
<1>9. e[0] = <<>> /\ e[N + M] = g[N] \o h[M]
  <2>1. e[0] = <<>>
    BY <1>1, <1>4
  <2>2. e[N + M] = g[N] \o h[M]
    <3>1. CASE M = 0
      <4>1. N + M = N /\ N <= N /\ N + M \in 0 .. N + M
        BY <1>1, <3>1
      <4>2. e[N + M] = g[N] /\ h[M] = <<>>
        BY <1>5, <3>1, <4>1
      <4> HIDE DEF e
      <4> QED BY <1>6, <4>2, ConcatEmptySeq
    <3>2. CASE M # 0
      <4>1. N + M \in 0 .. N + M /\ ~(N + M <= N) /\ (N + M) - N = M
        BY <1>1, <3>2
      <4> QED BY <4>1
    <3> QED BY <3>1, <3>2
  <2> QED BY <2>1, <2>2
<1> HIDE DEF e
<1>10. Flattens(e, j, A)
  BY <1>1, <1>7, <1>8, <1>9 DEF Flattens
<1>11. FlattenSeq(j) = e[N + M]
  BY <1>1, <1>10, FlattenRun
<1>12. FlattenSeq(s) = g[N] /\ FlattenSeq(t) = h[M]
  BY <1>2, <1>3, FlattenRun DEF N, M
<1> QED BY <1>9, <1>11, <1>12 DEF j

\* Where a card's line begins and ends.
LineEnds == {Break, NewLine}

\* What is taken of a text symbol by symbol is a text.
LEMMA CardWordsType ==
    ASSUME NEW A, NEW raw \in Seq(A)
    PROVE  CardWords(raw) \in Seq(A)
<1> DEFINE pieces == [k \in 1 .. Len(raw) |-> IF Stays(raw, k) THEN <<raw[k]>> ELSE <<>>]
<1>1. Len(raw) \in Nat /\ \A k \in 1 .. Len(raw) : raw[k] \in A
  BY LenProperties, ElementOfSeq
<1>2. \A k \in 1 .. Len(raw) : pieces[k] \in Seq(A)
  BY <1>1
<1>3. pieces \in Seq(Seq(A))
  BY <1>1, <1>2, IsASeq
<1>4. CardWords(raw) = FlattenSeq(pieces)
  BY DEF CardWords
<1> HIDE DEF pieces
<1> QED BY <1>3, <1>4, FlattenType

\* A card's line has nothing but symbols of the card between its ends.
LEMMA CardLineType ==
    ASSUME NEW A, LineEnds \subseteq A, NEW raw \in Seq(A)
    PROVE  CardLine(raw) \in Seq(A)
<1>1. CardWords(raw) \in Seq(A)
  BY CardWordsType
<1>2. <<Break>> \in Seq(A) /\ <<NewLine>> \in Seq(A) /\ <<>> \in Seq(A)
  <2>1. Break \in A /\ NewLine \in A
    BY DEF LineEnds
  <2> QED BY <2>1
<1>3. (<<Break>> \o CardWords(raw)) \o <<NewLine>> \in Seq(A)
  BY <1>1, <1>2, ConcatProperties
<1> QED BY <1>2, <1>3 DEF CardLine

\* What is put in the place of each symbol of a text.
Places(text) == [k \in 1 .. Len(text) |-> Put(text, k)]

\* Texts, as many as it has symbols.
LEMMA PlacesType ==
    ASSUME NEW A, NewLine \in A, NEW text \in Seq(A)
    PROVE  Places(text) \in Seq(Seq(A)) /\ Len(Places(text)) = Len(text)
<1>1. Len(text) \in Nat /\ \A k \in 1 .. Len(text) : text[k] \in A
  BY LenProperties, ElementOfSeq
<1>2. \A k \in 1 .. Len(text) : Put(text, k) \in Seq(A)
  BY <1>1 DEF Put
<1> QED BY <1>1, <1>2, IsASeq DEF Places

\* Its newlines put in, a text keeps to its alphabet.
LEMMA SettledType ==
    ASSUME NEW A, NewLine \in A, NEW text \in Seq(A)
    PROVE  Settled(text) \in Seq(A)
<1>1. Settled(text) = FlattenSeq(Places(text))
  BY DEF Settled, Places
<1> QED BY <1>1, PlacesType, FlattenType

-----------------------------------------------------------------------------
(* The parsers keep to an alphabet: A is that of the text, B that of the   *)
(* buffer.                                                                 *)

Parsers(A, B) == [inside : BOOLEAN, partial : Seq(A), buffer : Seq(B), next : Nat]

Calls(B) == Seq([payload : Seq(B), index : Nat])

Results(A, B) == [p : Parsers(A, B), text : Seq(A), calls : Calls(B), rest : Seq(A)]

\* What a step over all of a text gives.
LEMMA ResultType ==
    ASSUME NEW A, NEW B, NEW p \in Parsers(A, B), NEW text \in Seq(A),
           NEW calls \in Calls(B), NEW rest \in Seq(A)
    PROVE  Result(p, text, calls, rest) \in Results(A, B)
BY DEF Result, Results

\* The parser of the dropped tag keeps to the alphabet.
LEMMA DropStepType ==
    ASSUME NEW A, NEW B, NEW p \in Parsers(A, B), NEW data \in Seq(A)
    PROVE  DropStep(p, data) \in Results(A, B)
<1> DEFINE open == OpenTag(DropTag)
           tag == EndTag(DropTag)
           start == Index(data, open)
           opened == From(data, start)
           close == Index(opened, <<">">>)
           end == Index(data, tag)
<1>1. <<>> \in Seq(A) /\ <<>> \in Calls(B)
  BY DEF Calls
<1>2. /\ Len(data) \in Nat
      /\ Len(open) = 2 /\ Len(open) \in Nat \ {0}
      /\ Len(tag) = 4 /\ Len(tag) \in Nat \ {0}
      /\ Len(<<">">>) = 1 /\ Len(<<">">>) \in Nat \ {0}
  BY LenProperties, TagLengths
<1>3. /\ Clean(data, open) \in Seq(A) /\ Carry(data, open) \in Seq(A)
      /\ Clean(data, tag) \in Seq(A) /\ Carry(data, tag) \in Seq(A)
  BY TagLengths, CarryTypes
<1>4. /\ start \in Nat /\ (start # 0 => start \in 1 .. Len(data))
      /\ end \in Nat /\ (end # 0 => end \in 1 .. Len(data) /\ end + 4 <= Len(data) + 1)
  <2>1. start \in Nat /\ (start # 0 => start \in 1 .. Len(data))
    BY <1>2, IndexRange
  <2>2. end \in Nat /\ (end # 0 => end \in 1 .. Len(data) /\ end + 4 <= Len(data) + 1)
    BY <1>2, IndexRange
  <2> QED BY <2>1, <2>2
<1>5. CASE ~p.inside /\ start = 0
  <2>1. DropStep(p, data) = Result([p EXCEPT !.partial = Carry(data, open)],
                                   Clean(data, open), <<>>, <<>>)
    BY <1>5 DEF DropStep, DropText
  <2>2. [p EXCEPT !.partial = Carry(data, open)] \in Parsers(A, B)
    BY <1>3 DEF Parsers
  <2> QED BY <1>1, <1>3, <2>1, <2>2, ResultType
<1>6. CASE ~p.inside /\ start # 0
  <2>1. Before(data, start) \in Seq(A) /\ opened \in Seq(A)
    BY <1>4, <1>6, PartTypes
  <2>2. CASE close = 0
    <3>1. DropStep(p, data) = Result([p EXCEPT !.partial = opened],
                                     Before(data, start), <<>>, <<>>)
      BY <1>6, <2>2 DEF DropStep, DropText
    <3>2. [p EXCEPT !.partial = opened] \in Parsers(A, B)
      BY <2>1 DEF Parsers
    <3> QED BY <1>1, <2>1, <3>1, <3>2, ResultType
  <2>3. CASE close # 0
    <3>1. DropStep(p, data) =
             Result([p EXCEPT !.inside = opened[close - 1] # "/"],
                    Before(data, start), <<>>, From(opened, close + 1))
      BY <1>6, <2>3 DEF DropStep, DropText
    <3>2. [p EXCEPT !.inside = opened[close - 1] # "/"] \in Parsers(A, B)
      BY DEF Parsers
    <3>3. From(opened, close + 1) \in Seq(A)
      <4>1. Len(opened) \in Nat
        BY <2>1, LenProperties
      <4>2. close \in 1 .. Len(opened)
        BY <1>2, <2>1, <2>3, <4>1, IndexRange
      <4>3. close + 1 \in 1 .. Len(opened) + 1
        BY <4>1, <4>2
      <4> HIDE DEF opened, close
      <4> QED BY <2>1, <4>3, PartTypes
    <3> QED BY <1>1, <2>1, <3>1, <3>2, <3>3, ResultType
  <2> QED BY <2>2, <2>3
<1>7. CASE p.inside /\ end = 0
  <2>1. DropStep(p, data) = Result([p EXCEPT !.partial = Carry(data, tag)],
                                   <<>>, <<>>, <<>>)
    BY <1>7 DEF DropStep, DropInside
  <2>2. [p EXCEPT !.partial = Carry(data, tag)] \in Parsers(A, B)
    BY <1>3 DEF Parsers
  <2> QED BY <1>1, <2>1, <2>2, ResultType
<1>8. CASE p.inside /\ end # 0
  <2>1. DropStep(p, data) = Result([p EXCEPT !.inside = FALSE],
                                   <<>>, <<>>, From(data, end + 4))
    BY <1>2, <1>8 DEF DropStep, DropInside
  <2>2. [p EXCEPT !.inside = FALSE] \in Parsers(A, B)
    BY DEF Parsers
  <2>3. end + 4 \in 1 .. Len(data) + 1
    BY <1>2, <1>4, <1>8
  <2>4. From(data, end + 4) \in Seq(A)
    BY <2>3, PartTypes
  <2> QED BY <1>1, <2>1, <2>2, <2>4, ResultType
<1> QED BY <1>5, <1>6, <1>7, <1>8

\* The parser of cards keeps to the alphabet, which is that of its buffer too:
\* what a card holds may get out in its line.
LEMMA CardStepType ==
    ASSUME NEW A, LineEnds \subseteq A,
           NEW p \in Parsers(A, A), NEW data \in Seq(A)
    PROVE  CardStep(p, data) \in Results(A, A)
<1> DEFINE open == OpenTag(CardTag)
           tag == EndTag(CardTag)
           start == Index(data, open)
           card == From(data, start)
           at == Index(card, tag)
           end == Index(data, tag)
<1>1. <<>> \in Seq(A) /\ <<>> \in Calls(A)
  BY DEF Calls
<1>2. /\ Len(data) \in Nat
      /\ Len(open) = 2 /\ Len(open) \in Nat \ {0}
      /\ Len(tag) = 4 /\ Len(tag) \in Nat \ {0}
  BY LenProperties, TagLengths
<1>3. /\ Clean(data, open) \in Seq(A) /\ Carry(data, open) \in Seq(A)
      /\ Clean(data, tag) \in Seq(A) /\ Carry(data, tag) \in Seq(A)
  BY TagLengths, CarryTypes
<1>4. /\ start \in Nat /\ (start # 0 => start \in 1 .. Len(data))
      /\ end \in Nat /\ (end # 0 => end \in 1 .. Len(data) /\ end + 4 <= Len(data) + 1)
  <2>1. start \in Nat /\ (start # 0 => start \in 1 .. Len(data))
    BY <1>2, IndexRange
  <2>2. end \in Nat /\ (end # 0 => end \in 1 .. Len(data) /\ end + 4 <= Len(data) + 1)
    BY <1>2, IndexRange
  <2> QED BY <2>1, <2>2
<1>5. CASE ~p.inside /\ start = 0
  <2>1. CardStep(p, data) = Result([p EXCEPT !.partial = Carry(data, open)],
                                   Clean(data, open), <<>>, <<>>)
    BY <1>5 DEF CardStep, CardText
  <2>2. [p EXCEPT !.partial = Carry(data, open)] \in Parsers(A, A)
    BY <1>3 DEF Parsers
  <2> QED BY <1>1, <1>3, <2>1, <2>2, ResultType
<1>6. CASE ~p.inside /\ start # 0
  <2>1. Before(data, start) \in Seq(A) /\ card \in Seq(A)
    BY <1>4, <1>6, PartTypes
  <2>2. CASE at = 0
    <3>1. CardStep(p, data) = Result([p EXCEPT !.inside = TRUE, !.buffer = card],
                                     Before(data, start), <<>>, <<>>)
      BY <1>6, <2>2 DEF CardStep, CardText
    <3>3. [p EXCEPT !.inside = TRUE, !.buffer = card] \in Parsers(A, A)
      BY <2>1 DEF Parsers
    <3> QED BY <1>1, <2>1, <3>1, <3>3, ResultType
  <2>3. CASE at # 0
    <3>1. CardStep(p, data) =
             Result(p, Before(data, start) \o CardLine(Before(card, at + 4)),
                    <<>>, From(card, at + 4))
      BY <1>2, <1>6, <2>3 DEF CardStep, CardText
    <3>2. From(card, at + 4) \in Seq(A) /\ Before(card, at + 4) \in Seq(A)
      <4>1. Len(card) \in Nat
        BY <2>1, LenProperties
      <4>2. at \in 1 .. Len(card) /\ at + 4 <= Len(card) + 1
        BY <1>2, <2>1, <2>3, <4>1, IndexRange
      <4>3. at + 4 \in 1 .. Len(card) + 1
        BY <4>1, <4>2
      <4> HIDE DEF card, at
      <4> QED BY <2>1, <4>3, PartTypes
    <3>3. Before(data, start) \o CardLine(Before(card, at + 4)) \in Seq(A)
      <4> HIDE DEF card, at, start
      <4>1. CardLine(Before(card, at + 4)) \in Seq(A)
        BY <3>2, CardLineType
      <4> QED BY <2>1, <4>1, ConcatProperties
    <3> QED BY <1>1, <3>1, <3>2, <3>3, ResultType
  <2> QED BY <2>2, <2>3
<1>7. CASE p.inside /\ end = 0
  <2>1. CardStep(p, data) =
           Result([p EXCEPT !.partial = Carry(data, tag),
                            !.buffer = @ \o Clean(data, tag)], <<>>, <<>>, <<>>)
    BY <1>7 DEF CardStep, CardInside
  <2>2. p.buffer \in Seq(A) /\ Clean(data, tag) \in Seq(A)
    BY <1>3 DEF Parsers
  <2>3. p.buffer \o Clean(data, tag) \in Seq(A)
    BY <2>2, ConcatProperties
  <2>4. [p EXCEPT !.partial = Carry(data, tag),
                  !.buffer = @ \o Clean(data, tag)] \in Parsers(A, A)
    BY <1>3, <2>3 DEF Parsers
  <2> QED BY <1>1, <2>1, <2>4, ResultType
<1>8. CASE p.inside /\ end # 0
  <2>1. CardStep(p, data) =
           Result([p EXCEPT !.inside = FALSE, !.buffer = <<>>],
                  CardLine(p.buffer \o Before(data, end + 4)), <<>>,
                  From(data, end + 4))
    BY <1>2, <1>8 DEF CardStep, CardInside
  <2>2. [p EXCEPT !.inside = FALSE, !.buffer = <<>>] \in Parsers(A, A)
    BY <1>1 DEF Parsers
  <2>3. end + 4 \in 1 .. Len(data) + 1
    BY <1>2, <1>4, <1>8
  <2>4. From(data, end + 4) \in Seq(A) /\ Before(data, end + 4) \in Seq(A)
    BY <2>3, PartTypes
  <2>5. CardLine(p.buffer \o Before(data, end + 4)) \in Seq(A)
    <3> HIDE DEF end
    <3>1. p.buffer \in Seq(A)
      BY DEF Parsers
    <3>2. p.buffer \o Before(data, end + 4) \in Seq(A)
      BY <2>4, <3>1, ConcatProperties
    <3> QED BY <3>2, CardLineType
  <2> QED BY <1>1, <2>1, <2>2, <2>4, <2>5, ResultType
<1> QED BY <1>5, <1>6, <1>7, <1>8

\* The symbols tool calls are marked with.
Marks == {"<", "/", ">", ToolTag}

\* A block of text makes a call at most.
LEMMA CallsType ==
    ASSUME NEW A, NEW raw \in Seq(A), NEW index \in Nat
    PROVE  /\ ToolCallsOf(raw, index) \in Calls(A)
           /\ Len(ToolCallsOf(raw, index)) \in Nat
<1>1. [payload |-> raw, index |-> index] \in [payload : Seq(A), index : Nat]
  OBVIOUS
<1>2. CASE raw \in Payloads
  <2>1. ToolCallsOf(raw, index) = <<[payload |-> raw, index |-> index]>>
    BY <1>2 DEF ToolCallsOf
  <2>2. \A S, x : x \in S => <<x>> \in Seq(S) /\ Len(<<x>>) \in Nat
    OBVIOUS
  <2> QED BY <1>1, <2>1, <2>2, Zenon DEF Calls
<1>3. CASE raw \notin Payloads
  BY <1>3 DEF ToolCallsOf, Calls
<1> QED BY <1>2, <1>3

\* The marks around a block of text.
LEMMA MarkedType ==
    ASSUME NEW A, Marks \subseteq A, NEW raw \in Seq(A)
    PROVE  /\ StartTag(ToolTag) \o raw \in Seq(A)
           /\ StartTag(ToolTag) \o raw \o EndTag(ToolTag) \in Seq(A)
<1>1. StartTag(ToolTag) \in Seq(A) /\ EndTag(ToolTag) \in Seq(A)
  BY DEF StartTag, EndTag, Marks
<1>2. StartTag(ToolTag) \o raw \in Seq(A)
  BY <1>1, ConcatProperties
<1> QED BY <1>1, <1>2, ConcatProperties

\* The tool parser keeps to the alphabet.
LEMMA ToolStepType ==
    ASSUME NEW A, Marks \subseteq A, NEW p \in Parsers(A, A), NEW data \in Seq(A)
    PROVE  ToolStep(p, data) \in Results(A, A)
<1> DEFINE open == StartTag(ToolTag)
           tag == EndTag(ToolTag)
           start == Index(data, open)
           end == Index(data, tag)
           raw == p.buffer \o Before(data, end)
           calls == ToolCallsOf(raw, p.next)
<1>1. <<>> \in Seq(A) /\ <<>> \in Calls(A)
  BY DEF Calls
<1>2. /\ Len(data) \in Nat
      /\ Len(open) = 3 /\ Len(open) \in Nat \ {0}
      /\ Len(tag) = 4 /\ Len(tag) \in Nat \ {0}
  BY LenProperties, TagLengths
<1>3. /\ Clean(data, open) \in Seq(A) /\ Carry(data, open) \in Seq(A)
      /\ Clean(data, tag) \in Seq(A) /\ Carry(data, tag) \in Seq(A)
  BY TagLengths, CarryTypes
<1>4. /\ start \in Nat /\ (start # 0 => start \in 1 .. Len(data) /\ start + 3 <= Len(data) + 1)
      /\ end \in Nat /\ (end # 0 => end \in 1 .. Len(data) /\ end + 4 <= Len(data) + 1)
  <2>1. start \in Nat /\ (start # 0 => start \in 1 .. Len(data) /\ start + 3 <= Len(data) + 1)
    BY <1>2, IndexRange
  <2>2. end \in Nat /\ (end # 0 => end \in 1 .. Len(data) /\ end + 4 <= Len(data) + 1)
    BY <1>2, IndexRange
  <2> QED BY <2>1, <2>2
<1>5. CASE ~p.inside /\ start = 0
  <2>1. ToolStep(p, data) = Result([p EXCEPT !.partial = Carry(data, open)],
                                   Clean(data, open), <<>>, <<>>)
    BY <1>5 DEF ToolStep, ToolText
  <2>2. [p EXCEPT !.partial = Carry(data, open)] \in Parsers(A, A)
    BY <1>3 DEF Parsers
  <2> QED BY <1>1, <1>3, <2>1, <2>2, ResultType
<1>6. CASE ~p.inside /\ start # 0
  <2>1. ToolStep(p, data) = Result([p EXCEPT !.inside = TRUE],
                                   Before(data, start), <<>>,
                                   From(data, start + 3))
    BY <1>2, <1>6 DEF ToolStep, ToolText
  <2>2. [p EXCEPT !.inside = TRUE] \in Parsers(A, A)
    BY DEF Parsers
  <2>3. start \in 1 .. Len(data) + 1 /\ start + 3 \in 1 .. Len(data) + 1
    BY <1>2, <1>4, <1>6
  <2>4. Before(data, start) \in Seq(A) /\ From(data, start + 3) \in Seq(A)
    BY <2>3, PartTypes
  <2> QED BY <1>1, <2>1, <2>2, <2>4, ResultType
<1>7. CASE p.inside /\ end = 0
  <2>1. ToolStep(p, data) =
           Result([p EXCEPT !.partial = Carry(data, tag),
                            !.buffer = @ \o Clean(data, tag)], <<>>, <<>>, <<>>)
    BY <1>7 DEF ToolStep, ToolInside
  <2>2. p.buffer \o Clean(data, tag) \in Seq(A)
    BY <1>3, ConcatProperties DEF Parsers
  <2>3. [p EXCEPT !.partial = Carry(data, tag),
                  !.buffer = @ \o Clean(data, tag)] \in Parsers(A, A)
    BY <1>3, <2>2 DEF Parsers
  <2> QED BY <1>1, <2>1, <2>3, ResultType
<1>8. CASE p.inside /\ end # 0
  <2> DEFINE text == IF calls = <<>> /\ raw # <<>> THEN open \o raw \o tag ELSE <<>>
  <2>1. ToolStep(p, data) =
           Result([p EXCEPT !.inside = FALSE, !.buffer = <<>>,
                            !.next = @ + Len(calls)],
                  text, calls, From(data, end + 4))
    BY <1>2, <1>8 DEF ToolStep, ToolInside
  <2>2. end \in 1 .. Len(data) + 1 /\ end + 4 \in 1 .. Len(data) + 1
    BY <1>2, <1>4, <1>8
  <2>3. Before(data, end) \in Seq(A) /\ From(data, end + 4) \in Seq(A)
    BY <2>2, PartTypes
  <2>4. raw \in Seq(A)
    BY <2>3, ConcatProperties DEF Parsers
  <2>5. calls \in Calls(A) /\ Len(calls) \in Nat
    <3>1. p.next \in Nat
      BY DEF Parsers
    <3> HIDE DEF raw
    <3> QED BY <2>4, <3>1, CallsType
  <2>6. [p EXCEPT !.inside = FALSE, !.buffer = <<>>, !.next = @ + Len(calls)]
           \in Parsers(A, A)
    <3> HIDE DEF calls
    <3>1. p.next + Len(calls) \in Nat
      BY <2>5 DEF Parsers
    <3> QED BY <1>1, <3>1 DEF Parsers
  <2>7. text \in Seq(A)
    <3> HIDE DEF raw, calls
    <3> QED BY <1>1, <2>4, MarkedType
  <2> HIDE DEF text, calls
  <2> QED BY <2>1, <2>3, <2>5, <2>6, <2>7, ResultType
<1> QED BY <1>5, <1>6, <1>7, <1>8

\* One more step of the loop keeps to the alphabet.
LEMMA ThenType ==
    ASSUME NEW A, NEW B, NEW before \in Results(A, B), NEW step \in Results(A, B)
    PROVE  Then(before, step) \in Results(A, B)
<1>1. before.text \o step.text \in Seq(A)
  BY ConcatProperties DEF Results
<1>2. before.calls \o step.calls \in Calls(B)
  BY ConcatProperties DEF Results, Calls
<1> QED BY <1>1, <1>2, ResultType DEF Then, Results

\* The loop starts with what was kept and the chunk.
LEMMA LoopStart ==
    ASSUME NEW A, NEW B, NEW p \in Parsers(A, B), NEW chunk \in Seq(A)
    PROVE  /\ p.partial \o chunk \in Seq(A)
           /\ Len(p.partial \o chunk) \in Nat
           /\ Result([p EXCEPT !.partial = <<>>], <<>>, <<>>, p.partial \o chunk)
                 \in Results(A, B)
           /\ Result(p, <<>>, <<>>, <<>>) \in Results(A, B)
<1>1. p.partial \o chunk \in Seq(A)
  BY ConcatProperties DEF Parsers
<1>2. <<>> \in Seq(A) /\ <<>> \in Calls(B)
  BY DEF Calls
<1>3. [p EXCEPT !.partial = <<>>] \in Parsers(A, B)
  BY <1>2 DEF Parsers
<1> QED BY <1>1, <1>2, <1>3, ResultType, LenProperties

\* What the steps of a loop preserve holds at every turn.
LEMMA Loop ==
    ASSUME NEW S, NEW N \in Nat, NEW run, run[0] \in S,
           \A n \in 1 .. N : run[n - 1] \in S => run[n] \in S
    PROVE  \A n \in 0 .. N : run[n] \in S
<1> DEFINE T == {n \in 0 .. N : run[n] \in S}
<1>1. 0 \in T
  OBVIOUS
<1>2. ASSUME NEW n \in 0 + 1 .. N, n - 1 \in T PROVE n \in T
  BY <1>2
<1>3. \A n \in 0 .. N : n \in T
  <2> HIDE DEF T
  <2> QED BY <1>1, <1>2, UpTo
<1> QED BY <1>3

\* The loop of dropTagParser keeps to the alphabet at every turn, so that its
\* last result does.
LEMMA DropLoop ==
    ASSUME NEW A, NEW B, NEW p \in Parsers(A, B), NEW chunk \in Seq(A),
           chunk # <<>>
    PROVE  Consume(DropStep, p, chunk) \in Results(A, B)
<1> DEFINE S == Results(A, B)
           data == p.partial \o chunk
           N == Len(data) + 1
           e == Result([p EXCEPT !.partial = <<>>], <<>>, <<>>, data)
           G == [r \in S |-> More(DropStep, r)]
           run == CHOOSE g : g = [n \in 0 .. N |->
                                    IF n = 0 THEN e ELSE More(DropStep, g[n - 1])]
<1>1. e \in S /\ N \in Nat
  BY LoopStart
<1>2. \A r \in S : More(DropStep, r) \in S
  <2> SUFFICES ASSUME NEW r \in S, r.rest # <<>> PROVE More(DropStep, r) \in S
    BY DEF More
  <2>1. DropStep(r.p, r.rest) \in S
    BY DropStepType DEF Results
  <2> QED BY <2>1, ThenType DEF More
<1>3. Consume(DropStep, p, chunk) = run[N]
  BY DEF Consume
<1> HIDE DEF S, N, e, run, data
<1>4. \E g : g = [n \in 0 .. N |-> IF n = 0 THEN e ELSE More(DropStep, g[n - 1])]
  <2>1. G \in Steps(S)
    BY <1>2 DEF Steps
  <2> HIDE DEF G
  <2>2. PICK g : Run(g, N, S, e, G)
    BY <1>1, <2>1, Iteration, Zenon
  <2>3. \A n \in 0 .. N : n # 0 => G[g[n - 1]] = More(DropStep, g[n - 1])
    <3>1. \A n \in 0 .. N : n # 0 => g[n - 1] \in S
      BY <1>1, <2>2 DEF Run
    <3> QED BY <3>1 DEF G
  <2>4. g = [n \in 0 .. N |-> IF n = 0 THEN e ELSE More(DropStep, g[n - 1])]
    BY <1>1, <2>2, <2>3 DEF Run
  <2> QED BY <2>4
<1>5. run = [n \in 0 .. N |-> IF n = 0 THEN e ELSE More(DropStep, run[n - 1])]
  BY <1>4 DEF run
<1>6. run[0] = e /\ \A n \in 1 .. N : run[n] = More(DropStep, run[n - 1])
  BY <1>1, <1>5
<1>7. \A n \in 0 .. N : run[n] \in S
  BY <1>1, <1>2, <1>6, Loop
<1>8. N \in 0 .. N
  BY <1>1
<1> QED BY <1>3, <1>7, <1>8 DEF S

\* So what comes out keeps to the alphabet.
LEMMA DropType ==
    ASSUME NEW A, NEW B, NEW p \in Parsers(A, B), NEW chunk \in Seq(A)
    PROVE  Consume(DropStep, p, chunk) \in Results(A, B)
<1>1. CASE chunk = <<>>
  <2>1. Consume(DropStep, p, chunk) = Result(p, <<>>, <<>>, <<>>)
    BY <1>1 DEF Consume
  <2> QED BY <2>1, LoopStart
<1>2. CASE chunk # <<>>
  BY <1>2, DropLoop, Zenon
<1> QED BY <1>1, <1>2

\* The loop of toolUsageCardParser.
LEMMA CardLoop ==
    ASSUME NEW A, LineEnds \subseteq A,
           NEW p \in Parsers(A, A), NEW chunk \in Seq(A),
           chunk # <<>>
    PROVE  Consume(CardStep, p, chunk) \in Results(A, A)
<1> DEFINE S == Results(A, A)
           data == p.partial \o chunk
           N == Len(data) + 1
           e == Result([p EXCEPT !.partial = <<>>], <<>>, <<>>, data)
           G == [r \in S |-> More(CardStep, r)]
           run == CHOOSE g : g = [n \in 0 .. N |->
                                    IF n = 0 THEN e ELSE More(CardStep, g[n - 1])]
<1>1. e \in S /\ N \in Nat
  BY LoopStart
<1>2. \A r \in S : More(CardStep, r) \in S
  <2> SUFFICES ASSUME NEW r \in S, r.rest # <<>> PROVE More(CardStep, r) \in S
    BY DEF More
  <2>1. CardStep(r.p, r.rest) \in S
    BY CardStepType DEF Results
  <2> QED BY <2>1, ThenType DEF More
<1>3. Consume(CardStep, p, chunk) = run[N]
  BY DEF Consume
<1> HIDE DEF S, N, e, run, data
<1>4. \E g : g = [n \in 0 .. N |-> IF n = 0 THEN e ELSE More(CardStep, g[n - 1])]
  <2>1. G \in Steps(S)
    BY <1>2 DEF Steps
  <2> HIDE DEF G
  <2>2. PICK g : Run(g, N, S, e, G)
    BY <1>1, <2>1, Iteration, Zenon
  <2>3. \A n \in 0 .. N : n # 0 => G[g[n - 1]] = More(CardStep, g[n - 1])
    <3>1. \A n \in 0 .. N : n # 0 => g[n - 1] \in S
      BY <1>1, <2>2 DEF Run
    <3> QED BY <3>1 DEF G
  <2>4. g = [n \in 0 .. N |-> IF n = 0 THEN e ELSE More(CardStep, g[n - 1])]
    BY <1>1, <2>2, <2>3 DEF Run
  <2> QED BY <2>4
<1>5. run = [n \in 0 .. N |-> IF n = 0 THEN e ELSE More(CardStep, run[n - 1])]
  BY <1>4 DEF run
<1>6. run[0] = e /\ \A n \in 1 .. N : run[n] = More(CardStep, run[n - 1])
  BY <1>1, <1>5
<1>7. \A n \in 0 .. N : run[n] \in S
  BY <1>1, <1>2, <1>6, Loop
<1>8. N \in 0 .. N
  BY <1>1
<1> QED BY <1>3, <1>7, <1>8 DEF S

\* So what comes out keeps to the alphabet.
LEMMA CardType ==
    ASSUME NEW A, LineEnds \subseteq A,
           NEW p \in Parsers(A, A), NEW chunk \in Seq(A)
    PROVE  Consume(CardStep, p, chunk) \in Results(A, A)
<1>1. CASE chunk = <<>>
  <2>1. Consume(CardStep, p, chunk) = Result(p, <<>>, <<>>, <<>>)
    BY <1>1 DEF Consume
  <2> QED BY <2>1, LoopStart
<1>2. CASE chunk # <<>>
  BY <1>2, CardLoop, Zenon
<1> QED BY <1>1, <1>2

\* The loop of streamToolCallParser.
LEMMA ToolLoop ==
    ASSUME NEW A, Marks \subseteq A, NEW p \in Parsers(A, A), NEW chunk \in Seq(A),
           chunk # <<>>
    PROVE  Consume(ToolStep, p, chunk) \in Results(A, A)
<1> DEFINE S == Results(A, A)
           data == p.partial \o chunk
           N == Len(data) + 1
           e == Result([p EXCEPT !.partial = <<>>], <<>>, <<>>, data)
           G == [r \in S |-> More(ToolStep, r)]
           run == CHOOSE g : g = [n \in 0 .. N |->
                                    IF n = 0 THEN e ELSE More(ToolStep, g[n - 1])]
<1>1. e \in S /\ N \in Nat
  BY LoopStart
<1>2. \A r \in S : More(ToolStep, r) \in S
  <2> SUFFICES ASSUME NEW r \in S, r.rest # <<>> PROVE More(ToolStep, r) \in S
    BY DEF More
  <2>1. ToolStep(r.p, r.rest) \in S
    BY ToolStepType DEF Results
  <2> QED BY <2>1, ThenType DEF More
<1>3. Consume(ToolStep, p, chunk) = run[N]
  BY DEF Consume
<1> HIDE DEF S, N, e, run, data
<1>4. \E g : g = [n \in 0 .. N |-> IF n = 0 THEN e ELSE More(ToolStep, g[n - 1])]
  <2>1. G \in Steps(S)
    BY <1>2 DEF Steps
  <2> HIDE DEF G
  <2>2. PICK g : Run(g, N, S, e, G)
    BY <1>1, <2>1, Iteration, Zenon
  <2>3. \A n \in 0 .. N : n # 0 => G[g[n - 1]] = More(ToolStep, g[n - 1])
    <3>1. \A n \in 0 .. N : n # 0 => g[n - 1] \in S
      BY <1>1, <2>2 DEF Run
    <3> QED BY <3>1 DEF G
  <2>4. g = [n \in 0 .. N |-> IF n = 0 THEN e ELSE More(ToolStep, g[n - 1])]
    BY <1>1, <2>2, <2>3 DEF Run
  <2> QED BY <2>4
<1>5. run = [n \in 0 .. N |-> IF n = 0 THEN e ELSE More(ToolStep, run[n - 1])]
  BY <1>4 DEF run
<1>6. run[0] = e /\ \A n \in 1 .. N : run[n] = More(ToolStep, run[n - 1])
  BY <1>1, <1>5
<1>7. \A n \in 0 .. N : run[n] \in S
  BY <1>1, <1>2, <1>6, Loop
<1>8. N \in 0 .. N
  BY <1>1
<1> QED BY <1>3, <1>7, <1>8 DEF S

\* So what comes out keeps to the alphabet.
LEMMA ToolType ==
    ASSUME NEW A, Marks \subseteq A, NEW p \in Parsers(A, A), NEW chunk \in Seq(A)
    PROVE  Consume(ToolStep, p, chunk) \in Results(A, A)
<1>1. CASE chunk = <<>>
  <2>1. Consume(ToolStep, p, chunk) = Result(p, <<>>, <<>>, <<>>)
    BY <1>1 DEF Consume
  <2> QED BY <2>1, LoopStart
<1>2. CASE chunk # <<>>
  BY <1>2, ToolLoop, Zenon
<1> QED BY <1>1, <1>2

-----------------------------------------------------------------------------
(* The filters, the flow's events and the writers keep to alphabets.       *)

\* What is over an alphabet is over a larger one.
LEMMA Wider ==
    ASSUME NEW A, NEW B, NEW A2, NEW B2, A \subseteq A2, B \subseteq B2
    PROVE  /\ \A s \in Seq(A) : s \in Seq(A2)
           /\ \A c \in Calls(B) : c \in Calls(B2)
           /\ \A p \in Parsers(A, B) : p \in Parsers(A2, B2)
<1>1. \A X, Y : X \subseteq Y => \A s \in Seq(X) : s \in Seq(Y)
  <2> TAKE X, Y
  <2> HAVE X \subseteq Y
  <2> TAKE s \in Seq(X)
  <2>1. /\ s = [i \in 1 .. Len(s) |-> s[i]] /\ Len(s) \in Nat
        /\ \A i \in 1 .. Len(s) : s[i] \in Y
    BY LenProperties, ElementOfSeq
  <2> QED BY <2>1, IsASeq
<1>2. \A c \in Calls(B) : c \in Calls(B2)
  <2>1. [payload : Seq(B), index : Nat] \subseteq [payload : Seq(B2), index : Nat]
    BY <1>1
  <2> QED BY <1>1, <2>1, Zenon DEF Calls
<1>3. \A p \in Parsers(A, B) : p \in Parsers(A2, B2)
  BY <1>1 DEF Parsers
<1> QED BY <1>1, <1>2, <1>3

\* A parser that has seen nothing.
LEMMA NewParserType ==
    ASSUME NEW A, NEW B
    PROVE  NewParser \in Parsers(A, B)
BY DEF NewParser, Parsers

\* Flush of the two filters.
LEMMA FlushTextType ==
    ASSUME NEW A, NEW B, NEW p \in Parsers(A, B)
    PROVE  FlushText(p) \in Results(A, B)
<1>1. <<>> \in Seq(A) /\ <<>> \in Seq(B) /\ <<>> \in Calls(B)
  BY DEF Calls
<1>2. /\ [p EXCEPT !.inside = FALSE, !.partial = <<>>, !.buffer = <<>>]
            \in Parsers(A, B)
      /\ (IF p.inside THEN <<>> ELSE p.partial) \in Seq(A)
  BY <1>1 DEF Parsers
<1> QED BY <1>1, <1>2, ResultType DEF FlushText

\* Flush of the tool parsers.
LEMMA FlushToolsType ==
    ASSUME NEW A, Marks \subseteq A, NEW p \in Parsers(A, A)
    PROVE  FlushTools(p) \in Results(A, A)
<1> DEFINE raw   == p.buffer \o p.partial
           calls == ToolCallsOf(raw, p.next)
           text  == CASE ~p.inside -> p.partial
                      [] p.inside /\ (calls # <<>> \/ raw = <<>>) -> <<>>
                      [] OTHER -> StartTag(ToolTag) \o raw
           after == [NewParser EXCEPT !.next = p.next + Len(calls)]
           made  == IF p.inside THEN calls ELSE <<>>
<1>1. <<>> \in Seq(A) /\ <<>> \in Calls(A)
  BY DEF Calls
<1>2. raw \in Seq(A) /\ p.next \in Nat /\ p.partial \in Seq(A)
  BY ConcatProperties DEF Parsers
<1>3. calls \in Calls(A) /\ Len(calls) \in Nat
  <2> HIDE DEF raw
  <2> QED BY <1>2, CallsType
<1>4. StartTag(ToolTag) \o raw \in Seq(A)
  <2> HIDE DEF raw
  <2> QED BY <1>2, MarkedType
<1>5. FlushTools(p) = Result(after, text, made, <<>>)
  BY DEF FlushTools
<1> HIDE DEF raw, calls
<1>6. text \in Seq(A) /\ made \in Calls(A)
  BY <1>1, <1>2, <1>3, <1>4
<1>7. after \in Parsers(A, A)
  <2>1. p.next + Len(calls) \in Nat
    BY <1>2, <1>3
  <2> QED BY <1>1, <2>1 DEF NewParser, Parsers
<1> HIDE DEF text, made, after
<1> QED BY <1>1, <1>5, <1>6, <1>7, ResultType

\* What a filter holds is in the parsers, and in the buffer of that of cards.
Filters(A) == [card : Parsers(A, A), drop : Parsers(A, {})]

\* filterText: the text that is left keeps to the alphabet, and so does what
\* the filter holds.
LEMMA FilterTextType ==
    ASSUME NEW A, LineEnds \subseteq A,
           NEW f \in Filters(A), NEW text \in Seq(A)
    PROVE  FilterText(f, text) \in [f : Filters(A), text : Seq(A)]
<1> DEFINE card == Consume(CardStep, f.card, text)
           drop == Consume(DropStep, f.drop, Settled(card.text))
<1>1. f.card \in Parsers(A, A) /\ f.drop \in Parsers(A, {})
  BY DEF Filters
<1>2. card \in Results(A, A)
  BY <1>1, CardType
<1>3. card.p \in Parsers(A, A) /\ Settled(card.text) \in Seq(A)
  <2> HIDE DEF card
  <2>1. card.p \in Parsers(A, A) /\ card.text \in Seq(A)
    BY <1>2 DEF Results
  <2> QED BY <2>1, SettledType DEF LineEnds
<1>4. drop \in Results(A, {})
  <2> HIDE DEF card
  <2> QED BY <1>1, <1>3, DropType
<1>5. drop.p \in Parsers(A, {}) /\ drop.text \in Seq(A)
  <2> HIDE DEF drop
  <2> QED BY <1>4 DEF Results
<1>6. FilterText(f, text) = [f |-> [card |-> card.p, drop |-> drop.p],
                             text |-> drop.text]
  BY DEF FilterText
<1> HIDE DEF card, drop
<1> QED BY <1>3, <1>5, <1>6 DEF Filters

\* Flush of the filter.
LEMMA FilterFlushType ==
    ASSUME NEW A, NEW f \in Filters(A)
    PROVE  FilterFlush(f) \in [f : Filters(A), text : Seq(A)]
<1> DEFINE card == FlushText(f.card)
           drop == Consume(DropStep, f.drop, card.text)
           tail == FlushText(drop.p)
<1>1. f.card \in Parsers(A, A) /\ f.drop \in Parsers(A, {})
  BY DEF Filters
<1>2. card \in Results(A, A)
  BY <1>1, FlushTextType
<1>3. card.p \in Parsers(A, A) /\ card.text \in Seq(A)
  <2> HIDE DEF card
  <2> QED BY <1>2 DEF Results
<1>4. drop \in Results(A, {})
  <2> HIDE DEF card
  <2> QED BY <1>1, <1>3, DropType
<1>5. drop.p \in Parsers(A, {}) /\ drop.text \in Seq(A)
  <2> HIDE DEF drop
  <2> QED BY <1>4 DEF Results
<1>6. tail \in Results(A, {})
  <2> HIDE DEF drop
  <2> QED BY <1>5, FlushTextType
<1>7. tail.p \in Parsers(A, {}) /\ tail.text \in Seq(A)
  <2> HIDE DEF tail
  <2> QED BY <1>6 DEF Results
<1>8. FilterFlush(f) = [f |-> [card |-> card.p, drop |-> tail.p],
                        text |-> drop.text \o tail.text]
  BY DEF FilterFlush
<1> HIDE DEF card, drop, tail
<1>9. drop.text \o tail.text \in Seq(A)
  BY <1>5, <1>7, ConcatProperties
<1> QED BY <1>3, <1>7, <1>8, <1>9 DEF Filters

Events(C, R) == [content : Seq(C), reasoning : Seq(R), calls : Calls(C)]

\* An event made of typed parts.
LEMMA EventType ==
    ASSUME NEW C, NEW R, NEW content \in Seq(C), NEW reasoning \in Seq(R),
           NEW calls \in Calls(C)
    PROVE  Event(content, reasoning, calls) \in Events(C, R)
BY DEF Event, Events

\* A line of the upstream: A is the alphabet of what the filter passes on, C
\* that of what may be seen; thinking does not come near the tool parser.
LEMMA ApplyType ==
    ASSUME NEW A, NEW C, LineEnds \subseteq A, Marks \subseteq C,
           NEW f \in Filters(A), NEW t \in Parsers(C, C),
           NEW channel, NEW chunk \in Seq(A),
           channel = "content" => A \subseteq C
    PROVE  Apply(f, t, channel, chunk) \in
               [filter : Filters(A), tools : Parsers(C, C), event : Events(C, A)]
<1> DEFINE filtered == FilterText(f, chunk)
           input == IF channel = "content" THEN filtered.text ELSE <<>>
           pushed == Consume(ToolStep, t, input)
           reasoning == IF channel = "thinking" THEN filtered.text ELSE <<>>
           event == Event(pushed.text, reasoning, pushed.calls)
<1>1. filtered \in [f : Filters(A), text : Seq(A)]
  BY FilterTextType
<1>2. Apply(f, t, channel, chunk) =
         [filter |-> filtered.f, tools |-> pushed.p, event |-> event]
  BY DEF Apply
<1> HIDE DEF filtered
<1>3. filtered.f \in Filters(A) /\ filtered.text \in Seq(A)
  BY <1>1
<1>4. input \in Seq(C)
  BY <1>3, Wider
<1>5. reasoning \in Seq(A)
  BY <1>3
<1>6. pushed \in Results(C, C)
  <2> HIDE DEF input
  <2> QED BY <1>4, ToolType
<1> HIDE DEF pushed, reasoning
<1>7. pushed.p \in Parsers(C, C) /\ pushed.text \in Seq(C) /\ pushed.calls \in Calls(C)
  BY <1>6 DEF Results
<1>8. event \in Events(C, A)
  BY <1>5, <1>7, EventType
<1> HIDE DEF event
<1> QED BY <1>2, <1>3, <1>7, <1>8

\* The end of the answer: nothing of it is thinking.
LEMMA FlushStreamParsersType ==
    ASSUME NEW A, NEW C, A \subseteq C, Marks \subseteq C,
           NEW f \in Filters(A), NEW t \in Parsers(C, C)
    PROVE  /\ FlushStreamParsers(f, t).filter \in Filters(A)
           /\ FlushStreamParsers(f, t).tools \in Parsers(C, C)
           /\ FlushStreamParsers(f, t).events[1] \in Events(C, {})
           /\ FlushStreamParsers(f, t).events[2] \in Events(C, {})
<1> DEFINE pending == FilterFlush(f)
           pushed == Consume(ToolStep, t, pending.text)
           tail == FlushTools(pushed.p)
           first == Event(pushed.text, <<>>, pushed.calls)
           second == Event(tail.text, <<>>, tail.calls)
<1>1. pending \in [f : Filters(A), text : Seq(A)]
  BY FilterFlushType
<1>2. FlushStreamParsers(f, t) =
         [filter |-> pending.f, tools |-> tail.p, events |-> <<first, second>>]
  BY DEF FlushStreamParsers
<1> HIDE DEF pending
<1>3. pending.f \in Filters(A) /\ pending.text \in Seq(C)
  BY <1>1, Wider
<1>4. pushed \in Results(C, C)
  BY <1>3, ToolType
<1> HIDE DEF pushed
<1>5. pushed.p \in Parsers(C, C) /\ pushed.text \in Seq(C) /\ pushed.calls \in Calls(C)
  BY <1>4 DEF Results
<1>6. tail \in Results(C, C)
  BY <1>5, FlushToolsType
<1> HIDE DEF tail
<1>7. tail.p \in Parsers(C, C) /\ tail.text \in Seq(C) /\ tail.calls \in Calls(C)
  BY <1>6 DEF Results
<1>8. <<>> \in Seq({})
  OBVIOUS
<1>9. first \in Events(C, {}) /\ second \in Events(C, {})
  BY <1>5, <1>7, <1>8, EventType
<1> HIDE DEF first, second
<1> QED BY <1>2, <1>3, <1>7, <1>9

\* What the flow has forwarded.
LEMMA Append2Type ==
    ASSUME NEW C, NEW R, NEW fw \in Events(C, R), NEW e \in Events(C, R)
    PROVE  Append2(fw, e) \in Events(C, R)
<1>1. fw.content \o e.content \in Seq(C) /\ fw.reasoning \o e.reasoning \in Seq(R)
  BY ConcatProperties DEF Events
<1>2. fw.calls \o e.calls \in Calls(C)
  BY ConcatProperties DEF Events, Calls
<1> QED BY <1>1, <1>2, EventType DEF Append2

-----------------------------------------------------------------------------
(* The writers: D is the alphabet of what they write, C that of the calls. *)

Writers(D, C) == [open : BOOLEAN, tools : Parsers(C, C), text : Seq(D), calls : Calls(C)]

\* A writer that has written nothing.
LEMMA NewWriterType ==
    ASSUME NEW D, NEW C
    PROVE  NewWriter \in Writers(D, C)
BY NewParserType DEF NewWriter, Writers, Calls

\* Thinking is written only if it is shown.
LEMMA AddReasoningType ==
    ASSUME NEW C, NEW D, NEW R, NEW w \in Writers(D, C), NEW text \in Seq(R),
           options.showThink => R \cup {"<think>"} \subseteq D
    PROVE  AddReasoning(w, text) \in Writers(D, C)
<1> SUFFICES ASSUME options.showThink, text # <<>>
             PROVE  AddReasoning(w, text) \in Writers(D, C)
  BY DEF AddReasoning
<1> DEFINE mark == IF w.open THEN <<>> ELSE ThinkOpen
           written == w.text \o mark \o text
<1>1. text \in Seq(D) /\ mark \in Seq(D) /\ w.text \in Seq(D)
  BY Wider DEF ThinkOpen, Writers
<1>2. written \in Seq(D)
  <2> HIDE DEF mark
  <2>1. w.text \o mark \in Seq(D)
    BY <1>1, ConcatProperties
  <2> QED BY <1>1, <2>1, ConcatProperties
<1>3. AddReasoning(w, text) = [w EXCEPT !.open = TRUE, !.text = written]
  BY DEF AddReasoning
<1> HIDE DEF written
<1> QED BY <1>2, <1>3 DEF Writers

\* Text closes the thinking before it.
LEMMA AddTextType ==
    ASSUME NEW C, NEW D, NEW w \in Writers(D, C), NEW text \in Seq(D),
           "</think>" \in D
    PROVE  AddText(w, text) \in Writers(D, C)
<1> SUFFICES ASSUME text # <<>>
             PROVE  AddText(w, text) \in Writers(D, C)
  BY DEF AddText
<1> DEFINE mark == IF w.open THEN ThinkClose ELSE <<>>
           written == w.text \o mark \o text
<1>1. mark \in Seq(D) /\ w.text \in Seq(D)
  BY DEF ThinkClose, Writers
<1>2. written \in Seq(D)
  <2> HIDE DEF mark
  <2>1. w.text \o mark \in Seq(D)
    BY <1>1, ConcatProperties
  <2> QED BY <2>1, ConcatProperties
<1>3. AddText(w, text) = [w EXCEPT !.open = FALSE, !.text = written]
  BY DEF AddText
<1> HIDE DEF written
<1> QED BY <1>2, <1>3 DEF Writers

\* So does the end of the answer.
LEMMA CloseThinkType ==
    ASSUME NEW C, NEW D, NEW w \in Writers(D, C), "</think>" \in D
    PROVE  CloseThink(w) \in Writers(D, C) /\ CloseThink(w).open = FALSE
<1> DEFINE mark == IF w.open THEN ThinkClose ELSE <<>>
           written == w.text \o mark
<1>1. mark \in Seq(D) /\ w.text \in Seq(D)
  BY DEF ThinkClose, Writers
<1>2. written \in Seq(D)
  <2> HIDE DEF mark
  <2> QED BY <1>1, ConcatProperties
<1>3. CloseThink(w) = [w EXCEPT !.open = FALSE, !.text = written]
  BY DEF CloseThink
<1> HIDE DEF written
<1> QED BY <1>2, <1>3 DEF Writers

\* Calls as text.
LEMMA CallsAsTextType ==
    ASSUME NEW C, Marks \subseteq C, NEW calls \in Calls(C)
    PROVE  CallsAsText(calls) \in Seq(C)
<1> DEFINE texts == [i \in 1 .. Len(calls) |->
                        StartTag(ToolTag) \o calls[i].payload \o EndTag(ToolTag)]
<1>1. Len(calls) \in Nat /\ \A i \in 1 .. Len(calls) : calls[i].payload \in Seq(C)
  <2>1. calls \in Seq([payload : Seq(C), index : Nat])
    BY DEF Calls
  <2>2. Len(calls) \in Nat
        /\ \A i \in 1 .. Len(calls) : calls[i] \in [payload : Seq(C), index : Nat]
    BY <2>1, LenProperties, ElementOfSeq
  <2> QED BY <2>2
<1>2. \A i \in 1 .. Len(calls) : texts[i] \in Seq(C)
  BY <1>1, MarkedType
<1>3. texts \in Seq(Seq(C))
  BY <1>1, <1>2, IsASeq
<1> HIDE DEF texts
<1>4. FlattenSeq(texts) \in Seq(C)
  BY <1>3, FlattenType
<1> QED BY <1>4 DEF CallsAsText, texts

\* Calls are kept, or written as text.
LEMMA AddToolCallsType ==
    ASSUME NEW C, NEW D, Marks \subseteq C, C \subseteq D, "</think>" \in D,
           NEW w \in Writers(D, C), NEW calls \in Calls(C)
    PROVE  AddToolCalls(w, calls) \in Writers(D, C)
<1>1. CASE options.toolCalls
  <2>1. w.calls \o calls \in Calls(C)
    BY ConcatProperties DEF Writers, Calls
  <2>2. AddToolCalls(w, calls) = [w EXCEPT !.calls = w.calls \o calls]
    BY <1>1 DEF AddToolCalls
  <2> QED BY <2>1, <2>2 DEF Writers
<1>2. CASE ~options.toolCalls
  <2>1. CallsAsText(calls) \in Seq(D)
    BY CallsAsTextType, Wider
  <2>2. AddToolCalls(w, calls) = AddText(w, CallsAsText(calls))
    BY <1>2 DEF AddToolCalls
  <2> QED BY <2>1, <2>2, AddTextType
<1> QED BY <1>1, <1>2

\* Content goes through the writer's own tool parser.
LEMMA AddContentType ==
    ASSUME NEW C, NEW D, Marks \subseteq C, C \subseteq D, "</think>" \in D,
           NEW w \in Writers(D, C), NEW text \in Seq(C)
    PROVE  AddContent(w, text) \in Writers(D, C)
<1>1. CASE options.toolCalls
  <2> DEFINE pushed == Consume(ToolStep, w.tools, text)
             written == AddText(w, pushed.text)
             calls == written.calls \o pushed.calls
  <2>1. AddContent(w, text) =
           [written EXCEPT !.tools = pushed.p, !.calls = calls]
    BY <1>1 DEF AddContent
  <2>2. w.tools \in Parsers(C, C)
    BY DEF Writers
  <2>3. pushed \in Results(C, C)
    BY <2>2, ToolType
  <2> HIDE DEF pushed
  <2>4. pushed.p \in Parsers(C, C) /\ pushed.text \in Seq(D) /\ pushed.calls \in Calls(C)
    BY <2>3, Wider DEF Results
  <2>5. written \in Writers(D, C)
    BY <2>4, AddTextType
  <2> HIDE DEF written
  <2>6. calls \in Calls(C)
    BY <2>4, <2>5, ConcatProperties DEF Writers, Calls
  <2> HIDE DEF calls
  <2> QED BY <2>1, <2>4, <2>5, <2>6 DEF Writers
<1>2. CASE ~options.toolCalls
  <2>1. text \in Seq(D)
    BY Wider
  <2> QED BY <1>2, <2>1, AddTextType DEF AddContent
<1> QED BY <1>1, <1>2

\* An event.
LEMMA AddEventType ==
    ASSUME NEW C, NEW D, NEW R, Marks \subseteq C, C \subseteq D, "</think>" \in D,
           options.showThink => R \cup {"<think>"} \subseteq D,
           NEW w \in Writers(D, C), NEW e \in Events(C, R)
    PROVE  AddEvent(w, e) \in Writers(D, C)
<1>1. e.content \in Seq(C) /\ e.reasoning \in Seq(R) /\ e.calls \in Calls(C)
  BY DEF Events
<1>2. AddReasoning(w, e.reasoning) \in Writers(D, C)
  BY <1>1, AddReasoningType
<1>3. AddContent(AddReasoning(w, e.reasoning), e.content) \in Writers(D, C)
  BY <1>1, <1>2, AddContentType
<1> QED BY <1>1, <1>3, AddToolCallsType DEF AddEvent

\* The end of a blocking answer.
LEMMA BuildType ==
    ASSUME NEW C, NEW D, Marks \subseteq C, C \subseteq D, "</think>" \in D,
           NEW w \in Writers(D, C)
    PROVE  Build(w) \in Writers(D, C) /\ Build(w).open = FALSE
<1>1. CASE options.toolCalls
  <2> DEFINE tail == FlushTools(w.tools)
             written == AddText(w, tail.text)
             calls == written.calls \o tail.calls
             after == [written EXCEPT !.tools = tail.p, !.calls = calls]
  <2>1. Build(w) = CloseThink(after)
    BY <1>1 DEF Build
  <2>2. tail \in Results(C, C)
    BY FlushToolsType DEF Writers
  <2> HIDE DEF tail
  <2>3. tail.p \in Parsers(C, C) /\ tail.text \in Seq(D) /\ tail.calls \in Calls(C)
    BY <2>2, Wider DEF Results
  <2>4. written \in Writers(D, C)
    BY <2>3, AddTextType
  <2> HIDE DEF written
  <2>5. calls \in Calls(C)
    BY <2>3, <2>4, ConcatProperties DEF Writers, Calls
  <2> HIDE DEF calls
  <2>6. after \in Writers(D, C)
    BY <2>3, <2>4, <2>5 DEF Writers
  <2> HIDE DEF after
  <2> QED BY <2>1, <2>6, CloseThinkType
<1>2. CASE ~options.toolCalls
  BY <1>2, CloseThinkType DEF Build
<1> QED BY <1>1, <1>2

-----------------------------------------------------------------------------
(* The invariant. *)

Public == STRING \ Private

\* What may have reached the parsers of tool calls and the client.
Heard == IF mixed THEN STRING ELSE Public

\* What the filter may hold, and what the writers may have written.
Kept  == IF mixed \/ LastChannel = "thinking" THEN STRING ELSE Public
Shown == IF options.showThink THEN STRING ELSE Heard

\* What is left to say is an end of what was said.
Remaining ==
    /\ said \in Messages
    /\ \E k \in 0 .. Len(said) : message = SubSeq(said, k + 1, Len(said))

\* No private symbol is where it could get into the answer.
Apart ==
    /\ filter \in Filters(Kept)
    /\ tools \in Parsers(Heard, Heard)
    /\ forwarded \in Events(Heard, STRING)
    /\ adapter \in Writers(Shown, Heard)
    /\ collector \in Writers(Shown, Heard)

\* The writers agree until one of them leaves its parser as it is.
Together ==
    /\ phase # "done" => adapter = collector
    /\ phase = "done" =>
          /\ ~adapter.open /\ ~collector.open
          /\ WritersAgree

TextInv ==
    /\ phase \in {"streaming", "flushed", "done"}
    /\ mixed \in BOOLEAN
    /\ options \in [toolCalls : BOOLEAN, showThink : BOOLEAN]
    /\ Remaining
    /\ Apart
    /\ Together

Items == [channel : {"content", "thinking"}, symbol : STRING]

\* The alphabets: no mark is private, and thinking is what they may differ in.
LEMMA Alphabets ==
    ASSUME mixed \in BOOLEAN, options \in [toolCalls : BOOLEAN, showThink : BOOLEAN]
    PROVE  /\ Public \subseteq Heard /\ Heard \subseteq Shown /\ Shown \subseteq STRING
           /\ Public \subseteq Kept /\ Kept \subseteq STRING
           /\ Marks \subseteq Public /\ LineEnds \subseteq Public
           /\ "<think>" \in Public /\ "</think>" \in Public
           /\ options.showThink => Shown = STRING
           /\ ~mixed => Heard = Public
           /\ mixed => Heard = STRING /\ Kept = STRING
<1>1. /\ Marks \subseteq STRING /\ LineEnds \subseteq STRING
      /\ "<think>" \in STRING /\ "</think>" \in STRING
  BY TextAssumption DEF Marks, LineEnds, Signs
<1>2. Marks \subseteq Public /\ LineEnds \subseteq Public
      /\ "<think>" \in Public /\ "</think>" \in Public
  BY <1>1, TextAssumption DEF Public, Marks, LineEnds, Signs
<1> QED BY <1>2 DEF Heard, Shown, Kept, Public

\* What is left to say.
LEMMA MessageFacts ==
    ASSUME Remaining
    PROVE  /\ message \in Seq(Items) /\ Len(message) \in Nat
           /\ \A i \in 1 .. Len(message) :
                 /\ message[i].symbol \in STRING
                 /\ message[i].channel # "thinking" => message[i].symbol \in Public
<1>1. said \in Seq(Items) /\ Len(said) \in Nat /\ \A i \in 1 .. Len(said) : said[i] \in Items
  <2>1. said \in Seq(Items)
    BY TextAssumption DEF Remaining, Items
  <2> QED BY <2>1, LenProperties, ElementOfSeq
<1>2. PICK k \in 0 .. Len(said) : message = SubSeq(said, k + 1, Len(said))
  BY DEF Remaining
<1>3. /\ message \in Seq(Items)
      /\ Len(message) = IF k + 1 <= Len(said) THEN Len(said) - (k + 1) + 1 ELSE 0
      /\ \A i \in 1 .. Len(said) - (k + 1) + 1 : message[i] = said[k + 1 + i - 1]
  <2>1. k + 1 \in Int /\ Len(said) \in Int
        /\ \A j \in k + 1 .. Len(said) : said[j] \in Items
    BY <1>1
  <2> QED BY <1>2, <2>1, SubSeqProperties
<1>4. \A i \in 1 .. Len(said) : said[i].symbol \in Private => said[i].channel = "thinking"
  BY TextAssumption DEF Remaining
<1>5. ASSUME NEW i \in 1 .. Len(message)
      PROVE  /\ message[i].symbol \in STRING
             /\ message[i].channel # "thinking" => message[i].symbol \in Public
  <2>1. k + i \in 1 .. Len(said) /\ message[i] = said[k + i]
    BY <1>1, <1>3
  <2>2. said[k + i].symbol \in STRING
    BY <1>1, <2>1 DEF Items
  <2> QED BY <1>4, <2>1, <2>2 DEF Public
<1> QED BY <1>1, <1>3, <1>5

\* A line takes the beginning of it, and its last symbol is the last said.
LEMMA LineFacts ==
    ASSUME Remaining, NEW n \in 1 .. Len(message),
           message' = SubSeq(message, n + 1, Len(message)), said' = said
    PROVE  Remaining' /\ LastChannel' = message[n].channel
<1>1. said \in Seq(Items) /\ Len(said) \in Nat /\ \A i \in 1 .. Len(said) : said[i] \in Items
  <2>1. said \in Seq(Items)
    BY TextAssumption DEF Remaining, Items
  <2> QED BY <2>1, LenProperties, ElementOfSeq
<1>2. PICK k \in 0 .. Len(said) : message = SubSeq(said, k + 1, Len(said))
  BY DEF Remaining
<1>3. /\ message \in Seq(Items)
      /\ Len(message) = IF k + 1 <= Len(said) THEN Len(said) - (k + 1) + 1 ELSE 0
      /\ \A i \in 1 .. Len(said) - (k + 1) + 1 : message[i] = said[k + 1 + i - 1]
  <2>1. k + 1 \in Int /\ Len(said) \in Int
        /\ \A j \in k + 1 .. Len(said) : said[j] \in Items
    BY <1>1
  <2> QED BY <1>2, <2>1, SubSeqProperties
<1>4. Len(message) = Len(said) - k /\ k + n \in 1 .. Len(said)
  BY <1>1, <1>3
<1>5. /\ message' \in Seq(Items)
      /\ Len(message') = IF n + 1 <= Len(message) THEN Len(message) - (n + 1) + 1 ELSE 0
      /\ \A i \in 1 .. Len(message) - (n + 1) + 1 : message'[i] = message[n + 1 + i - 1]
  <2>1. n + 1 \in Int /\ Len(message) \in Int
        /\ \A j \in n + 1 .. Len(message) : message[j] \in Items
    BY <1>1, <1>3, <1>4, ElementOfSeq
  <2> QED BY <2>1, SubSeqProperties
<1>6. /\ SubSeq(said, k + n + 1, Len(said)) \in Seq(Items)
      /\ Len(SubSeq(said, k + n + 1, Len(said))) =
            IF k + n + 1 <= Len(said) THEN Len(said) - (k + n + 1) + 1 ELSE 0
      /\ \A i \in 1 .. Len(said) - (k + n + 1) + 1 :
            SubSeq(said, k + n + 1, Len(said))[i] = said[k + n + 1 + i - 1]
  <2>1. k + n + 1 \in Int /\ Len(said) \in Int
        /\ \A j \in k + n + 1 .. Len(said) : said[j] \in Items
    BY <1>1, <1>4
  <2> QED BY <2>1, SubSeqProperties
<1>7. Len(message') = Len(said) - (k + n)
  <2>1. n \in Nat /\ k \in Nat /\ n <= Len(message) /\ Len(message) \in Nat
    BY <1>1, <1>4
  <2>2. Len(message') = Len(message) - n
    <3>1. CASE n + 1 <= Len(message)
      BY <1>5, <2>1, <3>1
    <3>2. CASE ~ (n + 1 <= Len(message))
      <4>1. n = Len(message)
        BY <2>1, <3>2
      <4> QED BY <1>5, <2>1, <3>2, <4>1
    <3> QED BY <3>1, <3>2
  <2> QED BY <1>1, <1>4, <2>1, <2>2
<1>8. message' = SubSeq(said, k + n + 1, Len(said))
  <2> DEFINE rest == SubSeq(said, k + n + 1, Len(said))
  <2>1. Len(rest) = Len(message') /\ Len(message') \in Nat
    BY <1>1, <1>4, <1>6, <1>7
  <2>2. ASSUME NEW i \in 1 .. Len(message') PROVE message'[i] = rest[i]
    <3>1. /\ i \in 1 .. Len(message) - (n + 1) + 1
          /\ i \in 1 .. Len(said) - (k + n + 1) + 1
          /\ n + i \in 1 .. Len(said) - (k + 1) + 1
      BY <1>1, <1>4, <1>7
    <3>2. message'[i] = message[n + 1 + i - 1] /\ n + 1 + i - 1 = n + i
      BY <1>5, <3>1
    <3>3. message[n + i] = said[k + 1 + (n + i) - 1]
      BY <1>3, <3>1
    <3>4. rest[i] = said[k + n + 1 + i - 1]
      BY <1>6, <3>1
    <3>5. k + 1 + (n + i) - 1 = k + n + 1 + i - 1
      OBVIOUS
    <3> HIDE DEF rest
    <3> QED BY <3>2, <3>3, <3>4, <3>5
  <2>3. rest \in Seq(Items)
    BY <1>6
  <2> HIDE DEF rest
  <2>4. message' = rest
    BY <1>5, <2>1, <2>2, <2>3, SeqEqual
  <2> QED BY <2>4 DEF rest
<1>9. Remaining'
  <2>1. k + n \in 0 .. Len(said)
    BY <1>1, <1>4
  <2> QED BY <1>8, <2>1 DEF Remaining
<1>10. LastChannel' = message[n].channel
  <2>1. Len(message') # Len(said) /\ Len(said) - Len(message') = k + n
    <3>1. n \in Nat \ {0} /\ k \in Nat
      BY <1>1, <1>4
    <3>2. Len(said) \in Nat
      BY <1>1
    <3>3. \A x : x = Len(said) - (k + n) => x # Len(said) /\ Len(said) - x = k + n
      BY <3>1, <3>2
    <3> QED BY <1>7, <3>3, Zenon
  <2>2. message[n] = said[k + n]
    <3>1. n \in 1 .. Len(said) - (k + 1) + 1 /\ k + 1 + n - 1 = k + n
      BY <1>1, <1>4
    <3> QED BY <1>3, <3>1
  <2> QED BY <2>1, <2>2 DEF LastChannel
<1> QED BY <1>9, <1>10

\* The symbols of a line.
LEMMA SymbolsType ==
    ASSUME NEW A, Remaining, NEW n \in 1 .. Len(message),
           \A i \in 1 .. n : message[i].symbol \in A
    PROVE  Symbols(SubSeq(message, 1, n)) \in Seq(A)
<1>1. message \in Seq(Items) /\ Len(message) \in Nat
  BY MessageFacts
<1>2. /\ Len(SubSeq(message, 1, n)) = IF 1 <= n THEN n - 1 + 1 ELSE 0
      /\ \A i \in 1 .. n - 1 + 1 : SubSeq(message, 1, n)[i] = message[1 + i - 1]
  <2>1. 1 \in Int /\ n \in Int /\ \A i \in 1 .. n : message[i] \in Items
    BY <1>1, ElementOfSeq
  <2> QED BY <1>1, <2>1, SubSeqProperties
<1>3. Len(SubSeq(message, 1, n)) = n /\ n \in Nat
      /\ \A i \in 1 .. n : SubSeq(message, 1, n)[i] = message[i]
  BY <1>1, <1>2
<1>4. Symbols(SubSeq(message, 1, n)) =
         [i \in 1 .. n |-> SubSeq(message, 1, n)[i].symbol]
  BY <1>3 DEF Symbols
<1>5. \A i \in 1 .. n : SubSeq(message, 1, n)[i].symbol \in A
  BY <1>3
<1> QED BY <1>3, <1>4, <1>5, IsASeq

\* The two ends of an answer differ by what a streaming writer leaves behind.
LEMMA EndsAgree ==
    ASSUME NEW C, NEW D, Marks \subseteq C, C \subseteq D, "</think>" \in D,
           NEW w \in Writers(D, C)
    PROVE  LET left == FlushTools(FinishChunks(w).tools)
           IN  /\ Build(w).text = FinishChunks(w).text \o
                     (IF options.toolCalls THEN left.text ELSE <<>>)
               /\ Build(w).calls = FinishChunks(w).calls \o
                     (IF options.toolCalls THEN left.calls ELSE <<>>)
<1> DEFINE left == FlushTools(w.tools)
           end == FinishChunks(w)
<1>1. end \in Writers(D, C) /\ end.tools = w.tools /\ end.calls = w.calls
  BY CloseThinkType DEF FinishChunks, CloseThink, Writers
<1>2. end.text = w.text \o (IF w.open THEN ThinkClose ELSE <<>>)
  BY DEF FinishChunks, CloseThink, Writers
<1>3. end.text \in Seq(D) /\ end.text \o <<>> = end.text
  <2>1. end.text \in Seq(D)
    BY <1>1 DEF Writers
  <2> QED BY <2>1, ConcatEmptySeq
<1>4. end.calls \o <<>> = end.calls
  BY <1>1, ConcatEmptySeq DEF Writers, Calls
<1>5. CASE ~options.toolCalls
  BY <1>3, <1>4, <1>5 DEF Build, FinishChunks
<1>6. CASE options.toolCalls
  <2> DEFINE written == AddText(w, left.text)
             after == [written EXCEPT !.tools = left.p,
                                      !.calls = written.calls \o left.calls]
  <2>1. Build(w) = CloseThink(after)
    BY <1>6 DEF Build
  <2>2. left \in Results(C, C)
    BY FlushToolsType DEF Writers
  <2> HIDE DEF left
  <2>3. left.text \in Seq(D) /\ left.calls \in Calls(C)
    BY <2>2, Wider DEF Results
  <2>4. written \in Writers(D, C) /\ written.calls = w.calls
    BY <2>3, AddTextType DEF AddText, Writers
  <2>5. Build(w).calls = end.calls \o left.calls
    <3>1. CloseThink(after).calls = after.calls
      BY <2>4 DEF CloseThink, Writers
    <3>2. after.calls = w.calls \o left.calls
      BY <2>4 DEF Writers
    <3> QED BY <1>1, <2>1, <3>1, <3>2
  <2>6. Build(w).text = end.text \o left.text
    <3>1. /\ after.open = written.open /\ after.text = written.text
      BY <2>4 DEF Writers
    <3>2. CloseThink(after).text =
             written.text \o (IF written.open THEN ThinkClose ELSE <<>>)
      BY <2>4, <3>1 DEF CloseThink, Writers
    <3>3. CASE left.text = <<>>
      <4>1. written = w
        BY <3>3 DEF AddText
      <4> HIDE DEF written
      <4> QED BY <1>2, <1>3, <2>1, <3>2, <3>3, <4>1
    <3>4. CASE left.text # <<>>
      <4>1. /\ written.open = FALSE
            /\ written.text = w.text \o (IF w.open THEN ThinkClose ELSE <<>>) \o left.text
        BY <3>4 DEF AddText, Writers
      <4>2. written.text \in Seq(D) /\ written.text \o <<>> = written.text
        <5>1. written.text \in Seq(D)
          BY <2>4 DEF Writers
        <5> QED BY <5>1, ConcatEmptySeq
      <4> HIDE DEF written, end
      <4> QED BY <1>2, <2>1, <3>2, <4>1, <4>2
    <3> QED BY <3>3, <3>4
  <2>7. FlushTools(FinishChunks(w).tools) = left
    BY <1>1 DEF left
  <2> QED BY <1>6, <2>5, <2>6, <2>7
<1> QED BY <1>5, <1>6

\* The invariant holds before the first line.
LEMMA InitTextInv == Init => TextInv
<1> SUFFICES ASSUME Init PROVE TextInv
  OBVIOUS
<1>1. /\ phase \in {"streaming", "flushed", "done"} /\ phase # "done"
      /\ mixed \in BOOLEAN
      /\ options \in [toolCalls : BOOLEAN, showThink : BOOLEAN]
      /\ adapter = collector
  BY DEF Init
<1>2. Remaining
  <2>1. said \in Messages /\ said \in Seq(Items) /\ message = said
    BY TextAssumption DEF Init, Items
  <2>2. Len(said) \in Nat /\ 0 \in 0 .. Len(said)
    BY <2>1, LenProperties
  <2>3. SubSeq(said, 1, Len(said)) = said
    BY <2>1
  <2> QED BY <2>1, <2>2, <2>3 DEF Remaining
<1>3. Apart
  BY NewParserType, NewWriterType, EventType
  DEF Init, Apart, Filters, Events, Event, Calls
<1> QED BY <1>1, <1>2, <1>3 DEF TextInv, Together

\* A line keeps it.
LEMMA DeliverTextInv ==
    ASSUME TextInv, NEW n \in 1 .. Len(message), Deliver(n)
    PROVE  TextInv'
<1> DEFINE channel == message[1].channel
           chunk == Symbols(SubSeq(message, 1, n))
           applied == Apply(filter, tools, channel, chunk)
           A == IF channel = "content" THEN Heard' ELSE STRING
           C == Heard'
           D == Shown'
<1>1. /\ \A i \in 1 .. n : message[i].channel = channel
      /\ filter' = applied.filter /\ tools' = applied.tools
      /\ adapter' = AddEvent(adapter, applied.event)
      /\ collector' = AddEvent(collector, applied.event)
      /\ forwarded' = Append2(forwarded, applied.event)
      /\ mixed' = (mixed \/ (channel # LastChannel /\ Held(filter) # <<>>))
      /\ message' = SubSeq(message, n + 1, Len(message))
      /\ phase = "streaming" /\ UNCHANGED <<phase, options, said>>
  BY DEF Deliver
<1>2. mixed \in BOOLEAN /\ mixed' \in BOOLEAN
      /\ options \in [toolCalls : BOOLEAN, showThink : BOOLEAN] /\ options' = options
  BY <1>1 DEF TextInv
<1>3. Remaining' /\ LastChannel' = channel
  <2>1. Remaining /\ n \in 1 .. n /\ 1 \in 1 .. n
    BY MessageFacts DEF TextInv
  <2> QED BY <1>1, <2>1, LineFacts
<1>4. /\ Public \subseteq Heard' /\ Heard' \subseteq Shown' /\ Shown' \subseteq STRING
      /\ Marks \subseteq Public /\ LineEnds \subseteq Public
      /\ "<think>" \in Public /\ "</think>" \in Public
      /\ options'.showThink => Shown' = STRING
      /\ ~mixed' => Heard' = Public
      /\ mixed' => Heard' = STRING
      /\ Kept \subseteq STRING
      /\ Heard \subseteq Heard' /\ Shown \subseteq Shown'
  BY <1>1, <1>2, Alphabets DEF Heard, Shown, Kept
<1>5. Kept' = IF mixed' \/ channel = "thinking" THEN STRING ELSE Public
  BY <1>3 DEF Kept, Public
<1>6. channel \in {"content", "thinking"}
  <2>1. message \in Seq(Items) /\ 1 \in 1 .. Len(message)
    BY MessageFacts DEF TextInv
  <2>2. message[1] \in Items
    BY <2>1, ElementOfSeq
  <2> QED BY <2>2 DEF Items
<1>7. A = Kept'
  BY <1>4, <1>5, <1>6
<1>8. chunk \in Seq(A)
  <2>1. \A i \in 1 .. n : message[i].symbol \in A
    <3>1. Len(message) \in Nat /\ \A i \in 1 .. Len(message) :
             /\ message[i].symbol \in STRING
             /\ message[i].channel # "thinking" => message[i].symbol \in Public
      BY MessageFacts DEF TextInv
    <3>2. \A i \in 1 .. n : i \in 1 .. Len(message)
      BY <3>1
    <3> HIDE DEF channel
    <3> QED BY <1>1, <1>4, <1>6, <3>1, <3>2
  <2> HIDE DEF A
  <2> QED BY <2>1, SymbolsType DEF TextInv
<1>9. filter \in Filters(A)
  <2>1. filter \in Filters(Kept)
    BY DEF TextInv, Apart
  <2>2. CASE Kept \subseteq A
    BY <2>1, <2>2, Wider DEF Filters
  <2>3. CASE ~ (Kept \subseteq A)
    <3>1. channel = "content" /\ ~mixed' /\ LastChannel = "thinking"
      BY <1>1, <1>4, <1>6, <2>3 DEF Kept
    <3>2. Held(filter) = <<>>
      BY <1>1, <3>1
    <3>3. /\ filter.card \in Parsers(Kept, Kept)
          /\ filter.drop \in Parsers(Kept, {})
          /\ filter = [card |-> filter.card, drop |-> filter.drop]
      BY <2>1 DEF Filters
    <3>4. /\ filter.card.partial = <<>> /\ filter.drop.partial = <<>>
          /\ filter.card.buffer = <<>>
      <4>1. /\ filter.card.partial \in Seq(Kept) /\ filter.drop.partial \in Seq(Kept)
            /\ filter.card.buffer \in Seq(Kept)
        BY <3>3 DEF Parsers
      <4>2. \A x, y \in Seq(Kept) : x \o y = <<>> => x = <<>> /\ y = <<>>
        <5>1. \A x, y \in Seq(Kept) : /\ Len(x) \in Nat /\ Len(y) \in Nat
                                      /\ Len(x \o y) = Len(x) + Len(y)
          BY ConcatProperties, LenProperties
        <5>2. \A x \in Seq(Kept) : Len(x) = 0 => x = <<>>
          BY EmptySeq
        <5> QED BY <5>1, <5>2
      <4>3. filter.card.buffer \o filter.card.partial \in Seq(Kept)
        BY <4>1, ConcatProperties
      <4>4. filter.card.buffer \o filter.card.partial = <<>> /\ filter.drop.partial = <<>>
        BY <3>2, <4>1, <4>2, <4>3, Zenon DEF Held
      <4> QED BY <4>1, <4>2, <4>4, Zenon
    <3>5. /\ filter.card \in Parsers(A, A)
          /\ filter.drop \in Parsers(A, {})
      <4> HIDE DEF A
      <4> QED BY <3>3, <3>4 DEF Parsers
    <3> QED BY <3>3, <3>5 DEF Filters
  <2> QED BY <2>2, <2>3
<1>10. /\ tools \in Parsers(C, C) /\ forwarded \in Events(C, STRING)
       /\ adapter \in Writers(D, C) /\ collector \in Writers(D, C)
       /\ \A e \in Events(C, A) : e \in Events(C, STRING)
  <2>1. /\ tools \in Parsers(Heard, Heard) /\ forwarded \in Events(Heard, STRING)
        /\ adapter \in Writers(Shown, Heard) /\ collector \in Writers(Shown, Heard)
    BY DEF TextInv, Apart
  <2>2. tools \in Parsers(C, C)
    BY <1>4, <2>1, Wider
  <2>3. forwarded \in Events(C, STRING)
    <3>1. Heard \subseteq C
      BY <1>4
    <3> HIDE DEF C
    <3> QED BY <2>1, <3>1, Wider DEF Events
  <2>4. \A w \in Writers(Shown, Heard) : w \in Writers(D, C)
    <3> HIDE DEF C, D
    <3>1. Heard \subseteq C /\ Shown \subseteq D
      BY <1>4 DEF C, D
    <3> QED BY <3>1, Wider DEF Writers
  <2>5. \A e \in Events(C, A) : e \in Events(C, STRING)
    <3>1. A \subseteq STRING
      BY <1>4
    <3> HIDE DEF A, C
    <3> QED BY <3>1, Wider DEF Events
  <2> QED BY <2>1, <2>2, <2>3, <2>4, <2>5
<1>11. /\ A \subseteq STRING /\ LineEnds \subseteq A /\ Marks \subseteq C /\ C \subseteq D
       /\ "</think>" \in D /\ (channel = "content" => A \subseteq C)
       /\ (options.showThink => STRING \cup {"<think>"} \subseteq D)
  BY <1>2, <1>4
<1> HIDE DEF A, C, D, chunk, channel
<1>12. applied \in [filter : Filters(A), tools : Parsers(C, C), event : Events(C, A)]
  BY <1>8, <1>9, <1>10, <1>11, ApplyType
<1> HIDE DEF applied
<1>13. /\ filter' \in Filters(A) /\ tools' \in Parsers(C, C)
       /\ applied.event \in Events(C, STRING)
  BY <1>1, <1>10, <1>12
<1>14. adapter' \in Writers(D, C) /\ collector' \in Writers(D, C)
  BY <1>1, <1>10, <1>11, <1>13, AddEventType
<1>15. forwarded' \in Events(C, STRING)
  BY <1>1, <1>10, <1>13, Append2Type
<1>16. Apart'
  BY <1>7, <1>13, <1>14, <1>15 DEF Apart, C, D
<1>17. Together'
  BY <1>1 DEF TextInv, Together
<1> QED BY <1>1, <1>2, <1>3, <1>16, <1>17 DEF TextInv

\* So does the flow's flush.
LEMMA FlushTextInv ==
    ASSUME TextInv, Flush
    PROVE  TextInv'
<1> DEFINE flushed == FlushStreamParsers(filter, tools)
           A == IF mixed' THEN STRING ELSE Public
           C == Heard'
           D == Shown'
<1>1. /\ filter' = flushed.filter /\ tools' = flushed.tools
      /\ adapter' = AddEvent(AddEvent(adapter, flushed.events[1]), flushed.events[2])
      /\ collector' = AddEvent(AddEvent(collector, flushed.events[1]), flushed.events[2])
      /\ forwarded' = Append2(Append2(forwarded, flushed.events[1]), flushed.events[2])
      /\ mixed' = (mixed \/ (LastChannel = "thinking" /\ Held(filter) # <<>>))
      /\ phase = "streaming" /\ phase' = "flushed"
      /\ UNCHANGED <<message, options, said>>
  BY DEF Flush
<1>2. mixed \in BOOLEAN /\ mixed' \in BOOLEAN
      /\ options \in [toolCalls : BOOLEAN, showThink : BOOLEAN] /\ options' = options
  BY <1>1 DEF TextInv
<1>3. Remaining' /\ LastChannel' = LastChannel
  BY <1>1 DEF TextInv, Remaining, LastChannel
<1>4. /\ Public \subseteq Heard' /\ Heard' \subseteq Shown' /\ Shown' \subseteq STRING
      /\ Marks \subseteq Public
      /\ "<think>" \in Public /\ "</think>" \in Public
      /\ options'.showThink => Shown' = STRING
      /\ A = Heard' /\ A \subseteq Kept'
      /\ Kept \subseteq STRING
      /\ Heard \subseteq Heard' /\ Shown \subseteq Shown'
  BY <1>1, <1>2, Alphabets DEF Heard, Shown, Kept, Public
<1>5. filter \in Filters(A)
  <2>1. filter \in Filters(Kept)
    BY DEF TextInv, Apart
  <2>2. CASE Kept \subseteq A
    BY <2>1, <2>2, Wider DEF Filters
  <2>3. CASE ~ (Kept \subseteq A)
    <3>1. ~mixed' /\ LastChannel = "thinking"
      BY <1>1, <1>4, <2>3 DEF Kept
    <3>2. Held(filter) = <<>>
      BY <1>1, <3>1
    <3>3. /\ filter.card \in Parsers(Kept, Kept)
          /\ filter.drop \in Parsers(Kept, {})
          /\ filter = [card |-> filter.card, drop |-> filter.drop]
      BY <2>1 DEF Filters
    <3>4. /\ filter.card.partial = <<>> /\ filter.drop.partial = <<>>
          /\ filter.card.buffer = <<>>
      <4>1. /\ filter.card.partial \in Seq(Kept) /\ filter.drop.partial \in Seq(Kept)
            /\ filter.card.buffer \in Seq(Kept)
        BY <3>3 DEF Parsers
      <4>2. \A x, y \in Seq(Kept) : x \o y = <<>> => x = <<>> /\ y = <<>>
        <5>1. \A x, y \in Seq(Kept) : /\ Len(x) \in Nat /\ Len(y) \in Nat
                                      /\ Len(x \o y) = Len(x) + Len(y)
          BY ConcatProperties, LenProperties
        <5>2. \A x \in Seq(Kept) : Len(x) = 0 => x = <<>>
          BY EmptySeq
        <5> QED BY <5>1, <5>2
      <4>3. filter.card.buffer \o filter.card.partial \in Seq(Kept)
        BY <4>1, ConcatProperties
      <4>4. filter.card.buffer \o filter.card.partial = <<>> /\ filter.drop.partial = <<>>
        BY <3>2, <4>1, <4>2, <4>3, Zenon DEF Held
      <4> QED BY <4>1, <4>2, <4>4, Zenon
    <3>5. /\ filter.card \in Parsers(A, A)
          /\ filter.drop \in Parsers(A, {})
      <4> HIDE DEF A
      <4> QED BY <3>3, <3>4 DEF Parsers
    <3> QED BY <3>3, <3>5 DEF Filters
  <2> QED BY <2>2, <2>3
<1>6. /\ tools \in Parsers(C, C) /\ forwarded \in Events(C, STRING)
      /\ adapter \in Writers(D, C) /\ collector \in Writers(D, C)
  <2>1. /\ tools \in Parsers(Heard, Heard) /\ forwarded \in Events(Heard, STRING)
        /\ adapter \in Writers(Shown, Heard) /\ collector \in Writers(Shown, Heard)
    BY DEF TextInv, Apart
  <2>2. tools \in Parsers(C, C)
    BY <1>4, <2>1, Wider
  <2>3. forwarded \in Events(C, STRING)
    <3>1. Heard \subseteq C
      BY <1>4
    <3> HIDE DEF C
    <3> QED BY <2>1, <3>1, Wider DEF Events
  <2>4. \A w \in Writers(Shown, Heard) : w \in Writers(D, C)
    <3> HIDE DEF C, D
    <3>1. Heard \subseteq C /\ Shown \subseteq D
      BY <1>4 DEF C, D
    <3> QED BY <3>1, Wider DEF Writers
  <2> QED BY <2>1, <2>2, <2>3, <2>4
<1>7. /\ A \subseteq C /\ Marks \subseteq C /\ C \subseteq D /\ "</think>" \in D
      /\ (options.showThink => STRING \cup {"<think>"} \subseteq D)
      /\ A \subseteq Kept'
  BY <1>2, <1>4
<1> HIDE DEF A, C, D
<1>8. /\ flushed.filter \in Filters(A) /\ flushed.tools \in Parsers(C, C)
      /\ flushed.events[1] \in Events(C, {}) /\ flushed.events[2] \in Events(C, {})
  BY <1>5, <1>6, <1>7, FlushStreamParsersType
<1> HIDE DEF flushed
<1>9. flushed.events[1] \in Events(C, STRING) /\ flushed.events[2] \in Events(C, STRING)
  BY <1>8, Wider DEF Events
<1>10. adapter' \in Writers(D, C) /\ collector' \in Writers(D, C)
  <2>1. AddEvent(adapter, flushed.events[1]) \in Writers(D, C)
    BY <1>6, <1>7, <1>9, AddEventType
  <2>2. AddEvent(collector, flushed.events[1]) \in Writers(D, C)
    BY <1>6, <1>7, <1>9, AddEventType
  <2> QED BY <1>1, <1>7, <1>9, <2>1, <2>2, AddEventType
<1>11. forwarded' \in Events(C, STRING)
  BY <1>1, <1>6, <1>9, Append2Type
<1>12. filter' \in Filters(Kept')
  BY <1>1, <1>7, <1>8, Wider DEF Filters
<1>13. Apart'
  BY <1>1, <1>8, <1>10, <1>11, <1>12 DEF Apart, C, D
<1>14. Together'
  BY <1>1 DEF TextInv, Together
<1> QED BY <1>1, <1>2, <1>3, <1>13, <1>14 DEF TextInv

\* And the handler's end.
LEMMA FinishTextInv ==
    ASSUME TextInv, Finish
    PROVE  TextInv'
<1>1. /\ phase = "flushed" /\ phase' = "done"
      /\ adapter' = FinishChunks(adapter) /\ collector' = Build(collector)
      /\ UNCHANGED <<message, filter, tools, options, said, forwarded, mixed>>
  BY DEF Finish
<1>2. /\ Marks \subseteq Heard /\ Heard \subseteq Shown /\ "</think>" \in Shown
  BY Alphabets DEF TextInv
<1>3. adapter \in Writers(Shown, Heard) /\ collector = adapter
  BY <1>1 DEF TextInv, Apart, Together
<1>4. adapter' \in Writers(Shown, Heard) /\ adapter'.open = FALSE
  BY <1>1, <1>2, <1>3, CloseThinkType DEF FinishChunks
<1>5. collector' \in Writers(Shown, Heard) /\ collector'.open = FALSE
  BY <1>1, <1>2, <1>3, BuildType
<1>6. WritersAgree'
  BY <1>1, <1>2, <1>3, EndsAgree DEF WritersAgree
<1>7. Together'
  BY <1>1, <1>4, <1>5, <1>6 DEF Together
<1>8. Apart' /\ Remaining'
  BY <1>1, <1>4, <1>5
  DEF TextInv, Apart, Remaining, Kept, Heard, Shown, LastChannel
<1> QED BY <1>1, <1>7, <1>8 DEF TextInv

\* Nothing else happens.
LEMMA TextInvStep == TextInv /\ [Next]_vars => TextInv'
<1> SUFFICES ASSUME TextInv, [Next]_vars PROVE TextInv'
  OBVIOUS
<1>1. ASSUME NEW n \in 1 .. Len(message), Deliver(n) PROVE TextInv'
  BY <1>1, DeliverTextInv
<1>2. CASE Flush
  BY <1>2, FlushTextInv
<1>3. CASE Finish
  BY <1>3, FinishTextInv
<1>4. CASE UNCHANGED vars
  BY <1>4 DEF vars, TextInv, Remaining, Apart, Together, WritersAgree, Kept, Heard,
              Shown, LastChannel
<1> QED BY <1>1, <1>2, <1>3, <1>4 DEF Next

\* The invariant holds of every answer, cut in any way.
THEOREM TextInvariant == Spec => []TextInv
<1> QED BY InitTextInv, TextInvStep, PTL DEF Spec

\* The two kinds of answer carry the same text and calls, except for what a
\* streaming answer leaves behind in its parser.
THEOREM AgreeingWriters == Spec => []WritersAgree
<1>1. TextInv => WritersAgree
  BY DEF TextInv, Together, WritersAgree
<1> QED BY <1>1, TextInvariant, PTL

\* What was only thought does not get into the answer, nor to a client that does
\* not want to see it, unless a tag was open where thinking and answer meet.
THEOREM ThinkingApart == Spec => []ThinkingStaysApart
<1>1. TextInv => ThinkingStaysApart
  <2> SUFFICES ASSUME TextInv PROVE ThinkingStaysApart
    OBVIOUS
  <2>1. \A s \in Seq(Public) : \A i \in 1 .. Len(s) : s[i] \notin Private
    BY ElementOfSeq DEF Public
  <2>2. ASSUME ~mixed
        PROVE  /\ forwarded.content \in Seq(Public)
               /\ ~options.showThink =>
                     adapter.text \in Seq(Public) /\ collector.text \in Seq(Public)
    BY <2>2 DEF TextInv, Apart, Heard, Shown, Events, Writers
  <2>3. mixed \in BOOLEAN /\ (phase = "done" => ~adapter.open /\ ~collector.open)
    BY DEF TextInv, Together
  <2> QED BY <2>1, <2>2, <2>3 DEF ThinkingStaysApart
<1> QED BY <1>1, TextInvariant, PTL

-----------------------------------------------------------------------------
(* Where a text is cut makes no difference to its tags.                    *)

Texts == Seq(STRING)

\* Two texts one after the other.
LEMMA Joined ==
    ASSUME NEW x \in Texts, NEW y \in Texts
    PROVE  /\ x \o y \in Texts /\ Len(x) \in Nat /\ Len(y) \in Nat
           /\ Len(x \o y) = Len(x) + Len(y)
           /\ \A i \in 1 .. Len(x) : (x \o y)[i] = x[i]
           /\ \A i \in 1 .. Len(y) : (x \o y)[Len(x) + i] = y[i]
<1>1. Len(x) \in Nat /\ Len(y) \in Nat
  BY LenProperties DEF Texts
<1>2. /\ x \o y \in Seq(STRING) /\ Len(x \o y) = Len(x) + Len(y)
      /\ \A i \in 1 .. Len(x) + Len(y) :
            (x \o y)[i] = IF i <= Len(x) THEN x[i] ELSE y[i - Len(x)]
  BY ConcatProperties DEF Texts
<1>3. \A i \in 1 .. Len(x) : (x \o y)[i] = x[i]
  BY <1>1, <1>2
<1>4. ASSUME NEW i \in 1 .. Len(y) PROVE (x \o y)[Len(x) + i] = y[i]
  <2>1. Len(x) + i \in 1 .. Len(x) + Len(y) /\ ~(Len(x) + i <= Len(x))
        /\ (Len(x) + i) - Len(x) = i
    BY <1>1
  <2> QED BY <1>2, <2>1
<1> QED BY <1>1, <1>2, <1>3, <1>4 DEF Texts

\* Texts of the same symbols are the same.
LEMMA SameText ==
    ASSUME NEW x \in Texts, NEW y \in Texts, Len(x) = Len(y),
           \A i \in 1 .. Len(x) : x[i] = y[i]
    PROVE  x = y
BY SeqEqual DEF Texts

\* The parts of a text.
LEMMA PartsOf ==
    ASSUME NEW x \in Texts, NEW i \in 1 .. Len(x) + 1
    PROVE  /\ Before(x, i) \in Texts /\ Len(Before(x, i)) = i - 1
           /\ From(x, i) \in Texts /\ Len(From(x, i)) = Len(x) + 1 - i
           /\ \A j \in 1 .. i - 1 : Before(x, i)[j] = x[j]
           /\ \A j \in 1 .. Len(x) + 1 - i : From(x, i)[j] = x[i + j - 1]
           /\ x = Before(x, i) \o From(x, i)
<1>1. /\ Before(x, i) \in Texts /\ Len(Before(x, i)) = i - 1
      /\ From(x, i) \in Texts /\ Len(From(x, i)) = Len(x) + 1 - i
      /\ \A j \in 1 .. i - 1 : Before(x, i)[j] = x[j]
      /\ \A j \in 1 .. Len(x) + 1 - i : From(x, i)[j] = x[i + j - 1]
  BY PartTypes DEF Texts
<1>2. Len(x) \in Nat
  BY LenProperties DEF Texts
<1> DEFINE b == Before(x, i)
           f == From(x, i)
<1>3. /\ b \o f \in Texts /\ Len(b \o f) = Len(x)
      /\ \A j \in 1 .. i - 1 : (b \o f)[j] = x[j]
      /\ \A j \in 1 .. Len(x) + 1 - i : (b \o f)[(i - 1) + j] = x[i + j - 1]
  <2> HIDE DEF b, f
  <2>1. /\ b \o f \in Texts /\ Len(b \o f) = Len(b) + Len(f)
        /\ \A j \in 1 .. Len(b) : (b \o f)[j] = b[j]
        /\ \A j \in 1 .. Len(f) : (b \o f)[Len(b) + j] = f[j]
    BY <1>1, Joined DEF b, f
  <2> QED BY <1>1, <1>2, <2>1 DEF b, f
<1>4. ASSUME NEW k \in 1 .. Len(x) PROVE (b \o f)[k] = x[k]
  <2> HIDE DEF b, f
  <2>1. CASE k <= i - 1
    BY <1>2, <1>3, <2>1
  <2>2. CASE k > i - 1
    <3>1. k - (i - 1) \in 1 .. Len(x) + 1 - i
          /\ (i - 1) + (k - (i - 1)) = k /\ i + (k - (i - 1)) - 1 = k
      BY <1>2, <2>2
    <3> QED BY <1>3, <3>1
  <2>3. k <= i - 1 \/ k > i - 1
    BY <1>2
  <2> QED BY <2>1, <2>2, <2>3
<1>5. x = b \o f
  <2> HIDE DEF b, f
  <2> QED BY <1>3, <1>4, SameText
<1> QED BY <1>1, <1>5

\* Parts of two texts, cut in the first ...
LEMMA PartsOfFirst ==
    ASSUME NEW x \in Texts, NEW y \in Texts, NEW i \in 1 .. Len(x) + 1
    PROVE  Before(x \o y, i) = Before(x, i) /\ From(x \o y, i) = From(x, i) \o y
<1>1. /\ x \o y \in Texts /\ Len(x) \in Nat /\ Len(y) \in Nat
      /\ Len(x \o y) = Len(x) + Len(y)
      /\ \A k \in 1 .. Len(x) : (x \o y)[k] = x[k]
      /\ \A k \in 1 .. Len(y) : (x \o y)[Len(x) + k] = y[k]
  BY Joined
<1> DEFINE z == x \o y
           b == Before(x, i)
           f == From(x, i)
<1>2. i \in 1 .. Len(z) + 1
  BY <1>1
<1>3. /\ b \in Texts /\ Len(b) = i - 1 /\ f \in Texts /\ Len(f) = Len(x) + 1 - i
      /\ \A j \in 1 .. i - 1 : b[j] = x[j]
      /\ \A j \in 1 .. Len(x) + 1 - i : f[j] = x[i + j - 1]
  BY PartsOf
<1> HIDE DEF z, b, f
<1>4. /\ Before(z, i) \in Texts /\ Len(Before(z, i)) = i - 1
      /\ From(z, i) \in Texts /\ Len(From(z, i)) = Len(z) + 1 - i
      /\ \A j \in 1 .. i - 1 : Before(z, i)[j] = z[j]
      /\ \A j \in 1 .. Len(z) + 1 - i : From(z, i)[j] = z[i + j - 1]
  BY <1>1, <1>2, PartsOf DEF z
<1>5. Before(z, i) = b
  <2>1. \A j \in 1 .. i - 1 : Before(z, i)[j] = b[j]
    BY <1>1, <1>3, <1>4 DEF z
  <2> QED BY <1>3, <1>4, <2>1, SameText
<1>6. From(z, i) = f \o y
  <2>1. /\ f \o y \in Texts /\ Len(f \o y) = Len(f) + Len(y)
        /\ \A k \in 1 .. Len(f) : (f \o y)[k] = f[k]
        /\ \A k \in 1 .. Len(y) : (f \o y)[Len(f) + k] = y[k]
    BY <1>3, Joined
  <2>2. ASSUME NEW j \in 1 .. Len(z) + 1 - i PROVE From(z, i)[j] = (f \o y)[j]
    <3>1. CASE j <= Len(f)
      <4>1. i + j - 1 \in 1 .. Len(x) /\ j \in 1 .. Len(f)
        BY <1>1, <1>3, <3>1
      <4> QED BY <1>1, <1>3, <1>4, <2>1, <4>1 DEF z
    <3>2. CASE j > Len(f)
      <4>1. /\ j - Len(f) \in 1 .. Len(y) /\ Len(f) + (j - Len(f)) = j
            /\ Len(x) + (j - Len(f)) = i + j - 1
        BY <1>1, <1>3, <3>2 DEF z
      <4>2. (f \o y)[j] = y[j - Len(f)] /\ z[i + j - 1] = y[j - Len(f)]
        BY <1>1, <2>1, <4>1 DEF z
      <4> QED BY <1>4, <4>2
    <3>3. j <= Len(f) \/ j > Len(f)
      BY <1>1, <1>3
    <3> QED BY <3>1, <3>2, <3>3
  <2>3. Len(From(z, i)) = Len(f \o y)
    BY <1>1, <1>3, <1>4, <2>1 DEF z
  <2> QED BY <1>4, <2>1, <2>2, <2>3, SameText
<1> QED BY <1>5, <1>6 DEF z, b, f

\* ... and in the second.
LEMMA PartsOfSecond ==
    ASSUME NEW x \in Texts, NEW y \in Texts, NEW i \in 1 .. Len(y) + 1
    PROVE  /\ Before(x \o y, Len(x) + i) = x \o Before(y, i)
           /\ From(x \o y, Len(x) + i) = From(y, i)
<1> DEFINE b == Before(y, i)
           f == From(y, i)
<1>1. /\ b \in Texts /\ Len(b) = i - 1 /\ f \in Texts /\ y = b \o f
  BY PartsOf
<1> HIDE DEF b, f
<1>2. x \o y = (x \o b) \o f
  <2>1. (x \o b) \o f = x \o (b \o f)
    BY <1>1, ConcatAssociative DEF Texts
  <2> QED BY <1>1, <2>1
<1>3. x \o b \in Texts /\ Len(x \o b) = Len(x) + (i - 1) /\ Len(x) \in Nat
  <2>1. x \o b \in Texts /\ Len(x \o b) = Len(x) + Len(b) /\ Len(x) \in Nat
    BY <1>1, Joined
  <2> QED BY <1>1, <2>1
<1>4. Len(x) + i \in 1 .. Len(x \o b) + 1 /\ Len(x) + i = Len(x \o b) + 1
  <2>1. Len(y) \in Nat
    BY LenProperties DEF Texts
  <2> QED BY <1>3, <2>1
<1>5. /\ Before((x \o b) \o f, Len(x) + i) = Before(x \o b, Len(x) + i)
      /\ From((x \o b) \o f, Len(x) + i) = From(x \o b, Len(x) + i) \o f
  BY <1>1, <1>3, <1>4, PartsOfFirst
<1>6. From(x \o b, Len(x) + i) = <<>>
  <2>1. From(x \o b, Len(x) + i) \in Texts /\ Len(From(x \o b, Len(x) + i)) = 0
    <3>1. /\ From(x \o b, Len(x) + i) \in Texts
          /\ Len(From(x \o b, Len(x) + i)) = Len(x \o b) + 1 - (Len(x) + i)
      BY <1>3, <1>4, PartsOf
    <3> QED BY <1>3, <1>4, <3>1
  <2> QED BY <2>1, EmptySeq DEF Texts
<1>7. Before(x \o b, Len(x) + i) = x \o b
  <2>1. x \o b = Before(x \o b, Len(x) + i) \o From(x \o b, Len(x) + i)
        /\ Before(x \o b, Len(x) + i) \in Texts
    BY <1>3, <1>4, PartsOf
  <2> QED BY <1>6, <2>1, ConcatEmptySeq DEF Texts
<1>8. <<>> \o f = f
  BY <1>1, ConcatEmptySeq DEF Texts
<1> QED BY <1>2, <1>5, <1>6, <1>7, <1>8 DEF b, f

\* A tag, or as much of it as the text has room for, stands at place i.
Starts(x, tag, i) ==
    /\ i \in 1 .. Len(x)
    /\ \A j \in 1 .. Len(tag) : i + j - 1 <= Len(x) => x[i + j - 1] = tag[j]

Tags == {tag \in Texts : Len(tag) \in Nat \ {0}}

\* A part of a text is a tag when the symbols are those of the tag.
LEMMA TagAt ==
    ASSUME NEW x \in Texts, NEW tag \in Tags, NEW i \in 1 .. Len(x) - Len(tag) + 1
    PROVE  SubSeq(x, i, i + Len(tag) - 1) = tag <=> Starts(x, tag, i)
<1>1. tag \in Texts /\ Len(tag) \in Nat \ {0} /\ Len(x) \in Nat
  BY LenProperties DEF Tags, Texts
<1> DEFINE s == SubSeq(x, i, i + Len(tag) - 1)
<1>2. /\ s \in Texts /\ Len(s) = Len(tag)
      /\ \A j \in 1 .. Len(tag) : s[j] = x[i + j - 1]
  <2>1. i \in Int /\ i + Len(tag) - 1 \in Int
        /\ \A k \in i .. i + Len(tag) - 1 : x[k] \in STRING
    <3>1. ASSUME NEW k \in i .. i + Len(tag) - 1 PROVE x[k] \in STRING
      <4>1. k \in 1 .. Len(x)
        BY <1>1
      <4> QED BY <4>1, ElementOfSeq DEF Texts
    <3> QED BY <1>1, <3>1
  <2>2. /\ s \in Seq(STRING)
        /\ Len(s) = IF i <= i + Len(tag) - 1 THEN (i + Len(tag) - 1) - i + 1 ELSE 0
        /\ \A j \in 1 .. (i + Len(tag) - 1) - i + 1 : s[j] = x[i + j - 1]
    BY <2>1, SubSeqProperties
  <2> HIDE DEF s
  <2> QED BY <1>1, <2>2 DEF Texts
<1>3. i \in 1 .. Len(x) /\ \A j \in 1 .. Len(tag) : i + j - 1 <= Len(x)
  BY <1>1
<1> HIDE DEF s
<1>4. (\A j \in 1 .. Len(tag) : s[j] = tag[j]) => s = tag
  BY <1>1, <1>2, SameText
<1>5. Starts(x, tag, i) <=> \A j \in 1 .. Len(tag) : s[j] = tag[j]
  BY <1>2, <1>3 DEF Starts
<1> QED BY <1>4, <1>5 DEF s

\* Index is the first place where all of a tag stands.
LEMMA IndexStarts ==
    ASSUME NEW x \in Texts, NEW tag \in Tags
    PROVE  /\ Index(x, tag) \in Nat
           /\ Index(x, tag) # 0 => /\ Starts(x, tag, Index(x, tag))
                                   /\ Index(x, tag) + Len(tag) <= Len(x) + 1
           /\ \A i : Starts(x, tag, i) /\ i + Len(tag) <= Len(x) + 1 =>
                        Index(x, tag) # 0 /\ Index(x, tag) <= i
<1>1. Len(tag) \in Nat \ {0} /\ Len(x) \in Nat
  BY LenProperties DEF Tags, Texts
<1> DEFINE n == Index(x, tag)
<1>2. /\ n \in Nat
      /\ n # 0 => /\ n \in 1 .. Len(x) - Len(tag) + 1
                  /\ SubSeq(x, n, n + Len(tag) - 1) = tag
      /\ \A i \in 1 .. Len(x) - Len(tag) + 1 :
            SubSeq(x, i, i + Len(tag) - 1) = tag => n # 0 /\ n <= i
  BY <1>1, IndexValue DEF Texts
<1> HIDE DEF n
<1>3. n # 0 => Starts(x, tag, n) /\ n + Len(tag) <= Len(x) + 1
  BY <1>1, <1>2, TagAt
<1>4. ASSUME NEW i, Starts(x, tag, i), i + Len(tag) <= Len(x) + 1
      PROVE  n # 0 /\ n <= i
  <2>1. i \in 1 .. Len(x) - Len(tag) + 1
    BY <1>1, <1>4 DEF Starts
  <2> QED BY <1>2, <1>4, <2>1, TagAt
<1> QED BY <1>2, <1>3, <1>4 DEF n

\* The first k symbols of a text.
LEMMA BeginningOf ==
    ASSUME NEW x \in Texts, NEW k \in Nat, k <= Len(x)
    PROVE  /\ SubSeq(x, 1, k) \in Texts /\ Len(SubSeq(x, 1, k)) = k
           /\ \A j \in 1 .. k : SubSeq(x, 1, k)[j] = x[j]
<1>1. Len(x) \in Nat /\ \A j \in 1 .. k : j \in 1 .. Len(x)
  BY LenProperties DEF Texts
<1>2. \A j \in 1 .. k : x[j] \in STRING
  BY <1>1, ElementOfSeq DEF Texts
<1>3. /\ SubSeq(x, 1, k) \in Seq(STRING)
      /\ Len(SubSeq(x, 1, k)) = IF 1 <= k THEN k - 1 + 1 ELSE 0
      /\ \A j \in 1 .. k - 1 + 1 : SubSeq(x, 1, k)[j] = x[1 + j - 1]
  BY <1>2, SubSeqProperties
<1> QED BY <1>3 DEF Texts

\* A text read backwards.
LEMMA ReversedText ==
    ASSUME NEW x \in Texts
    PROVE  /\ Reverse(x) \in Texts /\ Len(Reverse(x)) = Len(x)
           /\ \A j \in 1 .. Len(x) : Reverse(x)[j] = x[(Len(x) - j) + 1]
<1>1. Len(x) \in Nat /\ \A j \in 1 .. Len(x) : (Len(x) - j) + 1 \in 1 .. Len(x)
  BY LenProperties DEF Texts
<1>2. \A j \in 1 .. Len(x) : x[(Len(x) - j) + 1] \in STRING
  BY <1>1, ElementOfSeq DEF Texts
<1>3. Reverse(x) \in [1 .. Len(x) -> STRING]
  BY <1>2 DEF Reverse
<1> QED BY <1>1, <1>3 DEF Reverse, Texts

\* The end of a text is the beginning of a tag when the tag stands there.
LEMMA TagEnds ==
    ASSUME NEW x \in Texts, NEW tag \in Tags, NEW k \in 1 .. Len(tag) - 1,
           k <= Len(x)
    PROVE  IsSuffix(SubSeq(tag, 1, k), x) <=> Starts(x, tag, Len(x) + 1 - k)
<1>1. tag \in Texts /\ Len(tag) \in Nat \ {0} /\ Len(x) \in Nat
  BY LenProperties DEF Tags, Texts
<1> DEFINE s == SubSeq(tag, 1, k)
<1>2. s \in Texts /\ Len(s) = k /\ \A j \in 1 .. k : s[j] = tag[j]
  <2>1. k \in 1 .. Len(tag) /\ \A j \in 1 .. k : tag[j] \in STRING
    <3>1. \A j \in 1 .. k : j \in 1 .. Len(tag)
      BY <1>1
    <3> QED BY <1>1, <3>1, ElementOfSeq DEF Texts
  <2>2. /\ s \in Seq(STRING) /\ Len(s) = IF 1 <= k THEN k - 1 + 1 ELSE 0
        /\ \A j \in 1 .. k - 1 + 1 : s[j] = tag[1 + j - 1]
    BY <2>1, SubSeqProperties
  <2> HIDE DEF s
  <2> QED BY <1>1, <2>2 DEF Texts
<1> HIDE DEF s
<1>3. IsSuffix(s, x) <=> \A j \in 1 .. k : x[Len(x) - k + j] = s[j]
  <2> DEFINE S == Reverse(s)
             X == Reverse(x)
  <2>1. /\ S \in Texts /\ Len(S) = k /\ \A j \in 1 .. k : S[j] = s[(k - j) + 1]
        /\ X \in Texts /\ Len(X) = Len(x)
        /\ \A j \in 1 .. Len(x) : X[j] = x[(Len(x) - j) + 1]
    BY <1>1, <1>2, ReversedText
  <2> HIDE DEF S, X
  <2>2. IsSuffix(s, x) <=> SubSeq(S, 1, k) = SubSeq(X, 1, k)
    BY <1>1, <2>1 DEF IsSuffix, IsPrefix, S, X
  <2>3. /\ SubSeq(S, 1, k) \in Texts /\ Len(SubSeq(S, 1, k)) = k
        /\ \A j \in 1 .. k : SubSeq(S, 1, k)[j] = S[j]
    BY <1>1, <2>1, BeginningOf
  <2>4. /\ SubSeq(X, 1, k) \in Texts /\ Len(SubSeq(X, 1, k)) = k
        /\ \A j \in 1 .. k : SubSeq(X, 1, k)[j] = X[j]
    BY <1>1, <2>1, BeginningOf
  <2>5. SubSeq(S, 1, k) = SubSeq(X, 1, k) <=> \A j \in 1 .. k : S[j] = X[j]
    <3>1. (\A j \in 1 .. k : S[j] = X[j]) => SubSeq(S, 1, k) = SubSeq(X, 1, k)
      BY <2>3, <2>4, SameText
    <3>2. SubSeq(S, 1, k) = SubSeq(X, 1, k) => \A j \in 1 .. k : S[j] = X[j]
      BY <2>3, <2>4
    <3> QED BY <3>1, <3>2
  <2>6. (\A j \in 1 .. k : S[j] = X[j]) <=>
        (\A j \in 1 .. k : x[Len(x) - k + j] = s[j])
    <3>1. ASSUME \A j \in 1 .. k : S[j] = X[j], NEW j \in 1 .. k
          PROVE  x[Len(x) - k + j] = s[j]
      <4>1. /\ k - j + 1 \in 1 .. k /\ k - j + 1 \in 1 .. Len(x)
            /\ (k - (k - j + 1)) + 1 = j
            /\ (Len(x) - (k - j + 1)) + 1 = Len(x) - k + j
        BY <1>1
      <4>2. S[k - j + 1] = X[k - j + 1]
        BY <3>1, <4>1
      <4>3. S[k - j + 1] = s[j] /\ X[k - j + 1] = x[Len(x) - k + j]
        BY <2>1, <4>1
      <4> QED BY <4>2, <4>3
    <3>2. ASSUME \A j \in 1 .. k : x[Len(x) - k + j] = s[j], NEW j \in 1 .. k
          PROVE  S[j] = X[j]
      <4>1. /\ k - j + 1 \in 1 .. k /\ j \in 1 .. Len(x)
            /\ Len(x) - k + (k - j + 1) = (Len(x) - j) + 1
            /\ (k - j) + 1 = k - j + 1
        BY <1>1
      <4>2. x[Len(x) - k + (k - j + 1)] = s[k - j + 1]
        BY <3>2, <4>1
      <4> QED BY <2>1, <4>1, <4>2
    <3> QED BY <3>1, <3>2
  <2> QED BY <2>2, <2>5, <2>6
<1>4. Starts(x, tag, Len(x) + 1 - k) <=> \A j \in 1 .. k : x[Len(x) - k + j] = tag[j]
  <2>1. Len(x) + 1 - k \in 1 .. Len(x)
    BY <1>1
  <2>2. \A j \in 1 .. k : (Len(x) + 1 - k) + j - 1 = Len(x) - k + j
    BY <1>1
  <2>3. \A j \in 1 .. Len(tag) : (Len(x) + 1 - k) + j - 1 <= Len(x) <=> j \in 1 .. k
    BY <1>1
  <2>4. \A j \in 1 .. k : j \in 1 .. Len(tag)
    BY <1>1
  <2> QED BY <2>1, <2>2, <2>3, <2>4 DEF Starts
<1> QED BY <1>2, <1>3, <1>4 DEF s

\* What is kept begins at the first place where an unfinished tag stands.
LEMMA KeptStarts ==
    ASSUME NEW x \in Texts, NEW tag \in Tags
    PROVE  /\ SuffixPrefixLength(x, tag) \in 0 .. Len(x)
           /\ SuffixPrefixLength(x, tag) < Len(tag)
           /\ SuffixPrefixLength(x, tag) # 0 =>
                 Starts(x, tag, Len(x) + 1 - SuffixPrefixLength(x, tag))
           /\ \A i : Starts(x, tag, i) /\ i + Len(tag) > Len(x) + 1 =>
                        Len(x) + 1 - i <= SuffixPrefixLength(x, tag)
<1>1. Len(tag) \in Nat \ {0} /\ Len(x) \in Nat
  BY LenProperties DEF Tags, Texts
<1> DEFINE n == SuffixPrefixLength(x, tag)
<1>2. /\ n \in 0 .. Len(x) /\ n < Len(tag)
      /\ n # 0 => IsSuffix(SubSeq(tag, 1, n), x)
      /\ \A k \in 1 .. Len(tag) - 1 :
            k <= Len(x) /\ IsSuffix(SubSeq(tag, 1, k), x) => k <= n
  BY <1>1, SuffixPrefixValue DEF Texts
<1> HIDE DEF n
<1>3. n # 0 => Starts(x, tag, Len(x) + 1 - n)
  BY <1>1, <1>2, TagEnds
<1>4. ASSUME NEW i, Starts(x, tag, i), i + Len(tag) > Len(x) + 1
      PROVE  Len(x) + 1 - i <= n
  <2>1. /\ i \in 1 .. Len(x)
        /\ Len(x) + 1 - i \in 1 .. Len(tag) - 1 /\ Len(x) + 1 - i <= Len(x)
        /\ Len(x) + 1 - (Len(x) + 1 - i) = i
    BY <1>1, <1>4 DEF Starts
  <2>2. IsSuffix(SubSeq(tag, 1, Len(x) + 1 - i), x)
    BY <1>4, <2>1, TagEnds
  <2> QED BY <1>2, <2>1, <2>2
<1> QED BY <1>2, <1>3, <1>4 DEF n

\* What stands in the first of two texts, and what in the second.
LEMMA StartsJoined ==
    ASSUME NEW x \in Texts, NEW y \in Texts, NEW tag \in Tags
    PROVE  /\ \A i : Starts(x \o y, tag, i) /\ i <= Len(x) => Starts(x, tag, i)
           /\ \A i : Starts(x, tag, i) /\ i + Len(tag) <= Len(x) + 1 =>
                        Starts(x \o y, tag, i)
           /\ \A i \in 1 .. Len(y) :
                 Starts(x \o y, tag, Len(x) + i) <=> Starts(y, tag, i)
<1>1. /\ Len(tag) \in Nat \ {0} /\ Len(x) \in Nat /\ Len(y) \in Nat
      /\ Len(x \o y) = Len(x) + Len(y)
      /\ \A i \in 1 .. Len(x) : (x \o y)[i] = x[i]
      /\ \A i \in 1 .. Len(y) : (x \o y)[Len(x) + i] = y[i]
  BY Joined DEF Tags
<1> DEFINE z == x \o y
<1> HIDE DEF z
<1>2. ASSUME NEW i, Starts(z, tag, i), i <= Len(x) PROVE Starts(x, tag, i)
  <2>1. i \in 1 .. Len(x)
    BY <1>1, <1>2 DEF Starts
  <2>2. ASSUME NEW j \in 1 .. Len(tag), i + j - 1 <= Len(x)
        PROVE  x[i + j - 1] = tag[j]
    <3>1. i + j - 1 \in 1 .. Len(x) /\ i + j - 1 <= Len(z)
      BY <1>1, <2>1, <2>2 DEF z
    <3>2. z[i + j - 1] = tag[j]
      BY <1>2, <3>1 DEF Starts
    <3> QED BY <1>1, <3>1, <3>2 DEF z
  <2> QED BY <2>1, <2>2 DEF Starts
<1>3. ASSUME NEW i, Starts(x, tag, i), i + Len(tag) <= Len(x) + 1
      PROVE  Starts(z, tag, i)
  <2>1. i \in 1 .. Len(x) /\ i \in 1 .. Len(z)
    BY <1>1, <1>3 DEF Starts, z
  <2>2. ASSUME NEW j \in 1 .. Len(tag) PROVE z[i + j - 1] = tag[j]
    <3>1. i + j - 1 \in 1 .. Len(x)
      BY <1>1, <1>3, <2>1
    <3>2. x[i + j - 1] = tag[j]
      BY <1>3, <3>1 DEF Starts
    <3> QED BY <1>1, <3>1, <3>2 DEF z
  <2> QED BY <2>1, <2>2 DEF Starts
<1>4. ASSUME NEW i \in 1 .. Len(y)
      PROVE  Starts(z, tag, Len(x) + i) <=> Starts(y, tag, i)
  <2>1. Len(x) + i \in 1 .. Len(z)
    BY <1>1 DEF z
  <2>2. ASSUME NEW j \in 1 .. Len(tag)
        PROVE  /\ (Len(x) + i) + j - 1 <= Len(z) <=> i + j - 1 <= Len(y)
               /\ i + j - 1 <= Len(y) =>
                     z[(Len(x) + i) + j - 1] = y[i + j - 1]
    <3>1. (Len(x) + i) + j - 1 <= Len(z) <=> i + j - 1 <= Len(y)
      BY <1>1 DEF z
    <3>2. ASSUME i + j - 1 <= Len(y) PROVE z[(Len(x) + i) + j - 1] = y[i + j - 1]
      <4>1. i + j - 1 \in 1 .. Len(y) /\ Len(x) + (i + j - 1) = (Len(x) + i) + j - 1
        BY <1>1, <3>2
      <4>2. z[Len(x) + (i + j - 1)] = y[i + j - 1]
        BY <1>1, <4>1 DEF z
      <4> QED BY <4>1, <4>2
    <3> QED BY <3>1, <3>2
  <2> QED BY <2>1, <2>2 DEF Starts
<1> QED BY <1>2, <1>3, <1>4 DEF z

\* A tag that was found is found in a longer text as well.
LEMMA FirstTag ==
    ASSUME NEW x \in Texts, NEW y \in Texts, NEW tag \in Tags, Index(x, tag) # 0
    PROVE  Index(x \o y, tag) = Index(x, tag)
<1> DEFINE z == x \o y
           n == Index(x, tag)
           m == Index(z, tag)
<1>1. /\ Len(tag) \in Nat \ {0} /\ Len(x) \in Nat /\ Len(y) \in Nat
      /\ z \in Texts /\ Len(z) = Len(x) + Len(y)
  BY Joined DEF Tags
<1>2. /\ n \in Nat /\ Starts(x, tag, n) /\ n + Len(tag) <= Len(x) + 1
      /\ \A i : Starts(x, tag, i) /\ i + Len(tag) <= Len(x) + 1 => n <= i
  BY IndexStarts
<1> HIDE DEF z
<1>3. /\ m \in Nat
      /\ m # 0 => Starts(z, tag, m) /\ m + Len(tag) <= Len(z) + 1
      /\ \A i : Starts(z, tag, i) /\ i + Len(tag) <= Len(z) + 1 => m # 0 /\ m <= i
  BY <1>1, IndexStarts
<1> HIDE DEF n, m
<1>4. Starts(z, tag, n) /\ n + Len(tag) <= Len(z) + 1
  BY <1>1, <1>2, StartsJoined DEF z
<1>5. m # 0 /\ m <= n
  BY <1>3, <1>4
<1>6. m + Len(tag) <= Len(x) + 1 /\ m <= Len(x)
  BY <1>1, <1>2, <1>3, <1>5
<1>7. Starts(x, tag, m)
  BY <1>3, <1>5, <1>6, StartsJoined DEF z
<1>8. n <= m
  BY <1>2, <1>6, <1>7
<1> QED BY <1>2, <1>3, <1>5, <1>8 DEF n, m, z

\* A text without a tag: no tag, finished or not, stands in what is let through.
LEMMA CleanPart ==
    ASSUME NEW x \in Texts, NEW tag \in Tags
    PROVE  /\ Clean(x, tag) \in Texts /\ Carry(x, tag) \in Texts
           /\ x = Clean(x, tag) \o Carry(x, tag)
           /\ Len(Carry(x, tag)) < Len(tag)
           /\ Len(Carry(x, tag)) = SuffixPrefixLength(x, tag)
           /\ Len(Clean(x, tag)) = Len(x) - SuffixPrefixLength(x, tag)
           /\ Index(x, tag) = 0 =>
                 \A i \in 1 .. Len(Clean(x, tag)) : ~Starts(x, tag, i)
<1> DEFINE n == SuffixPrefixLength(x, tag)
           k == Clean(x, tag)
           c == Carry(x, tag)
<1>1. Len(tag) \in Nat \ {0} /\ Len(x) \in Nat
  BY LenProperties DEF Tags, Texts
<1>2. /\ n \in 0 .. Len(x) /\ n < Len(tag)
      /\ \A i : Starts(x, tag, i) /\ i + Len(tag) > Len(x) + 1 => Len(x) + 1 - i <= n
  BY KeptStarts
<1>3. k = Before(x, Len(x) + 1 - n) /\ c = From(x, Len(x) + 1 - n)
  BY DEF Clean, Carry
<1> HIDE DEF n, k, c
<1>4. Len(x) + 1 - n \in 1 .. Len(x) + 1
  BY <1>1, <1>2
<1>5. /\ k \in Texts /\ Len(k) = (Len(x) + 1 - n) - 1
      /\ c \in Texts /\ Len(c) = Len(x) + 1 - (Len(x) + 1 - n)
      /\ x = k \o c
  BY <1>3, <1>4, PartsOf
<1>6. Len(k) = Len(x) - n /\ Len(c) = n
  BY <1>1, <1>2, <1>5
<1>7. ASSUME Index(x, tag) = 0, NEW i \in 1 .. Len(k), Starts(x, tag, i)
      PROVE  FALSE
  <2>1. ~(i + Len(tag) <= Len(x) + 1)
    BY <1>7, IndexStarts
  <2>2. i + Len(tag) > Len(x) + 1
    BY <1>1, <1>2, <1>6, <2>1
  <2>3. Len(x) + 1 - i <= n
    BY <1>2, <1>7, <2>2
  <2> QED BY <1>1, <1>2, <1>6, <2>3
<1> QED BY <1>2, <1>5, <1>6, <1>7 DEF n, k, c

\* Symbols in which no tag stands only move what comes after them.
LEMMA ShiftTag ==
    ASSUME NEW k \in Texts, NEW z \in Texts, NEW tag \in Tags,
           \A i \in 1 .. Len(k) : ~Starts(k \o z, tag, i)
    PROVE  /\ Index(k \o z, tag) =
                 IF Index(z, tag) = 0 THEN 0 ELSE Len(k) + Index(z, tag)
           /\ Clean(k \o z, tag) = k \o Clean(z, tag)
           /\ Carry(k \o z, tag) = Carry(z, tag)
<1> DEFINE x == k \o z
<1>1. /\ Len(tag) \in Nat \ {0} /\ Len(k) \in Nat /\ Len(z) \in Nat
      /\ x \in Texts /\ Len(x) = Len(k) + Len(z)
  BY Joined DEF Tags
<1>2. /\ \A i : Starts(x, tag, i) => i - Len(k) \in 1 .. Len(z)
      /\ \A i \in 1 .. Len(z) : Starts(x, tag, Len(k) + i) <=> Starts(z, tag, i)
  <2>1. \A i \in 1 .. Len(z) : Starts(x, tag, Len(k) + i) <=> Starts(z, tag, i)
    BY StartsJoined
  <2>2. ASSUME NEW i, Starts(x, tag, i) PROVE i - Len(k) \in 1 .. Len(z)
    <3>1. i \in 1 .. Len(x) /\ ~(i \in 1 .. Len(k))
      BY <2>2 DEF Starts
    <3> QED BY <1>1, <3>1
  <2> QED BY <2>1, <2>2
<1> HIDE DEF x
<1>3. \A i : Starts(x, tag, i) =>
         /\ i \in Nat /\ Starts(z, tag, i - Len(k)) /\ i = Len(k) + (i - Len(k))
  <2> SUFFICES ASSUME NEW i, Starts(x, tag, i)
               PROVE  i \in Nat /\ Starts(z, tag, i - Len(k)) /\ i = Len(k) + (i - Len(k))
    OBVIOUS
  <2>1. i \in 1 .. Len(x) /\ i - Len(k) \in 1 .. Len(z)
    BY <1>2 DEF Starts
  <2>2. i = Len(k) + (i - Len(k))
    BY <1>1, <2>1
  <2> QED BY <1>1, <1>2, <2>1, <2>2
<1>4. Index(x, tag) = IF Index(z, tag) = 0 THEN 0 ELSE Len(k) + Index(z, tag)
  <2> DEFINE n == Index(z, tag)
             m == Index(x, tag)
  <2>1. /\ n \in Nat
        /\ n # 0 => Starts(z, tag, n) /\ n + Len(tag) <= Len(z) + 1
        /\ \A i : Starts(z, tag, i) /\ i + Len(tag) <= Len(z) + 1 => n # 0 /\ n <= i
    BY IndexStarts
  <2>2. /\ m \in Nat
        /\ m # 0 => Starts(x, tag, m) /\ m + Len(tag) <= Len(x) + 1
        /\ \A i : Starts(x, tag, i) /\ i + Len(tag) <= Len(x) + 1 => m # 0 /\ m <= i
    BY <1>1, IndexStarts
  <2> HIDE DEF n, m
  <2>3. m # 0 => n # 0 /\ n <= m - Len(k)
    <3> SUFFICES ASSUME m # 0 PROVE n # 0 /\ n <= m - Len(k)
      OBVIOUS
    <3>1. Starts(z, tag, m - Len(k)) /\ (m - Len(k)) + Len(tag) <= Len(z) + 1
      BY <1>1, <1>3, <2>2
    <3> QED BY <2>1, <3>1
  <2>4. n # 0 => m # 0 /\ m <= Len(k) + n
    <3> SUFFICES ASSUME n # 0 PROVE m # 0 /\ m <= Len(k) + n
      OBVIOUS
    <3>1. n \in 1 .. Len(z)
      BY <2>1 DEF Starts
    <3>2. Starts(x, tag, Len(k) + n) /\ (Len(k) + n) + Len(tag) <= Len(x) + 1
      BY <1>1, <1>2, <2>1, <3>1
    <3> QED BY <2>2, <3>2
  <2>5. m = IF n = 0 THEN 0 ELSE Len(k) + n
    BY <1>1, <2>1, <2>2, <2>3, <2>4
  <2> QED BY <2>5 DEF n, m
<1>5. SuffixPrefixLength(x, tag) = SuffixPrefixLength(z, tag)
  <2> DEFINE n == SuffixPrefixLength(z, tag)
             m == SuffixPrefixLength(x, tag)
  <2>1. /\ n \in 0 .. Len(z) /\ n < Len(tag)
        /\ n # 0 => Starts(z, tag, Len(z) + 1 - n)
        /\ \A i : Starts(z, tag, i) /\ i + Len(tag) > Len(z) + 1 => Len(z) + 1 - i <= n
    BY KeptStarts
  <2>2. /\ m \in 0 .. Len(x) /\ m < Len(tag)
        /\ m # 0 => Starts(x, tag, Len(x) + 1 - m)
        /\ \A i : Starts(x, tag, i) /\ i + Len(tag) > Len(x) + 1 => Len(x) + 1 - i <= m
    BY <1>1, KeptStarts
  <2> HIDE DEF n, m
  <2>3. m # 0 => m <= n
    <3> SUFFICES ASSUME m # 0 PROVE m <= n
      OBVIOUS
    <3>1. (Len(x) + 1 - m) - Len(k) = Len(z) + 1 - m
      BY <1>1, <2>2
    <3>2. Starts(z, tag, Len(z) + 1 - m)
      BY <1>3, <2>2, <3>1
    <3>3. /\ (Len(z) + 1 - m) + Len(tag) > Len(z) + 1
          /\ Len(z) + 1 - (Len(z) + 1 - m) = m
      BY <1>1, <2>2
    <3> QED BY <2>1, <3>2, <3>3
  <2>4. n # 0 => n <= m
    <3> SUFFICES ASSUME n # 0 PROVE n <= m
      OBVIOUS
    <3>1. Len(z) + 1 - n \in 1 .. Len(z)
      BY <1>1, <2>1
    <3>2. Starts(x, tag, Len(k) + (Len(z) + 1 - n))
      BY <1>2, <2>1, <3>1
    <3>3. /\ (Len(k) + (Len(z) + 1 - n)) + Len(tag) > Len(x) + 1
          /\ Len(x) + 1 - (Len(k) + (Len(z) + 1 - n)) = n
      BY <1>1, <2>1
    <3> QED BY <2>2, <3>2, <3>3
  <2>5. m = n
    BY <1>1, <2>1, <2>2, <2>3, <2>4
  <2> QED BY <2>5 DEF n, m
<1>6. Clean(x, tag) = k \o Clean(z, tag) /\ Carry(x, tag) = Carry(z, tag)
  <2> DEFINE i == Len(z) + 1 - SuffixPrefixLength(z, tag)
  <2>1. SuffixPrefixLength(z, tag) \in 0 .. Len(z)
    BY KeptStarts
  <2>2. i \in 1 .. Len(z) + 1 /\ Len(x) + 1 - SuffixPrefixLength(x, tag) = Len(k) + i
    BY <1>1, <1>5, <2>1
  <2>3. Clean(z, tag) = Before(z, i) /\ Carry(z, tag) = From(z, i)
    BY DEF Clean, Carry
  <2>4. Clean(x, tag) = Before(x, Len(k) + i) /\ Carry(x, tag) = From(x, Len(k) + i)
    BY <2>2 DEF Clean, Carry
  <2> HIDE DEF i
  <2> QED BY <2>2, <2>3, <2>4, PartsOfSecond DEF x
<1> QED BY <1>4, <1>6 DEF x

\* So a text without a tag can be cut after what is let through of it.
LEMMA NoTagYet ==
    ASSUME NEW x \in Texts, NEW y \in Texts, NEW tag \in Tags, Index(x, tag) = 0
    PROVE  LET k == Clean(x, tag)
               z == Carry(x, tag) \o y
           IN  /\ k \in Texts /\ z \in Texts /\ x \o y = k \o z
               /\ Index(x \o y, tag) =
                     IF Index(z, tag) = 0 THEN 0 ELSE Len(k) + Index(z, tag)
               /\ Clean(x \o y, tag) = k \o Clean(z, tag)
               /\ Carry(x \o y, tag) = Carry(z, tag)
<1> DEFINE k == Clean(x, tag)
           c == Carry(x, tag)
           z == c \o y
<1>1. /\ k \in Texts /\ c \in Texts /\ x = k \o c /\ Len(k) \in Nat
      /\ Len(k) <= Len(x)
      /\ \A i \in 1 .. Len(k) : ~Starts(x, tag, i)
  <2>1. /\ k \in Texts /\ c \in Texts /\ x = k \o c
        /\ \A i \in 1 .. Len(k) : ~Starts(x, tag, i)
    BY CleanPart
  <2> HIDE DEF k, c
  <2>2. Len(k) \in Nat /\ Len(c) \in Nat /\ Len(x) = Len(k) + Len(c)
    BY <2>1, Joined
  <2> QED BY <2>1, <2>2
<1> HIDE DEF k, c
<1>2. z \in Texts
  BY <1>1, Joined
<1>3. x \o y = k \o z
  BY <1>1, ConcatAssociative DEF Texts
<1> HIDE DEF z
<1>4. \A i \in 1 .. Len(k) : ~Starts(k \o z, tag, i)
  <2> SUFFICES ASSUME NEW i \in 1 .. Len(k), Starts(x \o y, tag, i) PROVE FALSE
    BY <1>3
  <2>1. i <= Len(x)
    BY <1>1, LenProperties DEF Texts
  <2>2. Starts(x, tag, i)
    BY <2>1, StartsJoined
  <2> QED BY <1>1, <2>2
<1>5. /\ Index(k \o z, tag) = IF Index(z, tag) = 0 THEN 0 ELSE Len(k) + Index(z, tag)
      /\ Clean(k \o z, tag) = k \o Clean(z, tag)
      /\ Carry(k \o z, tag) = Carry(z, tag)
  BY <1>1, <1>2, <1>4, ShiftTag
<1> QED BY <1>1, <1>2, <1>3, <1>5 DEF k, c, z

-----------------------------------------------------------------------------
(* The loops of the parsers, for any function F that makes a step.         *)

AnyParser == Parsers(STRING, STRING)
AnyResult == Results(STRING, STRING)

\* A step over some text leaves less of it.
Moves == {F \in [AnyParser \X Texts -> AnyResult] :
             \A p \in AnyParser : \A x \in Texts :
                 x # <<>> => Len(F[<<p, x>>].rest) < Len(x)}

\* One turn of the loop, and where the loop ends that is at r.
Turn(F) == [r \in AnyResult |->
               IF r.rest = <<>> THEN r ELSE Then(r, F[<<r.p, r.rest>>])]

Ends(F, r, e) ==
    /\ e.rest = <<>>
    /\ \E N \in Nat : \E g : Run(g, N, AnyResult, r, Turn(F)) /\ g[N] = e

\* The loop over x, what it does with a longer text, and how it goes on with y
\* when it has ended.
Cleared(p)   == [p EXCEPT !.partial = <<>>]
Begin(p, x)  == Result(Cleared(p), <<>>, <<>>, p.partial \o x)
Longer(r, y) == Result(r.p, r.text, r.calls, r.rest \o y)
Resume(e, y) == Result(Cleared(e.p), e.text, e.calls, e.p.partial \o y)

\* The parts of a result.
LEMMA ResultParts ==
    ASSUME NEW r \in AnyResult
    PROVE  /\ r.p \in AnyParser /\ r.text \in Texts /\ r.rest \in Texts
           /\ r.calls \in Calls(STRING) /\ r.p.partial \in Texts
           /\ r.p.buffer \in Texts /\ r.p.inside \in BOOLEAN /\ r.p.next \in Nat
           /\ Cleared(r.p) \in AnyParser /\ Cleared(r.p).partial = <<>>
           /\ r.p.partial = <<>> => Cleared(r.p) = r.p
           /\ r = Result(r.p, r.text, r.calls, r.rest)
<1>1. /\ r.p \in AnyParser /\ r.text \in Texts /\ r.rest \in Texts
      /\ r.calls \in Calls(STRING) /\ r = Result(r.p, r.text, r.calls, r.rest)
  BY DEF AnyResult, Results, AnyParser, Texts, Result
<1>2. /\ r.p.partial \in Texts /\ r.p.buffer \in Texts /\ r.p.inside \in BOOLEAN
      /\ r.p.next \in Nat
      /\ Cleared(r.p) \in AnyParser /\ Cleared(r.p).partial = <<>>
      /\ r.p.partial = <<>> => Cleared(r.p) = r.p
  <2> DEFINE p == r.p
  <2>1. p \in Parsers(STRING, STRING)
    BY <1>1 DEF AnyParser
  <2> HIDE DEF p
  <2>2. /\ p.partial \in Texts /\ p.buffer \in Texts /\ p.inside \in BOOLEAN
        /\ p.next \in Nat
    BY <2>1 DEF Parsers, Texts
  <2>3. <<>> \in Seq(STRING)
    OBVIOUS
  <2>4. Cleared(p) \in AnyParser
    BY <2>1, <2>3 DEF Cleared, Parsers, AnyParser
  <2>5. Cleared(p).partial = <<>>
    BY <2>1 DEF Cleared, Parsers
  <2>6. p.partial = <<>> => Cleared(p) = p
    BY <2>1 DEF Cleared, Parsers
  <2> QED BY <2>2, <2>4, <2>5, <2>6 DEF p
<1> QED BY <1>1, <1>2

\* Texts can be put together in any order, and so can calls.
LEMMA JoinLaws ==
    /\ \A x, y, z \in Texts : (x \o y) \o z = x \o (y \o z)
    /\ \A x, y, z \in Calls(STRING) : (x \o y) \o z = x \o (y \o z)
    /\ \A x \in Texts : x \o <<>> = x /\ <<>> \o x = x
    /\ \A x \in Calls(STRING) : x \o <<>> = x /\ <<>> \o x = x
    /\ \A x, y \in Texts : x \o y = <<>> <=> x = <<>> /\ y = <<>>
<1>1. \A x, y, z \in Texts : (x \o y) \o z = x \o (y \o z)
  BY ConcatAssociative DEF Texts
<1>2. /\ \A x, y, z \in Calls(STRING) : (x \o y) \o z = x \o (y \o z)
      /\ \A x \in Calls(STRING) : x \o <<>> = x /\ <<>> \o x = x
  <2> DEFINE K == [payload : Seq(STRING), index : Nat]
  <2>1. Calls(STRING) = Seq(K)
    BY DEF Calls
  <2> HIDE DEF K
  <2>2. \A x, y, z \in Seq(K) : (x \o y) \o z = x \o (y \o z)
    BY ConcatAssociative
  <2>3. \A x \in Seq(K) : x \o <<>> = x /\ <<>> \o x = x
    BY ConcatEmptySeq
  <2> QED BY <2>1, <2>2, <2>3
<1>3. \A x \in Texts : x \o <<>> = x /\ <<>> \o x = x
  BY ConcatEmptySeq DEF Texts
<1>4. \A x, y \in Texts : x \o y = <<>> <=> x = <<>> /\ y = <<>>
  BY ConcatEqualIffEmpty DEF Texts
<1> QED BY <1>1, <1>2, <1>3, <1>4

\* Steps add up, in any order of adding.
LEMMA ThenFacts ==
    ASSUME NEW r \in AnyResult, NEW a \in AnyResult, NEW b \in AnyResult
    PROVE  /\ Then(r, a) \in AnyResult
           /\ Then(r, a).p = a.p /\ Then(r, a).rest = a.rest
           /\ Then(Then(r, a), b) = Then(r, Then(a, b))
<1>1. Then(r, a) \in AnyResult
  BY ThenType DEF AnyResult
<1>2. Then(r, a).p = a.p /\ Then(r, a).rest = a.rest
  BY DEF Then, Result
<1>3. /\ r.text \in Texts /\ a.text \in Texts /\ b.text \in Texts
      /\ r.calls \in Calls(STRING) /\ a.calls \in Calls(STRING)
      /\ b.calls \in Calls(STRING)
  BY ResultParts
<1>4. /\ (r.text \o a.text) \o b.text = r.text \o (a.text \o b.text)
      /\ (r.calls \o a.calls) \o b.calls = r.calls \o (a.calls \o b.calls)
  <2>1. ASSUME NEW x \in Texts, NEW y \in Texts, NEW z \in Texts
        PROVE  (x \o y) \o z = x \o (y \o z)
    BY JoinLaws
  <2>2. ASSUME NEW x \in Calls(STRING), NEW y \in Calls(STRING),
               NEW z \in Calls(STRING)
        PROVE  (x \o y) \o z = x \o (y \o z)
    BY JoinLaws
  <2>3. (r.text \o a.text) \o b.text = r.text \o (a.text \o b.text)
    BY <1>3, <2>1, Zenon
  <2>4. (r.calls \o a.calls) \o b.calls = r.calls \o (a.calls \o b.calls)
    BY <1>3, <2>2, Zenon
  <2> QED BY <2>3, <2>4
<1> QED BY <1>1, <1>2, <1>4 DEF Then, Result

\* Types of these.
LEMMA LoopTypes ==
    /\ \A p \in AnyParser : \A x \in Texts : Begin(p, x) \in AnyResult
    /\ \A r \in AnyResult : \A y \in Texts :
          Longer(r, y) \in AnyResult /\ Resume(r, y) \in AnyResult
<1>1. ASSUME NEW p \in AnyParser, NEW x \in Texts PROVE Begin(p, x) \in AnyResult
  <2>1. Cleared(p) \in AnyParser /\ p.partial \in Texts
    <3>1. p \in Parsers(STRING, STRING) /\ <<>> \in Seq(STRING)
      BY DEF AnyParser
    <3> QED BY <3>1 DEF AnyParser, Parsers, Cleared, Texts
  <2>2. p.partial \o x \in Texts /\ <<>> \in Texts /\ <<>> \in Calls(STRING)
    BY <2>1, Joined DEF Texts, Calls
  <2> QED BY <2>1, <2>2 DEF Begin, Result, AnyResult, Results, AnyParser, Texts
<1>2. ASSUME NEW r \in AnyResult, NEW y \in Texts
      PROVE  Longer(r, y) \in AnyResult /\ Resume(r, y) \in AnyResult
  <2>1. /\ r.p \in AnyParser /\ r.text \in Texts /\ r.calls \in Calls(STRING)
        /\ Cleared(r.p) \in AnyParser
        /\ r.rest \o y \in Texts /\ r.p.partial \o y \in Texts
    BY ResultParts, Joined
  <2> QED BY <2>1 DEF Longer, Resume, Result, AnyResult, Results, AnyParser, Texts
<1> QED BY <1>1, <1>2

\* A turn gives a result.
LEMMA TurnType ==
    ASSUME NEW F \in Moves
    PROVE  /\ Turn(F) \in Steps(AnyResult)
           /\ \A r \in AnyResult :
                 /\ Turn(F)[r] \in AnyResult
                 /\ r.rest = <<>> => Turn(F)[r] = r
                 /\ r.rest # <<>> => /\ F[<<r.p, r.rest>>] \in AnyResult
                                     /\ Turn(F)[r] = Then(r, F[<<r.p, r.rest>>])
                                     /\ Len(Turn(F)[r].rest) < Len(r.rest)
<1>1. ASSUME NEW r \in AnyResult
      PROVE  /\ F[<<r.p, r.rest>>] \in AnyResult
             /\ r.rest # <<>> => Len(F[<<r.p, r.rest>>].rest) < Len(r.rest)
  <2>1. r.p \in AnyParser /\ r.rest \in Texts
    BY ResultParts
  <2> QED BY <2>1 DEF Moves
<1>2. ASSUME NEW r \in AnyResult
      PROVE  /\ Turn(F)[r] = IF r.rest = <<>> THEN r ELSE Then(r, F[<<r.p, r.rest>>])
             /\ Then(r, F[<<r.p, r.rest>>]) \in AnyResult
             /\ Then(r, F[<<r.p, r.rest>>]).rest = F[<<r.p, r.rest>>].rest
  BY <1>1, ThenFacts DEF Turn
<1>3. Turn(F) \in [AnyResult -> AnyResult]
  BY <1>2 DEF Turn
<1> QED BY <1>1, <1>2, <1>3 DEF Steps

\* A loop with nothing to read ends where it is.
LEMMA EndsHere ==
    ASSUME NEW F \in Moves, NEW r \in AnyResult, r.rest = <<>>, NEW e
    PROVE  Ends(F, r, e) <=> e = r
<1>1. ASSUME Ends(F, r, e) PROVE e = r
  <2>0. PICK N \in Nat : \E g : Run(g, N, AnyResult, r, Turn(F)) /\ g[N] = e
    BY <1>1 DEF Ends
  <2>1. PICK g : Run(g, N, AnyResult, r, Turn(F)) /\ g[N] = e
    BY <2>0
  <2>2. g[0] = r /\ \A n \in 1 .. N : g[n - 1] \in {r} => g[n] \in {r}
    <3>1. Turn(F)[r] = r
      BY TurnType
    <3> QED BY <2>1, <3>1 DEF Run
  <2>3. \A n \in 0 .. N : g[n] \in {r}
    <3> DEFINE S == {r}
    <3>1. g[0] \in S /\ \A n \in 1 .. N : g[n - 1] \in S => g[n] \in S
      BY <2>2
    <3> HIDE DEF S
    <3>2. \A n \in 0 .. N : g[n] \in S
      BY <3>1, Loop
    <3> QED BY <3>2 DEF S
  <2> QED BY <2>1, <2>3
<1>2. Ends(F, r, r)
  <2> DEFINE g == [n \in 0 .. 0 |-> r]
  <2>1. Run(g, 0, AnyResult, r, Turn(F)) /\ g[0] = r
    BY DEF Run
  <2> HIDE DEF g
  <2> QED BY <2>1 DEF Ends
<1> QED BY <1>1, <1>2

\* A loop with something to read ends where it does after one turn.
LEMMA EndsNext ==
    ASSUME NEW F \in Moves, NEW r \in AnyResult, r.rest # <<>>, NEW e
    PROVE  Ends(F, r, e) <=> Ends(F, Turn(F)[r], e)
<1>1. ASSUME Ends(F, r, e) PROVE Ends(F, Turn(F)[r], e)
  <2>0. PICK N \in Nat : \E g : Run(g, N, AnyResult, r, Turn(F)) /\ g[N] = e
    BY <1>1 DEF Ends
  <2>1. PICK g : Run(g, N, AnyResult, r, Turn(F)) /\ g[N] = e
    BY <2>0
  <2>2. /\ g \in [0 .. N -> AnyResult] /\ g[0] = r /\ e.rest = <<>>
        /\ \A n \in 1 .. N : g[n] = Turn(F)[g[n - 1]]
    BY <1>1, <2>1 DEF Run, Ends
  <2>3. N # 0
    BY <2>1, <2>2
  <2> DEFINE h == [n \in 0 .. N - 1 |-> g[n + 1]]
  <2>4. /\ h \in [0 .. N - 1 -> AnyResult] /\ h[0] = Turn(F)[r] /\ h[N - 1] = e
        /\ \A n \in 1 .. N - 1 : h[n] = Turn(F)[h[n - 1]]
    <3>1. \A n \in 0 .. N - 1 : n + 1 \in 1 .. N /\ n + 1 \in 0 .. N
      OBVIOUS
    <3>2. h \in [0 .. N - 1 -> AnyResult] /\ \A n \in 0 .. N - 1 : h[n] = g[n + 1]
      BY <2>2, <3>1
    <3> HIDE DEF h
    <3>3. h[0] = Turn(F)[r]
      <4>1. 0 \in 0 .. N - 1 /\ 1 \in 1 .. N
        BY <2>3
      <4> QED BY <2>2, <3>2, <4>1
    <3>4. h[N - 1] = e
      <4>1. N - 1 \in 0 .. N - 1 /\ (N - 1) + 1 = N
        BY <2>3
      <4> QED BY <2>1, <3>2, <4>1
    <3>5. ASSUME NEW n \in 1 .. N - 1 PROVE h[n] = Turn(F)[h[n - 1]]
      <4>1. n \in 0 .. N - 1 /\ n - 1 \in 0 .. N - 1 /\ n + 1 \in 1 .. N
            /\ (n - 1) + 1 = n /\ (n + 1) - 1 = n
        OBVIOUS
      <4> QED BY <2>2, <3>2, <4>1
    <3> QED BY <3>2, <3>3, <3>4, <3>5
  <2> HIDE DEF h
  <2>5. N - 1 \in Nat
    BY <2>3
  <2> QED BY <2>2, <2>4, <2>5 DEF Ends, Run
<1>2. ASSUME Ends(F, Turn(F)[r], e) PROVE Ends(F, r, e)
  <2>0. PICK N \in Nat : \E g : Run(g, N, AnyResult, Turn(F)[r], Turn(F)) /\ g[N] = e
    BY <1>2 DEF Ends
  <2>1. PICK g : Run(g, N, AnyResult, Turn(F)[r], Turn(F)) /\ g[N] = e
    BY <2>0
  <2>2. /\ g \in [0 .. N -> AnyResult] /\ g[0] = Turn(F)[r] /\ e.rest = <<>>
        /\ \A n \in 1 .. N : g[n] = Turn(F)[g[n - 1]]
    BY <1>2, <2>1 DEF Run, Ends
  <2> DEFINE h == [n \in 0 .. N + 1 |-> IF n = 0 THEN r ELSE g[n - 1]]
  <2>3. /\ h \in [0 .. N + 1 -> AnyResult] /\ h[0] = r /\ h[N + 1] = e
        /\ \A n \in 1 .. N + 1 : h[n] = Turn(F)[h[n - 1]]
    <3>1. \A n \in 1 .. N + 1 : n - 1 \in 0 .. N /\ (n # 1 => n - 1 \in 1 .. N)
      OBVIOUS
    <3>2. h \in [0 .. N + 1 -> AnyResult] /\ h[0] = r
          /\ \A n \in 1 .. N + 1 : h[n] = g[n - 1]
      BY <2>2, <3>1
    <3> HIDE DEF h
    <3>3. h[N + 1] = e
      <4>1. N + 1 \in 1 .. N + 1 /\ (N + 1) - 1 = N
        OBVIOUS
      <4> QED BY <2>1, <3>2, <4>1
    <3>4. ASSUME NEW n \in 1 .. N + 1 PROVE h[n] = Turn(F)[h[n - 1]]
      <4>1. CASE n = 1
        BY <2>2, <3>2, <4>1
      <4>2. CASE n # 1
        <5>1. n - 1 \in 1 .. N /\ n - 1 \in 1 .. N + 1
          BY <4>2
        <5> QED BY <2>2, <3>2, <5>1
      <4> QED BY <4>1, <4>2
    <3> QED BY <3>2, <3>3, <3>4
  <2> HIDE DEF h
  <2>4. N + 1 \in Nat
    OBVIOUS
  <2> QED BY <2>2, <2>3, <2>4 DEF Ends, Run
<1> QED BY <1>1, <1>2

\* A loop has one end.
LEMMA OneEnd ==
    ASSUME NEW F \in Moves
    PROVE  \A r \in AnyResult : \A e, d : Ends(F, r, e) /\ Ends(F, r, d) => e = d
<1> DEFINE One(r) == \A e, d : Ends(F, r, e) /\ Ends(F, r, d) => e = d
           T == {n \in Nat : \A r \in AnyResult : Len(r.rest) <= n => One(r)}
<1>1. \A r \in AnyResult : /\ Len(r.rest) \in Nat
                           /\ Len(r.rest) = 0 <=> r.rest = <<>>
  <2> SUFFICES ASSUME NEW r \in AnyResult
               PROVE  Len(r.rest) \in Nat /\ (Len(r.rest) = 0 <=> r.rest = <<>>)
    OBVIOUS
  <2>1. r.rest \in Seq(STRING)
    BY ResultParts DEF Texts
  <2> QED BY <2>1, EmptySeq, LenProperties
<1>2. ASSUME NEW r \in AnyResult, r.rest = <<>> PROVE One(r)
  <2>1. \A e : Ends(F, r, e) <=> e = r
    BY <1>2, EndsHere
  <2> QED BY <2>1
<1>3. ASSUME NEW r \in AnyResult, r.rest # <<>>, One(Turn(F)[r]) PROVE One(r)
  <2>1. \A e : Ends(F, r, e) <=> Ends(F, Turn(F)[r], e)
    BY <1>3, EndsNext
  <2> QED BY <1>3, <2>1
<1> HIDE DEF One
<1>4. 0 \in T
  BY <1>1, <1>2
<1>5. ASSUME NEW n \in Nat, n \in T PROVE n + 1 \in T
  <2> SUFFICES ASSUME NEW r \in AnyResult, Len(r.rest) <= n + 1, r.rest # <<>>
               PROVE  One(r)
    BY <1>2
  <2>1. Turn(F)[r] \in AnyResult /\ Len(Turn(F)[r].rest) < Len(r.rest)
    BY TurnType
  <2>2. Len(Turn(F)[r].rest) <= n
    BY <1>1, <2>1
  <2>3. One(Turn(F)[r])
    BY <1>5, <2>1, <2>2
  <2> QED BY <1>3, <2>3
<1>6. \A n \in Nat : n \in T
  <2> HIDE DEF T
  <2> QED BY <1>4, <1>5, Induction
<1>7. ASSUME NEW r \in AnyResult PROVE One(r)
  <2>1. Len(r.rest) \in T
    BY <1>1, <1>6
  <2> QED BY <1>1, <2>1
<1> QED BY <1>7 DEF One

\* What was let through before a loop is in front of what it lets through.
LEMMA Prefixed ==
    ASSUME NEW F \in Moves, NEW b \in AnyResult
    PROVE  \A r \in AnyResult : \A e \in AnyResult :
              Ends(F, r, e) => Ends(F, Then(b, r), Then(b, e))
<1> DEFINE Good(r) == \A e \in AnyResult :
                         Ends(F, r, e) => Ends(F, Then(b, r), Then(b, e))
           T == {n \in Nat : \A r \in AnyResult : Len(r.rest) <= n => Good(r)}
<1>1. \A r \in AnyResult : /\ Len(r.rest) \in Nat
                           /\ Len(r.rest) = 0 <=> r.rest = <<>>
  <2> SUFFICES ASSUME NEW r \in AnyResult
               PROVE  Len(r.rest) \in Nat /\ (Len(r.rest) = 0 <=> r.rest = <<>>)
    OBVIOUS
  <2>1. r.rest \in Seq(STRING)
    BY ResultParts DEF Texts
  <2> QED BY <2>1, EmptySeq, LenProperties
<1>2. ASSUME NEW r \in AnyResult, r.rest = <<>> PROVE Good(r)
  <2> SUFFICES ASSUME NEW e \in AnyResult, Ends(F, r, e)
               PROVE  Ends(F, Then(b, r), Then(b, e))
    OBVIOUS
  <2>1. e = r
    BY <1>2, EndsHere
  <2>2. Then(b, r) \in AnyResult /\ Then(b, r).rest = <<>>
    BY <1>2, ThenFacts
  <2> QED BY <2>1, <2>2, EndsHere
<1>3. ASSUME NEW r \in AnyResult, r.rest # <<>>, Good(Turn(F)[r]) PROVE Good(r)
  <2> SUFFICES ASSUME NEW e \in AnyResult, Ends(F, r, e)
               PROVE  Ends(F, Then(b, r), Then(b, e))
    OBVIOUS
  <2> DEFINE a == F[<<r.p, r.rest>>]
  <2>1. /\ a \in AnyResult /\ Turn(F)[r] \in AnyResult
        /\ Turn(F)[r] = Then(r, a)
    BY <1>3, TurnType
  <2>2. /\ Then(b, r) \in AnyResult /\ Then(b, r).p = r.p
        /\ Then(b, r).rest = r.rest
    BY ThenFacts
  <2>3. Turn(F)[Then(b, r)] = Then(Then(b, r), a)
    BY <1>3, <2>2, TurnType
  <2> HIDE DEF a
  <2>4. Turn(F)[Then(b, r)] = Then(b, Turn(F)[r])
    BY <2>1, <2>3, ThenFacts
  <2>5. Ends(F, Turn(F)[r], e)
    BY <1>3, EndsNext
  <2>6. Ends(F, Turn(F)[Then(b, r)], Then(b, e))
    BY <1>3, <2>4, <2>5
  <2> QED BY <1>3, <2>2, <2>6, EndsNext
<1> HIDE DEF Good
<1>4. 0 \in T
  BY <1>1, <1>2
<1>5. ASSUME NEW n \in Nat, n \in T PROVE n + 1 \in T
  <2> SUFFICES ASSUME NEW r \in AnyResult, Len(r.rest) <= n + 1, r.rest # <<>>
               PROVE  Good(r)
    BY <1>2
  <2>1. Turn(F)[r] \in AnyResult /\ Len(Turn(F)[r].rest) < Len(r.rest)
    BY TurnType
  <2>2. Len(Turn(F)[r].rest) <= n
    BY <1>1, <2>1
  <2>3. Good(Turn(F)[r])
    BY <1>5, <2>1, <2>2
  <2> QED BY <1>3, <2>3
<1>6. \A n \in Nat : n \in T
  <2> HIDE DEF T
  <2> QED BY <1>4, <1>5, Induction
<1>7. ASSUME NEW r \in AnyResult PROVE Good(r)
  <2>1. Len(r.rest) \in T
    BY <1>1, <1>6
  <2> QED BY <1>1, <2>1
<1> QED BY <1>7 DEF Good

\* What a step does with a longer text: the same, and leaves the longer rest; or
\* what it did with the text, and then what the next step does.
Found(F, p, x, y) ==
    LET a == F[<<p, x>>]
    IN  a.p.partial = <<>> /\ F[<<p, x \o y>>] = Longer(a, y)

Unfound(F, p, x, y) ==
    LET a == F[<<p, x>>]
    IN  /\ a.rest = <<>>
        /\ F[<<p, x \o y>>] = Then(a, F[<<Cleared(a.p), a.p.partial \o y>>])

\* A step that does one or the other with every text.
Local(F) ==
    \A p \in AnyParser : \A x, y \in Texts :
        p.partial = <<>> /\ x # <<>> /\ y # <<>> =>
            Found(F, p, x, y) \/ Unfound(F, p, x, y)

\* Then the loop over the longer text ends where the loop that goes on does.
LEMMA LongerTurn ==
    ASSUME NEW F \in Moves, NEW r \in AnyResult, r.rest # <<>>,
           NEW y \in Texts, y # <<>>, NEW e
    PROVE  /\ Found(F, r.p, r.rest, y) =>
                 (Ends(F, Longer(r, y), e) <=> Ends(F, Longer(Turn(F)[r], y), e))
           /\ Unfound(F, r.p, r.rest, y) =>
                 (Ends(F, Longer(r, y), e) <=> Ends(F, Resume(Turn(F)[r], y), e))
<1> DEFINE a == F[<<r.p, r.rest>>]
           b == F[<<r.p, r.rest \o y>>]
           t == Turn(F)[r]
           l == Longer(r, y)
<1>1. /\ a \in AnyResult /\ t \in AnyResult /\ t = Then(r, a)
  BY TurnType
<1>2. /\ l \in AnyResult /\ l.p = r.p /\ l.rest = r.rest \o y
      /\ l.text = r.text /\ l.calls = r.calls
  BY LoopTypes DEF Longer, Result
<1>3. \A z \in Texts : z \o y \in Texts /\ z \o y # <<>>
  <2> SUFFICES ASSUME NEW z \in Texts PROVE z \o y \in Texts /\ z \o y # <<>>
    OBVIOUS
  <2>1. z \o y \in Texts
    BY Joined
  <2> QED BY <2>1, JoinLaws
<1>4. r.rest \in Texts
  BY ResultParts
<1>5. /\ b \in AnyResult /\ Turn(F)[l] = Then(l, b)
      /\ Ends(F, l, e) <=> Ends(F, Then(l, b), e)
  <2>1. l.rest # <<>>
    BY <1>2, <1>3, <1>4
  <2>2. F[<<l.p, l.rest>>] = b
    BY <1>2
  <2> HIDE DEF b, l
  <2>3. b \in AnyResult /\ Turn(F)[l] = Then(l, b)
    BY <1>2, <2>1, <2>2, TurnType
  <2> QED BY <1>2, <2>1, <2>3, EndsNext
<1>6. ASSUME Found(F, r.p, r.rest, y)
      PROVE  Ends(F, l, e) <=> Ends(F, Longer(t, y), e)
  <2>1. b = Longer(a, y)
    BY <1>6 DEF Found
  <2>2. Then(l, Longer(a, y)) = Longer(Then(r, a), y)
    BY <1>2 DEF Then, Longer, Result
  <2> QED
    <3> HIDE DEF a, b, l, t
    <3> QED BY <1>1, <1>5, <2>1, <2>2
<1>7. ASSUME Unfound(F, r.p, r.rest, y)
      PROVE  Ends(F, l, e) <=> Ends(F, Resume(t, y), e)
  <2> DEFINE m == Resume(t, y)
             c == F[<<Cleared(a.p), a.p.partial \o y>>]
  <2>1. b = Then(a, c)
    BY <1>7 DEF Unfound
  <2> HIDE DEF a, t
  <2>2. /\ m \in AnyResult /\ m.p = Cleared(a.p) /\ m.rest = a.p.partial \o y
        /\ m.text = r.text \o a.text /\ m.calls = r.calls \o a.calls
    BY <1>1, LoopTypes DEF Resume, Then, Result
  <2>3. a.p.partial \in Texts
    BY <1>1, ResultParts
  <2>4. m.rest # <<>>
    BY <1>3, <2>2, <2>3
  <2>5. F[<<m.p, m.rest>>] = c
    BY <2>2
  <2> HIDE DEF m, c, b, l
  <2>6. c \in AnyResult /\ Turn(F)[m] = Then(m, c)
    BY <2>2, <2>4, <2>5, TurnType
  <2>7. Then(l, Then(a, c)) = Then(Then(l, a), c)
    BY <1>1, <1>2, <2>6, ThenFacts
  <2>8. Then(Then(l, a), c) = Then(m, c)
    BY <1>2, <2>2 DEF Then, Result
  <2>9. Ends(F, m, e) <=> Ends(F, Then(m, c), e)
    BY <2>2, <2>4, <2>6, EndsNext
  <2> QED BY <1>5, <2>1, <2>7, <2>8, <2>9 DEF m
<1> QED BY <1>6, <1>7

\* So a loop over a text goes on from where the loop over its beginning ended.
LEMMA Split ==
    ASSUME NEW F \in Moves, Local(F), NEW y \in Texts, y # <<>>
    PROVE  \A r \in AnyResult : \A e, d \in AnyResult :
              r.p.partial = <<>> /\ Ends(F, r, e) /\ Ends(F, Longer(r, y), d) =>
                 Ends(F, Resume(e, y), d)
<1> DEFINE Good(r) == \A e, d \in AnyResult :
                         r.p.partial = <<>> /\ Ends(F, r, e) /\ Ends(F, Longer(r, y), d) =>
                            Ends(F, Resume(e, y), d)
           T == {n \in Nat : \A r \in AnyResult : Len(r.rest) <= n => Good(r)}
<1>1. \A r \in AnyResult : /\ Len(r.rest) \in Nat
                           /\ Len(r.rest) = 0 <=> r.rest = <<>>
  <2> SUFFICES ASSUME NEW r \in AnyResult
               PROVE  Len(r.rest) \in Nat /\ (Len(r.rest) = 0 <=> r.rest = <<>>)
    OBVIOUS
  <2>1. r.rest \in Seq(STRING)
    BY ResultParts DEF Texts
  <2> QED BY <2>1, EmptySeq, LenProperties
<1>2. ASSUME NEW r \in AnyResult, r.rest = <<>> PROVE Good(r)
  <2> SUFFICES ASSUME NEW e \in AnyResult, NEW d \in AnyResult, r.p.partial = <<>>,
                      Ends(F, r, e), Ends(F, Longer(r, y), d)
               PROVE  Ends(F, Resume(e, y), d)
    OBVIOUS
  <2>1. e = r
    BY <1>2, EndsHere
  <2>2. Cleared(r.p) = r.p
    BY ResultParts
  <2>3. Resume(r, y) = Longer(r, y)
    BY <1>2, <2>2 DEF Resume, Longer
  <2> QED BY <2>1, <2>3
<1>3. ASSUME NEW r \in AnyResult, r.rest # <<>>, Good(Turn(F)[r]) PROVE Good(r)
  <2> SUFFICES ASSUME NEW e \in AnyResult, NEW d \in AnyResult, r.p.partial = <<>>,
                      Ends(F, r, e), Ends(F, Longer(r, y), d)
               PROVE  Ends(F, Resume(e, y), d)
    OBVIOUS
  <2> DEFINE a == F[<<r.p, r.rest>>]
             t == Turn(F)[r]
  <2>1. /\ a \in AnyResult /\ t \in AnyResult /\ t = Then(r, a)
    BY <1>3, TurnType
  <2>2. Ends(F, t, e)
    BY <1>3, EndsNext
  <2>3. CASE Found(F, r.p, r.rest, y)
    <3>1. a.p.partial = <<>>
      BY <2>3 DEF Found
    <3>2. Ends(F, Longer(t, y), d)
      BY <1>3, <2>3, LongerTurn
    <3> HIDE DEF a, t
    <3>3. t.p.partial = <<>>
      BY <2>1, <3>1, ThenFacts
    <3> QED BY <1>3, <2>1, <2>2, <3>2, <3>3 DEF t
  <2>4. CASE Unfound(F, r.p, r.rest, y)
    <3>1. a.rest = <<>>
      BY <2>4 DEF Unfound
    <3>2. Ends(F, Resume(t, y), d)
      BY <1>3, <2>4, LongerTurn
    <3> HIDE DEF a, t
    <3>3. t.rest = <<>>
      BY <2>1, <3>1, ThenFacts
    <3>4. e = t
      BY <2>1, <2>2, <3>3, EndsHere
    <3> QED BY <3>2, <3>4
  <2>5. r.p \in AnyParser /\ r.rest \in Texts
    BY ResultParts
  <2> QED BY <1>3, <2>3, <2>4, <2>5 DEF Local
<1> HIDE DEF Good
<1>4. 0 \in T
  BY <1>1, <1>2
<1>5. ASSUME NEW n \in Nat, n \in T PROVE n + 1 \in T
  <2> SUFFICES ASSUME NEW r \in AnyResult, Len(r.rest) <= n + 1, r.rest # <<>>
               PROVE  Good(r)
    BY <1>2
  <2>1. Turn(F)[r] \in AnyResult /\ Len(Turn(F)[r].rest) < Len(r.rest)
    BY TurnType
  <2>2. Len(Turn(F)[r].rest) <= n
    BY <1>1, <2>1
  <2>3. Good(Turn(F)[r])
    BY <1>5, <2>1, <2>2
  <2> QED BY <1>3, <2>3
<1>6. \A n \in Nat : n \in T
  <2> HIDE DEF T
  <2> QED BY <1>4, <1>5, Induction
<1>7. ASSUME NEW r \in AnyResult PROVE Good(r)
  <2>1. Len(r.rest) \in T
    BY <1>1, <1>6
  <2> QED BY <1>1, <2>1
<1> QED BY <1>7 DEF Good

\* What Consume gives for a chunk.
Consumed(F, p, x, e) ==
    IF x = <<>> THEN e = Result(p, <<>>, <<>>, <<>>) ELSE Ends(F, Begin(p, x), e)

\* It gives one thing.
LEMMA ConsumedOnce ==
    ASSUME NEW F \in Moves, NEW p \in AnyParser, NEW x \in Texts,
           NEW e, NEW d, Consumed(F, p, x, e), Consumed(F, p, x, d)
    PROVE  e = d
<1>1. Begin(p, x) \in AnyResult
  BY LoopTypes
<1> QED BY <1>1, OneEnd DEF Consumed

\* A loop that goes on ends with what a new chunk gives.
LEMMA Resumed ==
    ASSUME NEW F \in Moves, NEW a \in AnyResult, NEW b \in AnyResult, NEW d \in AnyResult,
           NEW y \in Texts, y # <<>>, Consumed(F, a.p, y, b), Ends(F, Resume(a, y), d)
    PROVE  d = Then(a, b)
<1>1. /\ a.p \in AnyParser /\ a.text \in Texts /\ a.calls \in Calls(STRING)
  BY ResultParts
<1>2. Ends(F, Begin(a.p, y), b) /\ Begin(a.p, y) \in AnyResult
  BY <1>1, LoopTypes DEF Consumed
<1>3. Resume(a, y) = Then(a, Begin(a.p, y))
  <2>1. a.text \o <<>> = a.text /\ a.calls \o <<>> = a.calls
    BY <1>1, JoinLaws
  <2>2. Then(a, Begin(a.p, y)) =
           Result(Cleared(a.p), a.text \o <<>>, a.calls \o <<>>, a.p.partial \o y)
    BY DEF Then, Begin, Result
  <2> QED BY <2>1, <2>2 DEF Resume
<1>4. Ends(F, Resume(a, y), Then(a, b))
  BY <1>2, <1>3, Prefixed
<1>5. Resume(a, y) \in AnyResult
  BY LoopTypes
<1> QED BY <1>4, <1>5, OneEnd

\* And the same for two chunks as for both together.
LEMMA ConsumedSplit ==
    ASSUME NEW F \in Moves, Local(F), NEW p \in AnyParser,
           NEW x \in Texts, NEW y \in Texts,
           NEW a \in AnyResult, NEW b \in AnyResult, NEW d \in AnyResult,
           Consumed(F, p, x, a), Consumed(F, a.p, y, b), Consumed(F, p, x \o y, d)
    PROVE  d = Then(a, b)
<1>1. /\ a.p \in AnyParser /\ a.text \in Texts /\ a.calls \in Calls(STRING)
      /\ b.text \in Texts /\ b.calls \in Calls(STRING)
      /\ a = Result(a.p, a.text, a.calls, a.rest)
      /\ b = Result(b.p, b.text, b.calls, b.rest)
  BY ResultParts
<1>2. CASE y = <<>>
  <2>1. x \o y = x
    BY <1>2, JoinLaws
  <2>2. d = a
    BY <2>1, ConsumedOnce
  <2>3. a.rest = <<>>
    BY DEF Consumed, Ends, Result
  <2>4. b = Result(a.p, <<>>, <<>>, <<>>)
    BY <1>2 DEF Consumed
  <2>5. a.text \o <<>> = a.text /\ a.calls \o <<>> = a.calls
    BY <1>1, JoinLaws
  <2>6. Then(a, b) = Result(a.p, a.text \o <<>>, a.calls \o <<>>, <<>>)
    BY <2>4 DEF Then, Result
  <2> QED BY <1>1, <2>2, <2>3, <2>5, <2>6
<1>3. CASE x = <<>>
  <2>1. x \o y = y
    BY <1>3, JoinLaws
  <2>2. a = Result(p, <<>>, <<>>, <<>>) /\ a.p = p
    BY <1>3 DEF Consumed, Result
  <2>3. d = b
    BY <2>1, <2>2, ConsumedOnce
  <2>4. <<>> \o b.text = b.text /\ <<>> \o b.calls = b.calls
    BY <1>1, JoinLaws
  <2>5. Then(a, b) = Result(b.p, <<>> \o b.text, <<>> \o b.calls, b.rest)
    BY <2>2 DEF Then, Result
  <2> QED BY <1>1, <2>3, <2>4, <2>5
<1>4. CASE x # <<>> /\ y # <<>>
  <2>1. x \o y \in Texts /\ x \o y # <<>>
    BY <1>4, Joined, JoinLaws
  <2>2. Ends(F, Begin(p, x), a) /\ Ends(F, Begin(p, x \o y), d)
    BY <1>4, <2>1 DEF Consumed
  <2>3. p.partial \in Texts /\ Cleared(p).partial = <<>>
    <3>1. Result(p, <<>>, <<>>, <<>>) \in AnyResult
      BY DEF Result, AnyResult, Results, AnyParser, Calls
    <3>2. Result(p, <<>>, <<>>, <<>>).p = p
      BY DEF Result
    <3> QED BY <3>1, <3>2, ResultParts
  <2>4. Begin(p, x) \in AnyResult /\ Begin(p, x).p.partial = <<>>
    BY <2>3, LoopTypes DEF Begin, Result
  <2>5. Longer(Begin(p, x), y) = Begin(p, x \o y)
    <3>1. ASSUME NEW u \in Texts, NEW v \in Texts, NEW w \in Texts
          PROVE  (u \o v) \o w = u \o (v \o w)
      BY ConcatAssociative DEF Texts
    <3>2. (p.partial \o x) \o y = p.partial \o (x \o y)
      BY <2>3, <3>1, Zenon
    <3> QED BY <3>2 DEF Longer, Begin, Result
  <2>6. Ends(F, Resume(a, y), d)
    BY <1>4, <2>2, <2>4, <2>5, Split
  <2> QED BY <1>4, <2>6, Resumed
<1> QED BY <1>2, <1>3, <1>4

\* A run of as many turns as there are symbols, and one more, comes to an end.
LEMMA RunEnds ==
    ASSUME NEW F \in Moves, NEW r \in AnyResult, NEW N \in Nat, N = Len(r.rest) + 1,
           NEW g, Run(g, N, AnyResult, r, Turn(F))
    PROVE  g[N] \in AnyResult /\ Ends(F, r, g[N])
<1> DEFINE left(n) == Len(g[n].rest)
           T == {n \in 0 .. N : g[n].rest = <<>> \/ left(n) + n < N}
<1>1. /\ \A n \in 0 .. N : g[n] \in AnyResult
      /\ g[0] = r /\ \A n \in 1 .. N : g[n] = Turn(F)[g[n - 1]]
  BY DEF Run
<1>2. ASSUME NEW q \in AnyResult PROVE Len(q.rest) \in Nat
  <2>1. q.rest \in Seq(STRING)
    BY ResultParts DEF Texts
  <2> QED BY <2>1, LenProperties
<1>3. 0 \in T
  <2>1. 0 \in 0 .. N /\ left(0) + 0 < N
    BY <1>1, <1>2
  <2> QED BY <2>1
<1>4. ASSUME NEW n \in 0 + 1 .. N, n - 1 \in T PROVE n \in T
  <2>1. n \in 1 .. N /\ n - 1 \in 0 .. N /\ n \in 0 .. N
    OBVIOUS
  <2> DEFINE q == g[n - 1]
  <2>2. q \in AnyResult /\ g[n] = Turn(F)[q] /\ g[n] \in AnyResult
    BY <1>1, <2>1
  <2>3. left(n) \in Nat /\ left(n - 1) \in Nat
    BY <1>2, <2>2
  <2>4. CASE q.rest = <<>>
    <3>1. g[n] = q
      BY <2>2, <2>4, TurnType
    <3> QED BY <2>1, <2>4, <3>1
  <2>5. CASE q.rest # <<>>
    <3>1. left(n) < left(n - 1)
      BY <2>2, <2>5, TurnType
    <3>2. left(n - 1) + (n - 1) < N
      BY <1>4, <2>5
    <3>3. left(n) + n < N
      <4> HIDE DEF left
      <4> QED BY <2>3, <3>1, <3>2
    <3> QED BY <2>1, <3>3
  <2> QED BY <2>4, <2>5
<1>5. N \in T
  <2> HIDE DEF T
  <2>1. \A n \in 0 .. N : n \in T
    BY <1>3, <1>4, UpTo
  <2> QED BY <2>1
<1>6. N \in 0 .. N /\ g[N] \in AnyResult
  BY <1>1
<1>7. g[N].rest = <<>>
  BY <1>2, <1>5, <1>6
<1> QED BY <1>6, <1>7 DEF Ends

\* The steps of the three parsers as functions.
DropMove == [q \in AnyParser \X Texts |-> DropStep(q[1], q[2])]
CardMove == [q \in AnyParser \X Texts |-> CardStep(q[1], q[2])]
ToolMove == [q \in AnyParser \X Texts |-> ToolStep(q[1], q[2])]

\* What the program writes is text.
LEMMA TagsOfText ==
    /\ OpenTag(DropTag) \in Tags /\ EndTag(DropTag) \in Tags
    /\ OpenTag(CardTag) \in Tags /\ EndTag(CardTag) \in Tags
    /\ StartTag(ToolTag) \in Tags /\ EndTag(ToolTag) \in Tags
    /\ <<">">> \in Tags /\ LineEnds \subseteq STRING /\ Marks \subseteq STRING
<1>1. /\ "<" \in STRING /\ "/" \in STRING /\ ">" \in STRING /\ DropTag \in STRING
      /\ CardTag \in STRING /\ ToolTag \in STRING
      /\ LineEnds \subseteq STRING /\ Marks \subseteq STRING
  BY TextAssumption DEF Signs, Marks, LineEnds
<1>2. /\ OpenTag(DropTag) \in Seq(STRING) /\ EndTag(DropTag) \in Seq(STRING)
      /\ OpenTag(CardTag) \in Seq(STRING) /\ EndTag(CardTag) \in Seq(STRING)
      /\ StartTag(ToolTag) \in Seq(STRING) /\ EndTag(ToolTag) \in Seq(STRING)
      /\ <<">">> \in Seq(STRING)
  BY <1>1 DEF OpenTag, StartTag, EndTag
<1> QED BY <1>1, <1>2, TagLengths DEF Tags, Texts

\* What is left after something is shorter.
LEMMA ShorterRest ==
    ASSUME NEW x \in Texts, x # <<>>
    PROVE  /\ Len(<<>>) < Len(x)
           /\ \A i \in 2 .. Len(x) + 1 : Len(From(x, i)) < Len(x)
<1>1. Len(x) \in Nat /\ Len(x) # 0
  BY LenProperties, EmptySeq DEF Texts
<1>2. ASSUME NEW i \in 2 .. Len(x) + 1 PROVE Len(From(x, i)) < Len(x)
  <2>1. i \in 1 .. Len(x) + 1
    OBVIOUS
  <2>2. Len(From(x, i)) = Len(x) + 1 - i
    BY <2>1, PartsOf
  <2> QED BY <1>1, <2>2
<1>3. Len(<<>>) = 0
  OBVIOUS
<1> QED BY <1>1, <1>2, <1>3

\* Where a tag is, and what is left after it.
LEMMA AfterTag ==
    ASSUME NEW x \in Texts, NEW tag \in Tags, Index(x, tag) # 0
    PROVE  /\ Index(x, tag) \in 1 .. Len(x)
           /\ Index(x, tag) + Len(tag) \in 2 .. Len(x) + 1
<1>1. Len(x) \in Nat /\ Len(tag) \in Nat \ {0}
  BY LenProperties DEF Tags, Texts
<1>2. Index(x, tag) \in Nat /\ Index(x, tag) + Len(tag) <= Len(x) + 1
  BY IndexStarts
<1> QED BY <1>1, <1>2

\* dropTagParser takes steps.
LEMMA DropMoves ==
    /\ DropMove \in Moves
    /\ \A p \in AnyParser : \A x \in Texts : DropMove[<<p, x>>] = DropStep(p, x)
<1>1. \A p \in AnyParser : \A x \in Texts : DropMove[<<p, x>>] = DropStep(p, x)
  BY DEF DropMove
<1>2. DropMove \in [AnyParser \X Texts -> AnyResult]
  <2>1. \A p \in AnyParser : \A x \in Texts : DropStep(p, x) \in AnyResult
    BY DropStepType DEF AnyParser, Texts, AnyResult
  <2> QED BY <2>1 DEF DropMove
<1>3. ASSUME NEW p \in AnyParser, NEW x \in Texts, x # <<>>
      PROVE  Len(DropStep(p, x).rest) < Len(x)
  <2> DEFINE start == Index(x, OpenTag(DropTag))
             opened == From(x, start)
             close == Index(opened, <<">">>)
             end == Index(x, EndTag(DropTag))
  <2>1. /\ Len(<<>>) < Len(x)
        /\ \A i \in 2 .. Len(x) + 1 : Len(From(x, i)) < Len(x)
    BY <1>3, ShorterRest
  <2>2. CASE p.inside
    <3>1. DropStep(p, x).rest = IF end = 0 THEN <<>> ELSE From(x, end + Len(EndTag(DropTag)))
      BY <2>2 DEF DropStep, DropInside, Result
    <3>2. end # 0 => end + Len(EndTag(DropTag)) \in 2 .. Len(x) + 1
      BY AfterTag, TagsOfText
    <3> HIDE DEF end
    <3> QED BY <2>1, <3>1, <3>2
  <2>3. CASE ~p.inside
    <3>1. DropStep(p, x).rest = IF start = 0 \/ close = 0 THEN <<>>
                                ELSE From(opened, close + 1)
      BY <2>3 DEF DropStep, DropText, Result
    <3>2. start # 0 => start \in 1 .. Len(x)
      BY AfterTag, TagsOfText
    <3>3. ASSUME start # 0, close # 0 PROVE Len(From(opened, close + 1)) < Len(x)
      <4>1. Len(x) \in Nat /\ start \in 1 .. Len(x) + 1
        BY <3>2, <3>3, LenProperties DEF Texts
      <4>2. opened \in Texts /\ Len(opened) = Len(x) + 1 - start
        BY <4>1, PartsOf
      <4> HIDE DEF start, opened
      <4>3. close + 1 \in 2 .. Len(opened) + 1
        BY <3>3, <4>2, AfterTag, TagsOfText, TagLengths
      <4>4. close + 1 \in 1 .. Len(opened) + 1
        BY <4>3
      <4>5. Len(From(opened, close + 1)) = Len(opened) + 1 - (close + 1)
        BY <4>2, <4>4, PartsOf
      <4> HIDE DEF close
      <4> QED BY <4>1, <4>2, <4>3, <4>5
    <3> HIDE DEF start, opened, close
    <3> QED BY <2>1, <3>1, <3>3
  <2> QED BY <2>2, <2>3
<1> QED BY <1>1, <1>2, <1>3 DEF Moves

\* So does toolUsageCardParser.
LEMMA CardMoves ==
    /\ CardMove \in Moves
    /\ \A p \in AnyParser : \A x \in Texts : CardMove[<<p, x>>] = CardStep(p, x)
<1>1. \A p \in AnyParser : \A x \in Texts : CardMove[<<p, x>>] = CardStep(p, x)
  BY DEF CardMove
<1>2. CardMove \in [AnyParser \X Texts -> AnyResult]
  <2>1. \A p \in AnyParser : \A x \in Texts : CardStep(p, x) \in AnyResult
    BY CardStepType, TagsOfText DEF AnyParser, Texts, AnyResult
  <2> QED BY <2>1 DEF CardMove
<1>3. ASSUME NEW p \in AnyParser, NEW x \in Texts, x # <<>>
      PROVE  Len(CardStep(p, x).rest) < Len(x)
  <2> DEFINE start == Index(x, OpenTag(CardTag))
             card == From(x, start)
             at == Index(card, EndTag(CardTag))
             end == Index(x, EndTag(CardTag))
  <2>1. /\ Len(<<>>) < Len(x)
        /\ \A i \in 2 .. Len(x) + 1 : Len(From(x, i)) < Len(x)
    BY <1>3, ShorterRest
  <2>2. CASE p.inside
    <3>1. CardStep(p, x).rest = IF end = 0 THEN <<>> ELSE From(x, end + Len(EndTag(CardTag)))
      BY <2>2 DEF CardStep, CardInside, Result
    <3>2. end # 0 => end + Len(EndTag(CardTag)) \in 2 .. Len(x) + 1
      BY AfterTag, TagsOfText
    <3> HIDE DEF end
    <3> QED BY <2>1, <3>1, <3>2
  <2>3. CASE ~p.inside
    <3>1. CardStep(p, x).rest = IF start = 0 \/ at = 0 THEN <<>>
                                ELSE From(card, at + Len(EndTag(CardTag)))
      BY <2>3 DEF CardStep, CardText, Result
    <3>2. start # 0 => start \in 1 .. Len(x)
      BY AfterTag, TagsOfText
    <3>3. ASSUME start # 0, at # 0
          PROVE  Len(From(card, at + Len(EndTag(CardTag)))) < Len(x)
      <4>1. Len(x) \in Nat /\ start \in 1 .. Len(x) + 1
        BY <3>2, <3>3, LenProperties DEF Texts
      <4>2. card \in Texts /\ Len(card) = Len(x) + 1 - start
        BY <4>1, PartsOf
      <4> HIDE DEF start, card
      <4> DEFINE i == at + Len(EndTag(CardTag))
      <4>3. i \in 2 .. Len(card) + 1
        BY <3>3, <4>2, AfterTag, TagsOfText
      <4> HIDE DEF i
      <4>4. i \in 1 .. Len(card) + 1
        BY <4>3
      <4>5. Len(From(card, i)) = Len(card) + 1 - i
        BY <4>2, <4>4, PartsOf
      <4>6. Len(From(card, i)) < Len(x)
        BY <4>1, <4>2, <4>3, <4>5
      <4> QED BY <4>6 DEF i
    <3> HIDE DEF start, card, at
    <3> QED BY <2>1, <3>1, <3>3
  <2> QED BY <2>2, <2>3
<1> QED BY <1>1, <1>2, <1>3 DEF Moves

\* And streamToolCallParser.
LEMMA ToolMoves ==
    /\ ToolMove \in Moves
    /\ \A p \in AnyParser : \A x \in Texts : ToolMove[<<p, x>>] = ToolStep(p, x)
<1>1. \A p \in AnyParser : \A x \in Texts : ToolMove[<<p, x>>] = ToolStep(p, x)
  BY DEF ToolMove
<1>2. ToolMove \in [AnyParser \X Texts -> AnyResult]
  <2>1. \A p \in AnyParser : \A x \in Texts : ToolStep(p, x) \in AnyResult
    BY ToolStepType, TagsOfText DEF AnyParser, Texts, AnyResult
  <2> QED BY <2>1 DEF ToolMove
<1>3. ASSUME NEW p \in AnyParser, NEW x \in Texts, x # <<>>
      PROVE  Len(ToolStep(p, x).rest) < Len(x)
  <2> DEFINE start == Index(x, StartTag(ToolTag))
             end == Index(x, EndTag(ToolTag))
  <2>1. /\ Len(<<>>) < Len(x)
        /\ \A i \in 2 .. Len(x) + 1 : Len(From(x, i)) < Len(x)
    BY <1>3, ShorterRest
  <2>2. CASE p.inside
    <3>1. ToolStep(p, x).rest = IF end = 0 THEN <<>> ELSE From(x, end + Len(EndTag(ToolTag)))
      BY <2>2 DEF ToolStep, ToolInside, Result
    <3>2. end # 0 => end + Len(EndTag(ToolTag)) \in 2 .. Len(x) + 1
      BY AfterTag, TagsOfText
    <3> HIDE DEF end
    <3> QED BY <2>1, <3>1, <3>2
  <2>3. CASE ~p.inside
    <3>1. ToolStep(p, x).rest = IF start = 0 THEN <<>> ELSE From(x, start + Len(StartTag(ToolTag)))
      BY <2>3 DEF ToolStep, ToolText, Result
    <3>2. start # 0 => start + Len(StartTag(ToolTag)) \in 2 .. Len(x) + 1
      BY AfterTag, TagsOfText
    <3> HIDE DEF start
    <3> QED BY <2>1, <3>1, <3>2
  <2> QED BY <2>2, <2>3
<1> QED BY <1>1, <1>2, <1>3 DEF Moves

\* A tag that is in a text is where it was when more comes.
LEMMA TagFound ==
    ASSUME NEW x \in Texts, NEW y \in Texts, NEW tag \in Tags, Index(x, tag) # 0
    PROVE  LET n == Index(x, tag)
               m == n + Len(tag)
           IN  /\ Index(x \o y, tag) = n
               /\ n \in 1 .. Len(x) /\ m \in 1 .. Len(x) + 1
               /\ Before(x \o y, n) = Before(x, n) /\ From(x \o y, n) = From(x, n) \o y
               /\ Before(x \o y, m) = Before(x, m) /\ From(x \o y, m) = From(x, m) \o y
               /\ Before(x, n) \in Texts /\ From(x, n) \in Texts
               /\ Before(x, m) \in Texts /\ From(x, m) \in Texts
<1> DEFINE n == Index(x, tag)
           m == n + Len(tag)
<1>1. Index(x \o y, tag) = n
  BY FirstTag
<1>2. n \in 1 .. Len(x) /\ m \in 2 .. Len(x) + 1
  BY AfterTag
<1> HIDE DEF n, m
<1>3. n \in 1 .. Len(x) + 1 /\ m \in 1 .. Len(x) + 1
  <2>1. Len(x) \in Nat
    BY LenProperties DEF Texts
  <2> QED BY <1>2, <2>1
<1>4. /\ Before(x \o y, n) = Before(x, n) /\ From(x \o y, n) = From(x, n) \o y
      /\ Before(x \o y, m) = Before(x, m) /\ From(x \o y, m) = From(x, m) \o y
  BY <1>3, PartsOfFirst
<1>5. /\ Before(x, n) \in Texts /\ From(x, n) \in Texts
      /\ Before(x, m) \in Texts /\ From(x, m) \in Texts
  BY <1>3, PartsOf
<1> QED BY <1>1, <1>2, <1>3, <1>4, <1>5 DEF n, m

\* A tag that is not in a text yet is found in what was kept and what comes.
LEMMA TagComes ==
    ASSUME NEW x \in Texts, NEW y \in Texts, NEW tag \in Tags, Index(x, tag) = 0
    PROVE  LET k == Clean(x, tag)
               z == Carry(x, tag) \o y
               l == Index(x \o y, tag)
               n == Index(z, tag)
           IN  /\ k \in Texts /\ z \in Texts
               /\ n = 0 => /\ l = 0 /\ Clean(x \o y, tag) = k \o Clean(z, tag)
                           /\ Carry(x \o y, tag) = Carry(z, tag)
               /\ n # 0 => /\ l # 0
                           /\ Before(x \o y, l) = k \o Before(z, n)
                           /\ From(x \o y, l) = From(z, n)
                           /\ Before(x \o y, l + Len(tag)) = k \o Before(z, n + Len(tag))
                           /\ From(x \o y, l + Len(tag)) = From(z, n + Len(tag))
<1> DEFINE k == Clean(x, tag)
           z == Carry(x, tag) \o y
           l == Index(x \o y, tag)
           n == Index(z, tag)
<1>1. /\ k \in Texts /\ z \in Texts /\ x \o y = k \o z
      /\ l = IF n = 0 THEN 0 ELSE Len(k) + n
      /\ Clean(x \o y, tag) = k \o Clean(z, tag)
      /\ Carry(x \o y, tag) = Carry(z, tag)
  BY NoTagYet
<1>2. Len(tag) \in Nat /\ Len(z) \in Nat /\ Len(k) \in Nat
  BY <1>1, LenProperties DEF Tags, Texts
<1>3. CASE n # 0
  <2>1. n \in 1 .. Len(z) /\ n + Len(tag) \in 2 .. Len(z) + 1
    <3> HIDE DEF z
    <3> QED BY <1>1, <1>3, AfterTag
  <2> HIDE DEF k, z, l, n
  <2>2. n \in 1 .. Len(z) + 1 /\ n + Len(tag) \in 1 .. Len(z) + 1
        /\ l = Len(k) + n /\ l # 0 /\ l + Len(tag) = Len(k) + (n + Len(tag))
    BY <1>1, <1>2, <1>3, <2>1
  <2> DEFINE m == n + Len(tag)
  <2>3. Before(k \o z, Len(k) + n) = k \o Before(z, n) /\ From(k \o z, Len(k) + n) = From(z, n)
    BY <1>1, <2>2, PartsOfSecond
  <2>4. m \in 1 .. Len(z) + 1
    BY <2>2
  <2> HIDE DEF m
  <2>5. Before(k \o z, Len(k) + m) = k \o Before(z, m) /\ From(k \o z, Len(k) + m) = From(z, m)
    BY <1>1, <2>4, PartsOfSecond
  <2> QED BY <1>1, <1>3, <2>2, <2>3, <2>5 DEF k, z, l, n, m
<1>4. CASE n = 0
  BY <1>1, <1>4
<1> QED BY <1>1, <1>3, <1>4

\* What begins with a tag begins with it when more comes.
LEMMA TagFirst ==
    ASSUME NEW x \in Texts, NEW y \in Texts, NEW tag \in Tags, Index(x, tag) # 0
    PROVE  LET c == From(x, Index(x, tag))
           IN  /\ c \in Texts /\ c # <<>> /\ c[1] = tag[1]
               /\ Index(c \o y, tag) = 1
               /\ Before(c \o y, 1) = <<>> /\ From(c \o y, 1) = c \o y
<1> DEFINE n == Index(x, tag)
           c == From(x, n)
<1>1. Len(x) \in Nat /\ Len(tag) \in Nat \ {0}
  BY LenProperties DEF Tags, Texts
<1>2. /\ n \in 1 .. Len(x) /\ Starts(x, tag, n) /\ n + Len(tag) <= Len(x) + 1
  BY AfterTag, IndexStarts
<1>3. n \in 1 .. Len(x) + 1
  BY <1>1, <1>2
<1> HIDE DEF n
<1>4. /\ c \in Texts /\ Len(c) = Len(x) + 1 - n
      /\ \A j \in 1 .. Len(x) + 1 - n : c[j] = x[n + j - 1]
  BY <1>3, PartsOf
<1> HIDE DEF c
<1>5. Starts(c, tag, 1) /\ 1 + Len(tag) <= Len(c) + 1
  <2>1. 1 + Len(tag) <= Len(c) + 1 /\ 1 \in 1 .. Len(c)
    BY <1>1, <1>2, <1>4
  <2>2. ASSUME NEW j \in 1 .. Len(tag) PROVE c[1 + j - 1] = tag[j]
    <3>1. j \in 1 .. Len(x) + 1 - n /\ 1 + j - 1 = j /\ n + j - 1 <= Len(x)
      BY <1>1, <1>2
    <3> QED BY <1>2, <1>4, <3>1 DEF Starts
  <2> QED BY <2>1, <2>2 DEF Starts
<1>6. Index(c, tag) = 1
  <2>1. Index(c, tag) # 0 /\ Index(c, tag) <= 1 /\ Index(c, tag) \in Nat
    BY <1>4, <1>5, IndexStarts
  <2> QED BY <2>1
<1>7. Index(c \o y, tag) = 1
  BY <1>4, <1>6, FirstTag
<1>8. c[1] = tag[1] /\ c # <<>>
  <2>1. 1 \in 1 .. Len(tag) /\ 1 + 1 - 1 = 1 /\ 1 <= Len(c) /\ Len(c) # 0
    BY <1>1, <1>2, <1>4
  <2> QED BY <1>5, <2>1 DEF Starts
<1>9. Before(c \o y, 1) = <<>> /\ From(c \o y, 1) = c \o y
  <2> DEFINE w == c \o y
  <2>1. w \in Texts
    BY <1>4, Joined
  <2> HIDE DEF w
  <2>2. 1 \in 1 .. Len(w) + 1
    BY <2>1, LenProperties DEF Texts
  <2>3. /\ Before(w, 1) \in Seq(STRING) /\ Len(Before(w, 1)) = 1 - 1
        /\ From(w, 1) \in Texts /\ w = Before(w, 1) \o From(w, 1)
    BY <2>1, <2>2, PartsOf DEF Texts
  <2>4. Before(w, 1) = <<>>
    BY <2>3, EmptySeq
  <2>5. From(w, 1) = w
    BY <2>3, <2>4, JoinLaws
  <2> QED BY <2>4, <2>5 DEF w
<1> QED BY <1>4, <1>7, <1>8, <1>9 DEF n, c

\* What is kept of a parser.
LEMMA ParserParts ==
    ASSUME NEW p \in AnyParser
    PROVE  /\ p.partial \in Texts /\ p.buffer \in Texts /\ p.inside \in BOOLEAN
           /\ p.next \in Nat
           /\ p = [inside |-> p.inside, partial |-> p.partial, buffer |-> p.buffer,
                   next |-> p.next]
           /\ Cleared(p) \in AnyParser /\ Cleared(p).partial = <<>>
           /\ \A c : /\ [p EXCEPT !.partial = c].partial = c
                     /\ Cleared([p EXCEPT !.partial = c]) = Cleared(p)
           /\ p.partial = <<>> => Cleared(p) = p
<1>1. p \in [inside : BOOLEAN, partial : Texts, buffer : Texts, next : Nat]
  BY DEF AnyParser, Parsers, Texts
<1>2. <<>> \in Texts
  BY DEF Texts
<1>3. Cleared(p) \in AnyParser /\ Cleared(p).partial = <<>>
  BY <1>1, <1>2 DEF Cleared, AnyParser, Parsers, Texts
<1>4. /\ p = [inside |-> p.inside, partial |-> p.partial, buffer |-> p.buffer,
              next |-> p.next]
      /\ p.partial = <<>> => Cleared(p) = p
  BY <1>1 DEF Cleared
<1>5. \A c : /\ [p EXCEPT !.partial = c].partial = c
             /\ Cleared([p EXCEPT !.partial = c]) = Cleared(p)
  BY <1>1 DEF Cleared
<1> QED BY <1>1, <1>3, <1>4, <1>5

\* What dropTagParser makes of an element that begins.
DropOpened(p, before, opened) ==
    LET close == Index(opened, <<">">>)
    IN  IF close = 0
        THEN Result([p EXCEPT !.partial = opened], before, <<>>, <<>>)
        ELSE Result([p EXCEPT !.inside = opened[close - 1] # "/"],
                    before, <<>>, From(opened, close + 1))

\* The text before an element only goes in front.
LEMMA OpenedParts ==
    ASSUME NEW p, NEW before, NEW opened, NEW b, b = DropOpened(p, before, opened)
    PROVE  /\ b.text = before /\ b.calls = <<>>
           /\ \A other : DropOpened(p, other, opened) = Result(b.p, other, <<>>, b.rest)
<1>1. CASE Index(opened, <<">">>) = 0
  BY <1>1 DEF DropOpened, Result
<1>2. CASE Index(opened, <<">">>) # 0
  BY <1>2 DEF DropOpened, Result
<1> QED BY <1>1, <1>2

\* What a step that keeps the end of a text leaves of the parser.
LEMMA KeptParts ==
    ASSUME NEW p \in AnyParser, p.partial = <<>>, NEW c, NEW k, NEW a,
           a = Result([p EXCEPT !.partial = c], k, <<>>, <<>>)
    PROVE  /\ a.rest = <<>> /\ a.p.partial = c /\ Cleared(a.p) = p /\ a.text = k
           /\ a.calls = <<>>
<1>1. /\ a.p = [p EXCEPT !.partial = c] /\ a.rest = <<>> /\ a.text = k
      /\ a.calls = <<>>
  BY DEF Result
<1>2. /\ [p EXCEPT !.partial = c].partial = c
      /\ Cleared([p EXCEPT !.partial = c]) = Cleared(p)
  BY ParserParts
<1>3. Cleared(p) = p
  BY ParserParts
<1> QED BY <1>1, <1>2, <1>3

\* dropTagParser does one or the other with every text, inside an element
LEMMA DropInsideLocal ==
    ASSUME NEW p \in AnyParser, p.partial = <<>>, p.inside,
           NEW x \in Texts, NEW y \in Texts, x # <<>>, y # <<>>
    PROVE  Found(DropMove, p, x, y) \/ Unfound(DropMove, p, x, y)
<1> DEFINE tag == EndTag(DropTag)
           end == Index(x, tag)
           a == DropMove[<<p, x>>]
<1>1. tag \in Tags /\ x \o y \in Texts
  BY TagsOfText, Joined
<1>2. \A w \in Texts : DropMove[<<p, w>>] =
         IF Index(w, tag) = 0
         THEN Result([p EXCEPT !.partial = Carry(w, tag)], <<>>, <<>>, <<>>)
         ELSE Result([p EXCEPT !.inside = FALSE], <<>>, <<>>,
                     From(w, Index(w, tag) + Len(tag)))
  BY DropMoves DEF DropStep, DropInside
<1>3. CASE end # 0
  <2>1. /\ Index(x \o y, tag) = end
        /\ From(x \o y, end + Len(tag)) = From(x, end + Len(tag)) \o y
    BY <1>1, <1>3, TagFound
  <2>2. a = Result([p EXCEPT !.inside = FALSE], <<>>, <<>>, From(x, end + Len(tag)))
    BY <1>2, <1>3
  <2>3. DropMove[<<p, x \o y>>] = Result([p EXCEPT !.inside = FALSE], <<>>, <<>>,
                                         From(x, end + Len(tag)) \o y)
    BY <1>1, <1>2, <1>3, <2>1
  <2>4. a.p.partial = <<>>
    BY <2>2 DEF Result, AnyParser, Parsers
  <2>5. DropMove[<<p, x \o y>>] = Longer(a, y)
    BY <2>2, <2>3 DEF Longer, Result
  <2> QED BY <2>4, <2>5 DEF Found
<1>4. CASE end = 0
  <2> DEFINE c == Carry(x, tag)
             z == c \o y
             b == DropMove[<<p, z>>]
  <2>1. /\ z \in Texts
        /\ Index(z, tag) = 0 => /\ Index(x \o y, tag) = 0
                                /\ Carry(x \o y, tag) = Carry(z, tag)
        /\ Index(z, tag) # 0 => /\ Index(x \o y, tag) # 0
                                /\ From(x \o y, Index(x \o y, tag) + Len(tag)) =
                                      From(z, Index(z, tag) + Len(tag))
    BY <1>1, <1>4, TagComes
  <2>2. a = Result([p EXCEPT !.partial = c], <<>>, <<>>, <<>>)
    BY <1>2, <1>4
  <2>3. a.rest = <<>> /\ a.p.partial = c /\ Cleared(a.p) = p /\ a.text = <<>>
        /\ a.calls = <<>>
    <3> HIDE DEF a
    <3> QED BY <2>2, KeptParts
  <2> HIDE DEF a, z
  <2>4. DropMove[<<p, x \o y>>] = b
    BY <1>1, <1>2, <2>1
  <2>5. b.text = <<>> /\ b.calls = <<>> /\ b = Result(b.p, b.text, b.calls, b.rest)
    <3>1. \E q, r : b = Result(q, <<>>, <<>>, r)
      BY <1>2, <2>1
    <3> HIDE DEF b
    <3> QED BY <3>1 DEF Result
  <2>6. Then(a, b) = b
    BY <2>3, <2>5 DEF Then, Result
  <2> QED BY <2>3, <2>4, <2>6 DEF Unfound, a, z
<1> QED BY <1>3, <1>4

\* and outside.
LEMMA DropTextLocal ==
    ASSUME NEW p \in AnyParser, p.partial = <<>>, ~p.inside,
           NEW x \in Texts, NEW y \in Texts, x # <<>>, y # <<>>
    PROVE  Found(DropMove, p, x, y) \/ Unfound(DropMove, p, x, y)
<1> DEFINE tag == OpenTag(DropTag)
           start == Index(x, tag)
           opened == From(x, start)
           close == Index(opened, <<">">>)
           a == DropMove[<<p, x>>]
<1>1. tag \in Tags /\ <<">">> \in Tags /\ x \o y \in Texts
  BY TagsOfText, Joined
<1>2. \A w \in Texts :
         /\ Index(w, tag) = 0 =>
               DropMove[<<p, w>>] =
                  Result([p EXCEPT !.partial = Carry(w, tag)], Clean(w, tag), <<>>, <<>>)
         /\ Index(w, tag) # 0 =>
               DropMove[<<p, w>>] =
                  DropOpened(p, Before(w, Index(w, tag)), From(w, Index(w, tag)))
  BY DropMoves DEF DropStep, DropText, DropOpened
<1>3. CASE start = 0
  <2> DEFINE c == Carry(x, tag)
             k == Clean(x, tag)
             z == c \o y
             n == Index(z, tag)
             l == Index(x \o y, tag)
             b == DropMove[<<p, z>>]
  <2>1. /\ k \in Texts /\ z \in Texts
        /\ n = 0 => /\ l = 0 /\ Clean(x \o y, tag) = k \o Clean(z, tag)
                    /\ Carry(x \o y, tag) = Carry(z, tag)
        /\ n # 0 => /\ l # 0 /\ Before(x \o y, l) = k \o Before(z, n)
                    /\ From(x \o y, l) = From(z, n)
    BY <1>1, <1>3, TagComes
  <2>2. a = Result([p EXCEPT !.partial = c], k, <<>>, <<>>)
    BY <1>2, <1>3
  <2>3. a.rest = <<>> /\ a.p.partial = c /\ Cleared(a.p) = p /\ a.text = k
        /\ a.calls = <<>>
    <3> HIDE DEF a
    <3> QED BY <2>2, KeptParts
  <2> HIDE DEF a, z, k, n, l
  <2>4. DropMove[<<p, x \o y>>] = Result(b.p, k \o b.text, b.calls, b.rest)
    <3>1. CASE n = 0
      <4>1. b = Result([p EXCEPT !.partial = Carry(z, tag)], Clean(z, tag), <<>>, <<>>)
        BY <1>2, <2>1, <3>1 DEF n
      <4>2. DropMove[<<p, x \o y>>] =
               Result([p EXCEPT !.partial = Carry(z, tag)], k \o Clean(z, tag), <<>>, <<>>)
        BY <1>1, <1>2, <2>1, <3>1 DEF l
      <4> QED BY <4>1, <4>2 DEF Result
    <3>2. CASE n # 0
      <4>1. b = DropOpened(p, Before(z, n), From(z, n))
        BY <1>2, <2>1, <3>2 DEF n
      <4>2. DropMove[<<p, x \o y>>] = DropOpened(p, k \o Before(z, n), From(z, n))
        BY <1>1, <1>2, <2>1, <3>2 DEF l
      <4> HIDE DEF b
      <4>3. /\ b.text = Before(z, n) /\ b.calls = <<>>
            /\ DropOpened(p, k \o Before(z, n), From(z, n)) =
                  Result(b.p, k \o Before(z, n), <<>>, b.rest)
        BY <4>1, OpenedParts
      <4> QED BY <4>2, <4>3
    <3> QED BY <3>1, <3>2
  <2>5. b.calls = <<>>
    <3>1. CASE n = 0
      <4>1. b = Result([p EXCEPT !.partial = Carry(z, tag)], Clean(z, tag), <<>>, <<>>)
        BY <1>2, <2>1, <3>1 DEF n
      <4> QED BY <4>1 DEF Result
    <3>2. CASE n # 0
      <4>1. b = DropOpened(p, Before(z, n), From(z, n))
        BY <1>2, <2>1, <3>2 DEF n
      <4> QED BY <4>1, OpenedParts
    <3> QED BY <3>1, <3>2
  <2>6. Then(a, b) = Result(b.p, k \o b.text, b.calls, b.rest)
    BY <2>3, <2>5 DEF Then, Result
  <2> QED BY <2>3, <2>4, <2>6 DEF Unfound, a, z
<1>4. CASE start # 0
  <2> DEFINE before == Before(x, start)
  <2>1. /\ Index(x \o y, tag) = start /\ before \in Texts /\ opened \in Texts
        /\ Before(x \o y, start) = before /\ From(x \o y, start) = opened \o y
    BY <1>1, <1>4, TagFound
  <2>2. /\ opened # <<>> /\ opened[1] = "<" /\ Index(opened \o y, tag) = 1
        /\ Before(opened \o y, 1) = <<>> /\ From(opened \o y, 1) = opened \o y
    <3>1. tag[1] = "<"
      BY DEF OpenTag
    <3> HIDE DEF tag
    <3> QED BY <1>1, <1>4, <3>1, TagFirst
  <2>3. /\ a = DropOpened(p, before, opened)
        /\ DropMove[<<p, x \o y>>] = DropOpened(p, before, opened \o y)
    BY <1>1, <1>2, <1>4, <2>1
  <2> HIDE DEF a, tag, start, before, opened
  <2>4. CASE close = 0
    <3> DEFINE w == opened \o y
               b == DropMove[<<p, w>>]
    <3>1. a = Result([p EXCEPT !.partial = opened], before, <<>>, <<>>)
      BY <2>3, <2>4 DEF DropOpened
    <3>2. a.rest = <<>> /\ a.p.partial = opened /\ Cleared(a.p) = p /\ a.text = before
          /\ a.calls = <<>>
      BY <3>1, KeptParts
    <3>3. w \in Texts
      BY <2>1, Joined
    <3> HIDE DEF w
    <3>4. b = DropOpened(p, <<>>, w)
      <4>1. Index(w, tag) = 1 /\ Before(w, 1) = <<>> /\ From(w, 1) = w
        BY <2>2 DEF w
      <4>2. Index(w, tag) # 0
        BY <4>1
      <4>3. DropMove[<<p, w>>] =
               DropOpened(p, Before(w, Index(w, tag)), From(w, Index(w, tag)))
        BY <1>2, <3>3, <4>2, Zenon
      <4> QED BY <4>1, <4>3
    <3> HIDE DEF b
    <3>5. before \o <<>> = before
      BY <2>1, JoinLaws
    <3>6. b.text = <<>> /\ b.calls = <<>>
      BY <3>4, OpenedParts
    <3>7. Then(a, b) = Result(b.p, before, <<>>, b.rest)
      BY <3>2, <3>5, <3>6 DEF Then, Result
    <3>8. DropOpened(p, before, w) = Result(b.p, before, <<>>, b.rest)
      BY <3>4, OpenedParts
    <3> QED BY <2>3, <3>2, <3>7, <3>8 DEF Unfound, a, b, w
  <2>5. CASE close # 0
    <3>1. /\ Index(opened \o y, <<">">>) = close
          /\ close \in 1 .. Len(opened) /\ close + 1 \in 1 .. Len(opened) + 1
          /\ From(opened \o y, close + 1) = From(opened, close + 1) \o y
      <4>1. LET m == close + Len(<<">">>)
            IN  /\ Index(opened \o y, <<">">>) = close
                /\ close \in 1 .. Len(opened) /\ m \in 1 .. Len(opened) + 1
                /\ From(opened \o y, m) = From(opened, m) \o y
        <5> DEFINE gt == <<">">>
        <5>1. gt \in Tags /\ close = Index(opened, gt)
          BY <1>1
        <5> HIDE DEF gt
        <5>2. /\ Index(opened \o y, gt) = close
              /\ close \in 1 .. Len(opened) /\ close + Len(gt) \in 1 .. Len(opened) + 1
              /\ From(opened \o y, close + Len(gt)) = From(opened, close + Len(gt)) \o y
          <6> HIDE DEF close
          <6> DEFINE n == Index(opened, gt)
          <6>1. n # 0 /\ opened \in Texts /\ gt \in Tags
            BY <2>1, <2>5, <5>1
          <6>2. /\ Index(opened \o y, gt) = n
                /\ n \in 1 .. Len(opened) /\ n + Len(gt) \in 1 .. Len(opened) + 1
                /\ From(opened \o y, n + Len(gt)) = From(opened, n + Len(gt)) \o y
            BY <6>1, TagFound
          <6> QED BY <5>1, <6>2
        <5> QED BY <5>2 DEF gt
      <4>2. Len(<<">">>) = 1
        BY TagLengths
      <4> HIDE DEF close
      <4> QED BY <4>1, <4>2
    <3>2. close # 1
      <4>1. Starts(opened, <<">">>, close)
        BY <1>1, <2>1, <2>5, IndexStarts
      <4>2. opened[close] = ">"
        <5>1. Len(opened) \in Nat
          BY <2>1, LenProperties DEF Texts
        <5>2. 1 \in 1 .. Len(<<">">>) /\ <<">">>[1] = ">" /\ close + 1 - 1 = close
              /\ close <= Len(opened)
          BY <3>1, <5>1, TagLengths
        <5> HIDE DEF close
        <5> QED BY <4>1, <5>2 DEF Starts
      <4> HIDE DEF close
      <4> QED BY <2>2, <4>2
    <3> HIDE DEF close
    <3>3. (opened \o y)[close - 1] = opened[close - 1]
      <4>1. Len(opened) \in Nat
        BY <2>1, LenProperties DEF Texts
      <4>2. close - 1 \in 1 .. Len(opened)
        BY <3>1, <3>2, <4>1
      <4> QED BY <2>1, <4>2, Joined
    <3> DEFINE q == [p EXCEPT !.inside = opened[close - 1] # "/"]
    <3>4. /\ a = Result(q, before, <<>>, From(opened, close + 1))
          /\ DropMove[<<p, x \o y>>] = Result(q, before, <<>>, From(opened, close + 1) \o y)
      BY <2>3, <2>5, <3>1, <3>3 DEF DropOpened, close
    <3>5. q.partial = <<>>
      BY DEF AnyParser, Parsers
    <3> HIDE DEF q
    <3>6. a.p.partial = <<>> /\ DropMove[<<p, x \o y>>] = Longer(a, y)
      BY <3>4, <3>5 DEF Longer, Result
    <3> QED BY <3>6 DEF Found, a
  <2> QED BY <2>4, <2>5
<1> QED BY <1>3, <1>4

\* So its loop goes on where it was.
LEMMA DropLocal == Local(DropMove)
<1> SUFFICES ASSUME NEW p \in AnyParser, p.partial = <<>>,
                    NEW x \in Texts, NEW y \in Texts, x # <<>>, y # <<>>
             PROVE  Found(DropMove, p, x, y) \/ Unfound(DropMove, p, x, y)
  BY DEF Local
<1>1. CASE p.inside
  BY <1>1, DropInsideLocal
<1>2. CASE ~p.inside
  BY <1>2, DropTextLocal
<1> QED BY <1>1, <1>2

\* The end of a block.
ToolClosed(p, raw, rest) ==
    LET calls == ToolCallsOf(raw, p.next)
    IN  Result([p EXCEPT !.inside = FALSE, !.buffer = <<>>, !.next = @ + Len(calls)],
               IF calls = <<>> /\ raw # <<>>
               THEN StartTag(ToolTag) \o raw \o EndTag(ToolTag) ELSE <<>>,
               calls, rest)

\* It does not depend on the buffer, and what is left goes on.
LEMMA ClosedParts ==
    ASSUME NEW p \in AnyParser, NEW raw, NEW rest
    PROVE  /\ ToolClosed(p, raw, rest).p.partial = p.partial
           /\ \A y : Longer(ToolClosed(p, raw, rest), y) = ToolClosed(p, raw, rest \o y)
           /\ \A u : ToolClosed([p EXCEPT !.buffer = u], raw, rest) = ToolClosed(p, raw, rest)
<1>1. p \in [inside : BOOLEAN, partial : Texts, buffer : Texts, next : Nat]
  BY DEF AnyParser, Parsers, Texts
<1>2. \A m : [p EXCEPT !.inside = FALSE, !.buffer = <<>>, !.next = @ + m].partial = p.partial
  BY <1>1
<1>3. ToolClosed(p, raw, rest).p.partial = p.partial
  BY <1>2 DEF ToolClosed, Result
<1>4. \A y : Longer(ToolClosed(p, raw, rest), y) = ToolClosed(p, raw, rest \o y)
  BY DEF ToolClosed, Longer, Result
<1>5. ASSUME NEW u
      PROVE  ToolClosed([p EXCEPT !.buffer = u], raw, rest) = ToolClosed(p, raw, rest)
  <2>1. /\ [p EXCEPT !.buffer = u].next = p.next
        /\ \A m : [[p EXCEPT !.buffer = u] EXCEPT !.inside = FALSE, !.buffer = <<>>, !.next = @ + m]
                  = [p EXCEPT !.inside = FALSE, !.buffer = <<>>, !.next = @ + m]
    BY <1>1
  <2> QED BY <2>1 DEF ToolClosed
<1> QED BY <1>3, <1>4, <1>5

\* streamToolCallParser does one or the other with every text, inside a block
LEMMA ToolInsideLocal ==
    ASSUME NEW p \in AnyParser, p.partial = <<>>, p.inside,
           NEW x \in Texts, NEW y \in Texts, x # <<>>, y # <<>>
    PROVE  Found(ToolMove, p, x, y) \/ Unfound(ToolMove, p, x, y)
<1> DEFINE tag == EndTag(ToolTag)
           end == Index(x, tag)
           a == ToolMove[<<p, x>>]
<1>1. tag \in Tags /\ x \o y \in Texts
  BY TagsOfText, Joined
<1>2. ASSUME NEW q \in AnyParser, q.inside, NEW w \in Texts
      PROVE  /\ Index(w, tag) = 0 =>
                   ToolMove[<<q, w>>] =
                      Result([q EXCEPT !.partial = Carry(w, tag),
                                       !.buffer = @ \o Clean(w, tag)], <<>>, <<>>, <<>>)
             /\ Index(w, tag) # 0 =>
                   ToolMove[<<q, w>>] =
                      ToolClosed(q, q.buffer \o Before(w, Index(w, tag)),
                                 From(w, Index(w, tag) + Len(tag)))
  <2>1. ToolMove[<<q, w>>] = ToolInside(q, w)
    BY <1>2, ToolMoves DEF ToolStep
  <2> QED BY <2>1 DEF ToolInside, ToolClosed
<1>3. CASE end # 0
  <2> DEFINE raw == p.buffer \o Before(x, end)
             rest == From(x, end + Len(tag))
  <2>1. /\ Index(x \o y, tag) = end /\ Before(x \o y, end) = Before(x, end)
        /\ From(x \o y, end + Len(tag)) = rest \o y
    BY <1>1, <1>3, TagFound
  <2>2. a = ToolClosed(p, raw, rest)
    BY <1>2, <1>3
  <2>3. ToolMove[<<p, x \o y>>] = ToolClosed(p, raw, rest \o y)
    BY <1>1, <1>2, <1>3, <2>1
  <2> HIDE DEF a, raw, rest
  <2>4. a.p.partial = <<>> /\ ToolMove[<<p, x \o y>>] = Longer(a, y)
    BY <2>2, <2>3, ClosedParts
  <2> QED BY <2>4 DEF Found, a
<1>4. CASE end = 0
  <2> DEFINE c == Carry(x, tag)
             k == Clean(x, tag)
             z == c \o y
             n == Index(z, tag)
             l == Index(x \o y, tag)
             q == [p EXCEPT !.buffer = p.buffer \o k]
             b == ToolMove[<<q, z>>]
  <2>1. /\ k \in Texts /\ z \in Texts
        /\ n = 0 => /\ l = 0 /\ Clean(x \o y, tag) = k \o Clean(z, tag)
                    /\ Carry(x \o y, tag) = Carry(z, tag)
        /\ n # 0 => /\ l # 0 /\ Before(x \o y, l) = k \o Before(z, n)
                    /\ From(x \o y, l + Len(tag)) = From(z, n + Len(tag))
    BY <1>1, <1>4, TagComes
  <2>2. a = Result([p EXCEPT !.partial = c, !.buffer = p.buffer \o k], <<>>, <<>>, <<>>)
    BY <1>2, <1>4
  <2>3. p \in [inside : BOOLEAN, partial : Texts, buffer : Texts, next : Nat]
    BY DEF AnyParser, Parsers, Texts
  <2>4. /\ a.rest = <<>> /\ a.p.partial = c /\ Cleared(a.p) = q /\ a.text = <<>>
        /\ a.calls = <<>>
    <3>1. /\ a.p = [p EXCEPT !.partial = c, !.buffer = p.buffer \o k] /\ a.rest = <<>>
          /\ a.text = <<>> /\ a.calls = <<>>
      BY <2>2 DEF Result
    <3> HIDE DEF a
    <3>2. [p EXCEPT !.partial = c, !.buffer = p.buffer \o k].partial = c
      BY <2>3
    <3>3. Cleared([p EXCEPT !.partial = c, !.buffer = p.buffer \o k]) = q
      BY <2>3 DEF Cleared
    <3> QED BY <3>1, <3>2, <3>3
  <2>5. q \in AnyParser /\ q.inside /\ q.buffer = p.buffer \o k
    <3>1. p.buffer \o k \in Texts
      BY <2>1, <2>3, Joined
    <3> HIDE DEF k
    <3> QED BY <2>3, <3>1 DEF AnyParser, Parsers, Texts
  <2>6. ASSUME NEW w \in Texts PROVE (p.buffer \o k) \o w = p.buffer \o (k \o w)
    <3>1. p.buffer \in Texts /\ k \in Texts
      BY <2>1, <2>3
    <3>2. \A u, v \in Texts : (u \o v) \o w = u \o (v \o w)
      BY ConcatAssociative DEF Texts
    <3> HIDE DEF k
    <3> QED BY <3>1, <3>2, Zenon
  <2> HIDE DEF a, k, z, n, l
  <2>7. ToolMove[<<p, x \o y>>] = b
    <3>1. CASE n = 0
      <4>1. b = Result([q EXCEPT !.partial = Carry(z, tag),
                                 !.buffer = @ \o Clean(z, tag)], <<>>, <<>>, <<>>)
        BY <1>2, <2>1, <2>5, <3>1 DEF n
      <4>2. ToolMove[<<p, x \o y>>] =
               Result([p EXCEPT !.partial = Carry(z, tag),
                                !.buffer = @ \o (k \o Clean(z, tag))], <<>>, <<>>, <<>>)
        BY <1>1, <1>2, <2>1, <3>1 DEF l
      <4>3. Clean(z, tag) \in Texts
        BY <1>1, <2>1, CleanPart
      <4>4. [q EXCEPT !.partial = Carry(z, tag), !.buffer = @ \o Clean(z, tag)] =
               [p EXCEPT !.partial = Carry(z, tag), !.buffer = @ \o (k \o Clean(z, tag))]
        BY <2>3, <2>6, <4>3
      <4> QED BY <4>1, <4>2, <4>4
    <3>2. CASE n # 0
      <4> DEFINE f == Before(z, n)
                 rest == From(z, n + Len(tag))
      <4>1. b = ToolClosed(q, (p.buffer \o k) \o f, rest)
        <5>1. Index(z, tag) # 0
          BY <3>2 DEF n
        <5>2. ToolMove[<<q, z>>] =
                 ToolClosed(q, q.buffer \o Before(z, Index(z, tag)),
                            From(z, Index(z, tag) + Len(tag)))
          <6> HIDE DEF q
          <6> QED BY <1>2, <2>1, <2>5, <5>1
        <5> QED BY <2>5, <5>2 DEF n
      <4>2. ToolMove[<<p, x \o y>>] = ToolClosed(p, p.buffer \o (k \o f), rest)
        BY <1>1, <1>2, <2>1, <3>2 DEF l
      <4>3. f \in Texts
        <5>1. n \in 1 .. Len(z) + 1
          <6>1. Len(z) \in Nat /\ n \in 1 .. Len(z)
            BY <1>1, <2>1, <3>2, AfterTag, LenProperties DEF n, Texts
          <6> QED BY <6>1
        <5> QED BY <2>1, <5>1, PartsOf
      <4>4. (p.buffer \o k) \o f = p.buffer \o (k \o f)
        BY <2>6, <4>3
      <4>5. ToolClosed(q, (p.buffer \o k) \o f, rest) = ToolClosed(p, (p.buffer \o k) \o f, rest)
        <5>1. \A raw, r, u : ToolClosed([p EXCEPT !.buffer = u], raw, r) = ToolClosed(p, raw, r)
          BY ClosedParts
        <5> HIDE DEF f, rest
        <5> QED BY <5>1
      <4> QED BY <4>1, <4>2, <4>4, <4>5
    <3> QED BY <3>1, <3>2
  <2>8. b \in AnyResult
    BY <2>1, <2>5, ToolMoves DEF Moves
  <2> HIDE DEF b, q
  <2>9. Then(a, b) = b
    <3>1. /\ <<>> \o b.text = b.text /\ <<>> \o b.calls = b.calls
          /\ b = Result(b.p, b.text, b.calls, b.rest)
      <4>1. b.text \in Texts /\ b.calls \in Calls(STRING)
            /\ b = Result(b.p, b.text, b.calls, b.rest)
        BY <2>8, ResultParts
      <4> QED BY <4>1, JoinLaws
    <3>2. Then(a, b) = Result(b.p, <<>> \o b.text, <<>> \o b.calls, b.rest)
      BY <2>4 DEF Then
    <3> QED BY <3>1, <3>2
  <2> QED BY <2>4, <2>7, <2>9 DEF Unfound, a, b, z
<1> QED BY <1>3, <1>4

\* and outside.
LEMMA ToolTextLocal ==
    ASSUME NEW p \in AnyParser, p.partial = <<>>, ~p.inside,
           NEW x \in Texts, NEW y \in Texts, x # <<>>, y # <<>>
    PROVE  Found(ToolMove, p, x, y) \/ Unfound(ToolMove, p, x, y)
<1> DEFINE tag == StartTag(ToolTag)
           start == Index(x, tag)
           opened == [p EXCEPT !.inside = TRUE]
           a == ToolMove[<<p, x>>]
<1>1. tag \in Tags /\ x \o y \in Texts
  BY TagsOfText, Joined
<1>2. ASSUME NEW w \in Texts
      PROVE  /\ Index(w, tag) = 0 =>
                   ToolMove[<<p, w>>] =
                      Result([p EXCEPT !.partial = Carry(w, tag)], Clean(w, tag), <<>>, <<>>)
             /\ Index(w, tag) # 0 =>
                   ToolMove[<<p, w>>] =
                      Result(opened, Before(w, Index(w, tag)), <<>>,
                             From(w, Index(w, tag) + Len(tag)))
  <2>1. ToolMove[<<p, w>>] = ToolText(p, w)
    BY ToolMoves DEF ToolStep
  <2> QED BY <2>1 DEF ToolText
<1>3. CASE start # 0
  <2>1. /\ Index(x \o y, tag) = start /\ Before(x \o y, start) = Before(x, start)
        /\ From(x \o y, start + Len(tag)) = From(x, start + Len(tag)) \o y
    BY <1>1, <1>3, TagFound
  <2>2. a = Result(opened, Before(x, start), <<>>, From(x, start + Len(tag)))
    BY <1>2, <1>3
  <2>3. ToolMove[<<p, x \o y>>] =
           Result(opened, Before(x, start), <<>>, From(x, start + Len(tag)) \o y)
    BY <1>1, <1>2, <1>3, <2>1
  <2>4. opened.partial = <<>>
    BY DEF AnyParser, Parsers
  <2> HIDE DEF a, opened
  <2>5. a.p.partial = <<>> /\ ToolMove[<<p, x \o y>>] = Longer(a, y)
    BY <2>2, <2>3, <2>4 DEF Longer, Result
  <2> QED BY <2>5 DEF Found, a
<1>4. CASE start = 0
  <2> DEFINE c == Carry(x, tag)
             k == Clean(x, tag)
             z == c \o y
             n == Index(z, tag)
             l == Index(x \o y, tag)
             b == ToolMove[<<p, z>>]
  <2>1. /\ k \in Texts /\ z \in Texts
        /\ n = 0 => /\ l = 0 /\ Clean(x \o y, tag) = k \o Clean(z, tag)
                    /\ Carry(x \o y, tag) = Carry(z, tag)
        /\ n # 0 => /\ l # 0 /\ Before(x \o y, l) = k \o Before(z, n)
                    /\ From(x \o y, l + Len(tag)) = From(z, n + Len(tag))
    BY <1>1, <1>4, TagComes
  <2>2. a = Result([p EXCEPT !.partial = c], k, <<>>, <<>>)
    BY <1>2, <1>4
  <2>3. a.rest = <<>> /\ a.p.partial = c /\ Cleared(a.p) = p /\ a.text = k
        /\ a.calls = <<>>
    <3> HIDE DEF a
    <3> QED BY <2>2, KeptParts
  <2> HIDE DEF a, z, k, n, l, opened
  <2>4. ToolMove[<<p, x \o y>>] = Result(b.p, k \o b.text, b.calls, b.rest) /\ b.calls = <<>>
    <3>1. CASE n = 0
      <4>1. b = Result([p EXCEPT !.partial = Carry(z, tag)], Clean(z, tag), <<>>, <<>>)
        BY <1>2, <2>1, <3>1 DEF n
      <4>2. ToolMove[<<p, x \o y>>] =
               Result([p EXCEPT !.partial = Carry(z, tag)], k \o Clean(z, tag), <<>>, <<>>)
        BY <1>1, <1>2, <2>1, <3>1 DEF l
      <4> QED BY <4>1, <4>2 DEF Result
    <3>2. CASE n # 0
      <4>1. b = Result(opened, Before(z, n), <<>>, From(z, n + Len(tag)))
        BY <1>2, <2>1, <3>2 DEF n
      <4>2. ToolMove[<<p, x \o y>>] =
               Result(opened, k \o Before(z, n), <<>>, From(z, n + Len(tag)))
        BY <1>1, <1>2, <2>1, <3>2 DEF l
      <4> QED BY <4>1, <4>2 DEF Result
    <3> QED BY <3>1, <3>2
  <2>5. Then(a, b) = Result(b.p, k \o b.text, b.calls, b.rest)
    BY <2>3, <2>4 DEF Then, Result
  <2> QED BY <2>3, <2>4, <2>5 DEF Unfound, a, z
<1> QED BY <1>3, <1>4

\* So its loop goes on where it was.
LEMMA ToolLocal == Local(ToolMove)
<1> SUFFICES ASSUME NEW p \in AnyParser, p.partial = <<>>,
                    NEW x \in Texts, NEW y \in Texts, x # <<>>, y # <<>>
             PROVE  Found(ToolMove, p, x, y) \/ Unfound(ToolMove, p, x, y)
  BY DEF Local
<1>1. CASE p.inside
  BY <1>1, ToolInsideLocal
<1>2. CASE ~p.inside
  BY <1>2, ToolTextLocal
<1> QED BY <1>1, <1>2

\* Consume runs the loop of dropTagParser to its end.
LEMMA DropConsumed ==
    ASSUME NEW p \in AnyParser, NEW chunk \in Texts
    PROVE  /\ Consume(DropStep, p, chunk) \in AnyResult
           /\ Consumed(DropMove, p, chunk, Consume(DropStep, p, chunk))
<1> DEFINE data == p.partial \o chunk
           N == Len(data) + 1
           e == Begin(p, chunk)
           G == Turn(DropMove)
           run == CHOOSE g : g = [n \in 0 .. N |->
                                    IF n = 0 THEN e ELSE More(DropStep, g[n - 1])]
<1>1. /\ e \in AnyResult /\ N \in Nat /\ e.rest = data
      /\ Result(p, <<>>, <<>>, <<>>) \in AnyResult
  <2>1. e \in AnyResult /\ e.rest = data
    BY LoopTypes DEF Begin, Result
  <2>2. data \in Seq(STRING) /\ Result(p, <<>>, <<>>, <<>>) \in AnyResult
    BY LoopStart DEF AnyParser, AnyResult, Texts
  <2> HIDE DEF data, e
  <2> QED BY <2>1, <2>2, LenProperties
<1>2. ASSUME NEW r \in AnyResult PROVE G[r] = More(DropStep, r)
  <2>1. r.p \in AnyParser /\ r.rest \in Texts
    BY ResultParts
  <2>2. DropMove[<<r.p, r.rest>>] = DropStep(r.p, r.rest)
    BY <2>1, DropMoves
  <2>3. More(DropStep, r) = IF r.rest = <<>> THEN r ELSE Then(r, DropMove[<<r.p, r.rest>>])
    BY <2>2 DEF More
  <2> QED BY <2>3 DEF Turn
<1>3. /\ chunk = <<>> => Consume(DropStep, p, chunk) = Result(p, <<>>, <<>>, <<>>)
      /\ chunk # <<>> => Consume(DropStep, p, chunk) = run[N]
  BY DEF Consume, Begin, Cleared
<1> HIDE DEF N, e, run, data
<1>4. G \in Steps(AnyResult)
  BY DropMoves, TurnType
<1> HIDE DEF G
<1>5. \E g : g = [n \in 0 .. N |-> IF n = 0 THEN e ELSE More(DropStep, g[n - 1])]
  <2>1. PICK g : Run(g, N, AnyResult, e, G)
    BY <1>1, <1>4, Iteration, Zenon
  <2>2. \A n \in 0 .. N : n # 0 => G[g[n - 1]] = More(DropStep, g[n - 1])
    <3>1. \A n \in 0 .. N : n # 0 => g[n - 1] \in AnyResult
      BY <1>1, <2>1 DEF Run
    <3> QED BY <1>2, <3>1
  <2>3. g = [n \in 0 .. N |-> IF n = 0 THEN e ELSE More(DropStep, g[n - 1])]
    BY <1>1, <2>1, <2>2 DEF Run
  <2> QED BY <2>3
<1>6. run = [n \in 0 .. N |-> IF n = 0 THEN e ELSE More(DropStep, run[n - 1])]
  BY <1>5 DEF run
<1>7. run[0] = e /\ \A n \in 1 .. N : run[n] = More(DropStep, run[n - 1])
  BY <1>1, <1>6
<1>8. \A n \in 0 .. N : run[n] \in AnyResult
  <2>1. ASSUME NEW n \in 1 .. N, run[n - 1] \in AnyResult PROVE run[n] \in AnyResult
    <3>1. run[n] = G[run[n - 1]]
      BY <1>2, <1>7, <2>1
    <3> QED BY <1>4, <2>1, <3>1 DEF Steps
  <2> DEFINE S == AnyResult
  <2>2. run[0] \in S /\ \A n \in 1 .. N : run[n - 1] \in S => run[n] \in S
    BY <1>1, <1>7, <2>1
  <2> HIDE DEF S
  <2>3. \A n \in 0 .. N : run[n] \in S
    BY <1>1, <2>2, Loop
  <2> QED BY <2>3 DEF S
<1>9. Run(run, N, AnyResult, e, G)
  <2>1. \A n \in 1 .. N : run[n] = G[run[n - 1]]
    <3> SUFFICES ASSUME NEW n \in 1 .. N PROVE run[n] = G[run[n - 1]]
      OBVIOUS
    <3>1. n - 1 \in 0 .. N
      BY <1>1
    <3> QED BY <1>2, <1>7, <1>8, <3>1
  <2>2. run \in [0 .. N -> AnyResult]
    BY <1>6, <1>8
  <2> QED BY <1>7, <2>1, <2>2 DEF Run
<1>10. run[N] \in AnyResult /\ Ends(DropMove, e, run[N])
  <2>1. DropMove \in Moves /\ N = Len(e.rest) + 1
    BY <1>1, DropMoves DEF N
  <2> QED BY <1>1, <1>9, <2>1, RunEnds DEF G
<1> QED BY <1>1, <1>3, <1>10 DEF Consumed, e

\* And that of toolUsageCardParser.
LEMMA CardConsumed ==
    ASSUME NEW p \in AnyParser, NEW chunk \in Texts
    PROVE  /\ Consume(CardStep, p, chunk) \in AnyResult
           /\ Consumed(CardMove, p, chunk, Consume(CardStep, p, chunk))
<1> DEFINE data == p.partial \o chunk
           N == Len(data) + 1
           e == Begin(p, chunk)
           G == Turn(CardMove)
           run == CHOOSE g : g = [n \in 0 .. N |->
                                    IF n = 0 THEN e ELSE More(CardStep, g[n - 1])]
<1>1. /\ e \in AnyResult /\ N \in Nat /\ e.rest = data
      /\ Result(p, <<>>, <<>>, <<>>) \in AnyResult
  <2>1. e \in AnyResult /\ e.rest = data
    BY LoopTypes DEF Begin, Result
  <2>2. data \in Seq(STRING) /\ Result(p, <<>>, <<>>, <<>>) \in AnyResult
    BY LoopStart DEF AnyParser, AnyResult, Texts
  <2> HIDE DEF data, e
  <2> QED BY <2>1, <2>2, LenProperties
<1>2. ASSUME NEW r \in AnyResult PROVE G[r] = More(CardStep, r)
  <2>1. r.p \in AnyParser /\ r.rest \in Texts
    BY ResultParts
  <2>2. CardMove[<<r.p, r.rest>>] = CardStep(r.p, r.rest)
    BY <2>1, CardMoves
  <2>3. More(CardStep, r) = IF r.rest = <<>> THEN r ELSE Then(r, CardMove[<<r.p, r.rest>>])
    BY <2>2 DEF More
  <2> QED BY <2>3 DEF Turn
<1>3. /\ chunk = <<>> => Consume(CardStep, p, chunk) = Result(p, <<>>, <<>>, <<>>)
      /\ chunk # <<>> => Consume(CardStep, p, chunk) = run[N]
  BY DEF Consume, Begin, Cleared
<1> HIDE DEF N, e, run, data
<1>4. G \in Steps(AnyResult)
  BY CardMoves, TurnType
<1> HIDE DEF G
<1>5. \E g : g = [n \in 0 .. N |-> IF n = 0 THEN e ELSE More(CardStep, g[n - 1])]
  <2>1. PICK g : Run(g, N, AnyResult, e, G)
    BY <1>1, <1>4, Iteration, Zenon
  <2>2. \A n \in 0 .. N : n # 0 => G[g[n - 1]] = More(CardStep, g[n - 1])
    <3>1. \A n \in 0 .. N : n # 0 => g[n - 1] \in AnyResult
      BY <1>1, <2>1 DEF Run
    <3> QED BY <1>2, <3>1
  <2>3. g = [n \in 0 .. N |-> IF n = 0 THEN e ELSE More(CardStep, g[n - 1])]
    BY <1>1, <2>1, <2>2 DEF Run
  <2> QED BY <2>3
<1>6. run = [n \in 0 .. N |-> IF n = 0 THEN e ELSE More(CardStep, run[n - 1])]
  BY <1>5 DEF run
<1>7. run[0] = e /\ \A n \in 1 .. N : run[n] = More(CardStep, run[n - 1])
  BY <1>1, <1>6
<1>8. \A n \in 0 .. N : run[n] \in AnyResult
  <2>1. ASSUME NEW n \in 1 .. N, run[n - 1] \in AnyResult PROVE run[n] \in AnyResult
    <3>1. run[n] = G[run[n - 1]]
      BY <1>2, <1>7, <2>1
    <3> QED BY <1>4, <2>1, <3>1 DEF Steps
  <2> DEFINE S == AnyResult
  <2>2. run[0] \in S /\ \A n \in 1 .. N : run[n - 1] \in S => run[n] \in S
    BY <1>1, <1>7, <2>1
  <2> HIDE DEF S
  <2>3. \A n \in 0 .. N : run[n] \in S
    BY <1>1, <2>2, Loop
  <2> QED BY <2>3 DEF S
<1>9. Run(run, N, AnyResult, e, G)
  <2>1. \A n \in 1 .. N : run[n] = G[run[n - 1]]
    <3> SUFFICES ASSUME NEW n \in 1 .. N PROVE run[n] = G[run[n - 1]]
      OBVIOUS
    <3>1. n - 1 \in 0 .. N
      BY <1>1
    <3> QED BY <1>2, <1>7, <1>8, <3>1
  <2>2. run \in [0 .. N -> AnyResult]
    BY <1>6, <1>8
  <2> QED BY <1>7, <2>1, <2>2 DEF Run
<1>10. run[N] \in AnyResult /\ Ends(CardMove, e, run[N])
  <2>1. CardMove \in Moves /\ N = Len(e.rest) + 1
    BY <1>1, CardMoves DEF N
  <2> QED BY <1>1, <1>9, <2>1, RunEnds DEF G
<1> QED BY <1>1, <1>3, <1>10 DEF Consumed, e

\* And Push that of streamToolCallParser.
LEMMA ToolConsumed ==
    ASSUME NEW p \in AnyParser, NEW chunk \in Texts
    PROVE  /\ Consume(ToolStep, p, chunk) \in AnyResult
           /\ Consumed(ToolMove, p, chunk, Consume(ToolStep, p, chunk))
<1> DEFINE data == p.partial \o chunk
           N == Len(data) + 1
           e == Begin(p, chunk)
           G == Turn(ToolMove)
           run == CHOOSE g : g = [n \in 0 .. N |->
                                    IF n = 0 THEN e ELSE More(ToolStep, g[n - 1])]
<1>1. /\ e \in AnyResult /\ N \in Nat /\ e.rest = data
      /\ Result(p, <<>>, <<>>, <<>>) \in AnyResult
  <2>1. e \in AnyResult /\ e.rest = data
    BY LoopTypes DEF Begin, Result
  <2>2. data \in Seq(STRING) /\ Result(p, <<>>, <<>>, <<>>) \in AnyResult
    BY LoopStart DEF AnyParser, AnyResult, Texts
  <2> HIDE DEF data, e
  <2> QED BY <2>1, <2>2, LenProperties
<1>2. ASSUME NEW r \in AnyResult PROVE G[r] = More(ToolStep, r)
  <2>1. r.p \in AnyParser /\ r.rest \in Texts
    BY ResultParts
  <2>2. ToolMove[<<r.p, r.rest>>] = ToolStep(r.p, r.rest)
    BY <2>1, ToolMoves
  <2>3. More(ToolStep, r) = IF r.rest = <<>> THEN r ELSE Then(r, ToolMove[<<r.p, r.rest>>])
    BY <2>2 DEF More
  <2> QED BY <2>3 DEF Turn
<1>3. /\ chunk = <<>> => Consume(ToolStep, p, chunk) = Result(p, <<>>, <<>>, <<>>)
      /\ chunk # <<>> => Consume(ToolStep, p, chunk) = run[N]
  BY DEF Consume, Begin, Cleared
<1> HIDE DEF N, e, run, data
<1>4. G \in Steps(AnyResult)
  BY ToolMoves, TurnType
<1> HIDE DEF G
<1>5. \E g : g = [n \in 0 .. N |-> IF n = 0 THEN e ELSE More(ToolStep, g[n - 1])]
  <2>1. PICK g : Run(g, N, AnyResult, e, G)
    BY <1>1, <1>4, Iteration, Zenon
  <2>2. \A n \in 0 .. N : n # 0 => G[g[n - 1]] = More(ToolStep, g[n - 1])
    <3>1. \A n \in 0 .. N : n # 0 => g[n - 1] \in AnyResult
      BY <1>1, <2>1 DEF Run
    <3> QED BY <1>2, <3>1
  <2>3. g = [n \in 0 .. N |-> IF n = 0 THEN e ELSE More(ToolStep, g[n - 1])]
    BY <1>1, <2>1, <2>2 DEF Run
  <2> QED BY <2>3
<1>6. run = [n \in 0 .. N |-> IF n = 0 THEN e ELSE More(ToolStep, run[n - 1])]
  BY <1>5 DEF run
<1>7. run[0] = e /\ \A n \in 1 .. N : run[n] = More(ToolStep, run[n - 1])
  BY <1>1, <1>6
<1>8. \A n \in 0 .. N : run[n] \in AnyResult
  <2>1. ASSUME NEW n \in 1 .. N, run[n - 1] \in AnyResult PROVE run[n] \in AnyResult
    <3>1. run[n] = G[run[n - 1]]
      BY <1>2, <1>7, <2>1
    <3> QED BY <1>4, <2>1, <3>1 DEF Steps
  <2> DEFINE S == AnyResult
  <2>2. run[0] \in S /\ \A n \in 1 .. N : run[n - 1] \in S => run[n] \in S
    BY <1>1, <1>7, <2>1
  <2> HIDE DEF S
  <2>3. \A n \in 0 .. N : run[n] \in S
    BY <1>1, <2>2, Loop
  <2> QED BY <2>3 DEF S
<1>9. Run(run, N, AnyResult, e, G)
  <2>1. \A n \in 1 .. N : run[n] = G[run[n - 1]]
    <3> SUFFICES ASSUME NEW n \in 1 .. N PROVE run[n] = G[run[n - 1]]
      OBVIOUS
    <3>1. n - 1 \in 0 .. N
      BY <1>1
    <3> QED BY <1>2, <1>7, <1>8, <3>1
  <2>2. run \in [0 .. N -> AnyResult]
    BY <1>6, <1>8
  <2> QED BY <1>7, <2>1, <2>2 DEF Run
<1>10. run[N] \in AnyResult /\ Ends(ToolMove, e, run[N])
  <2>1. ToolMove \in Moves /\ N = Len(e.rest) + 1
    BY <1>1, ToolMoves DEF N
  <2> QED BY <1>1, <1>9, <2>1, RunEnds DEF G
<1> QED BY <1>1, <1>3, <1>10 DEF Consumed, e

\* dropTagParser makes the same of a text however it is cut.
LEMMA DropSplit ==
    ASSUME NEW p \in AnyParser, NEW x \in Texts, NEW y \in Texts
    PROVE  LET a == Consume(DropStep, p, x)
           IN  Consume(DropStep, p, x \o y) = Then(a, Consume(DropStep, a.p, y))
<1> DEFINE a == Consume(DropStep, p, x)
           b == Consume(DropStep, a.p, y)
           d == Consume(DropStep, p, x \o y)
<1>1. a \in AnyResult /\ Consumed(DropMove, p, x, a)
  BY DropConsumed
<1>2. a.p \in AnyParser /\ x \o y \in Texts
  <2> HIDE DEF a
  <2> QED BY <1>1, ResultParts, Joined
<1>3. b \in AnyResult /\ Consumed(DropMove, a.p, y, b)
  BY <1>2, DropConsumed
<1>4. d \in AnyResult /\ Consumed(DropMove, p, x \o y, d)
  BY <1>2, DropConsumed
<1> HIDE DEF a, b, d
<1>5. d = Then(a, b)
  BY <1>1, <1>3, <1>4, DropMoves, DropLocal, ConsumedSplit
<1> QED BY <1>5 DEF a, b, d

\* So does streamToolCallParser.
LEMMA ToolSplit ==
    ASSUME NEW p \in AnyParser, NEW x \in Texts, NEW y \in Texts
    PROVE  LET a == Consume(ToolStep, p, x)
           IN  Consume(ToolStep, p, x \o y) = Then(a, Consume(ToolStep, a.p, y))
<1> DEFINE a == Consume(ToolStep, p, x)
           b == Consume(ToolStep, a.p, y)
           d == Consume(ToolStep, p, x \o y)
<1>1. a \in AnyResult /\ Consumed(ToolMove, p, x, a)
  BY ToolConsumed
<1>2. a.p \in AnyParser /\ x \o y \in Texts
  <2> HIDE DEF a
  <2> QED BY <1>1, ResultParts, Joined
<1>3. b \in AnyResult /\ Consumed(ToolMove, a.p, y, b)
  BY <1>2, ToolConsumed
<1>4. d \in AnyResult /\ Consumed(ToolMove, p, x \o y, d)
  BY <1>2, ToolConsumed
<1> HIDE DEF a, b, d
<1>5. d = Then(a, b)
  BY <1>1, <1>3, <1>4, ToolMoves, ToolLocal, ConsumedSplit
<1> QED BY <1>5 DEF a, b, d

\* Texts can be put together in any order.
LEMMA Associate == \A x, y, z \in Texts : (x \o y) \o z = x \o (y \o z)
BY ConcatAssociative DEF Texts

\* A step whose text, and rest, only get longer, as a step of its own.
LEMMA Continues ==
    ASSUME NEW F \in Moves, NEW p \in AnyParser, NEW x \in Texts, NEW y \in Texts,
           NEW a, NEW b \in AnyResult, a.rest = <<>>,
           b = F[<<Cleared(a.p), a.p.partial \o y>>],
           a.text \in Texts, a.calls = <<>>,
           F[<<p, x \o y>>] = Result(b.p, a.text \o b.text, b.calls, b.rest),
           a = F[<<p, x>>]
    PROVE  Unfound(F, p, x, y)
<1>1. <<>> \o b.calls = b.calls
  <2>1. b.calls \in Calls(STRING)
    BY ResultParts
  <2> QED BY <2>1, JoinLaws
<1>2. Then(a, b) = Result(b.p, a.text \o b.text, b.calls, b.rest)
  BY <1>1 DEF Then
<1> QED BY <1>2 DEF Unfound

\* A card's line is text.
LEMMA LineOfText == \A raw \in Texts : CardLine(raw) \in Texts
BY CardLineType, TagsOfText DEF Texts

\* toolUsageCardParser does one or the other with every text, inside a card.
LEMMA CardInsideLocal ==
    ASSUME NEW p \in AnyParser, p.partial = <<>>, p.inside,
           NEW x \in Texts, NEW y \in Texts, x # <<>>, y # <<>>
    PROVE  Found(CardMove, p, x, y) \/ Unfound(CardMove, p, x, y)
<1> DEFINE tag == EndTag(CardTag)
           end == Index(x, tag)
           closed == [p EXCEPT !.inside = FALSE, !.buffer = <<>>]
           line == CardLine(p.buffer \o Before(x, end + Len(tag)))
           a == CardMove[<<p, x>>]
<1>1. tag \in Tags /\ x \o y \in Texts
  BY TagsOfText, Joined
<1>2. ASSUME NEW q \in AnyParser, q.inside, NEW w \in Texts
      PROVE  /\ Index(w, tag) = 0 =>
                   CardMove[<<q, w>>] =
                      Result([q EXCEPT !.partial = Carry(w, tag),
                                       !.buffer = @ \o Clean(w, tag)], <<>>, <<>>, <<>>)
             /\ Index(w, tag) # 0 =>
                   CardMove[<<q, w>>] =
                      Result([q EXCEPT !.inside = FALSE, !.buffer = <<>>],
                             CardLine(q.buffer \o Before(w, Index(w, tag) + Len(tag))),
                             <<>>, From(w, Index(w, tag) + Len(tag)))
  <2>1. CardMove[<<q, w>>] = CardInside(q, w)
    BY <1>2, CardMoves DEF CardStep
  <2> QED BY <2>1 DEF CardInside
<1>3. p \in [inside : BOOLEAN, partial : Texts, buffer : Texts, next : Nat]
  BY DEF AnyParser, Parsers, Texts
<1>4. CASE end # 0
  <2> DEFINE rest == From(x, end + Len(tag))
  <2>1. /\ Index(x \o y, tag) = end /\ From(x \o y, end + Len(tag)) = rest \o y
        /\ Before(x \o y, end + Len(tag)) = Before(x, end + Len(tag))
    BY <1>1, <1>4, TagFound
  <2>2. a = Result(closed, line, <<>>, rest)
    BY <1>2, <1>4
  <2>3. CardMove[<<p, x \o y>>] = Result(closed, line, <<>>, rest \o y)
    BY <1>1, <1>2, <1>4, <2>1
  <2>4. closed.partial = <<>>
    BY <1>3
  <2> HIDE DEF a, closed, rest, line
  <2>5. a.p.partial = <<>> /\ CardMove[<<p, x \o y>>] = Longer(a, y)
    BY <2>2, <2>3, <2>4 DEF Longer, Result
  <2> QED BY <2>5 DEF Found, a
<1>5. CASE end = 0
  <2> DEFINE c == Carry(x, tag)
             k == Clean(x, tag)
             z == c \o y
             n == Index(z, tag)
             l == Index(x \o y, tag)
             q == [p EXCEPT !.buffer = p.buffer \o k]
             b == CardMove[<<q, z>>]
  <2>1. /\ k \in Texts /\ z \in Texts
        /\ n = 0 => /\ l = 0 /\ Clean(x \o y, tag) = k \o Clean(z, tag)
                    /\ Carry(x \o y, tag) = Carry(z, tag)
        /\ n # 0 => /\ l # 0 /\ From(x \o y, l + Len(tag)) = From(z, n + Len(tag))
                    /\ Before(x \o y, l + Len(tag)) = k \o Before(z, n + Len(tag))
    BY <1>1, <1>5, TagComes
  <2>2. a = Result([p EXCEPT !.partial = c, !.buffer = p.buffer \o k], <<>>, <<>>, <<>>)
    BY <1>2, <1>5
  <2>3. /\ a.rest = <<>> /\ a.p.partial = c /\ Cleared(a.p) = q /\ a.text = <<>>
        /\ a.calls = <<>>
    <3>1. /\ a.p = [p EXCEPT !.partial = c, !.buffer = p.buffer \o k] /\ a.rest = <<>>
          /\ a.text = <<>> /\ a.calls = <<>>
      BY <2>2 DEF Result
    <3> HIDE DEF a
    <3>2. [p EXCEPT !.partial = c, !.buffer = p.buffer \o k].partial = c
      BY <1>3
    <3>3. Cleared([p EXCEPT !.partial = c, !.buffer = p.buffer \o k]) = q
      BY <1>3 DEF Cleared
    <3> QED BY <3>1, <3>2, <3>3
  <2>4. q \in AnyParser /\ q.inside /\ q.buffer = p.buffer \o k
    <3>1. p.buffer \o k \in Texts
      BY <1>3, <2>1, Joined
    <3> HIDE DEF k
    <3> QED BY <1>3, <3>1 DEF AnyParser, Parsers, Texts
  <2>5. ASSUME NEW w \in Texts PROVE (p.buffer \o k) \o w = p.buffer \o (k \o w)
    <3>1. p.buffer \in Texts /\ k \in Texts
      BY <1>3, <2>1
    <3>2. \A u, v \in Texts : (u \o v) \o w = u \o (v \o w)
      BY ConcatAssociative DEF Texts
    <3> HIDE DEF k
    <3> QED BY <3>1, <3>2, Zenon
  <2> HIDE DEF a, k, z, n, l
  <2>6. CardMove[<<p, x \o y>>] = b
    <3>1. CASE n = 0
      <4>1. b = Result([q EXCEPT !.partial = Carry(z, tag),
                                 !.buffer = @ \o Clean(z, tag)], <<>>, <<>>, <<>>)
        BY <1>2, <2>1, <2>4, <3>1 DEF n
      <4>2. CardMove[<<p, x \o y>>] =
               Result([p EXCEPT !.partial = Carry(z, tag),
                                !.buffer = @ \o (k \o Clean(z, tag))], <<>>, <<>>, <<>>)
        BY <1>1, <1>2, <2>1, <3>1 DEF l
      <4>3. Clean(z, tag) \in Texts
        BY <1>1, <2>1, CleanPart
      <4>4. [q EXCEPT !.partial = Carry(z, tag), !.buffer = @ \o Clean(z, tag)] =
               [p EXCEPT !.partial = Carry(z, tag), !.buffer = @ \o (k \o Clean(z, tag))]
        BY <1>3, <2>5, <4>3
      <4> QED BY <4>1, <4>2, <4>4
    <3>2. CASE n # 0
      <4> DEFINE w == Before(z, n + Len(tag))
                 rest == From(z, n + Len(tag))
      <4>1. b = Result([q EXCEPT !.inside = FALSE, !.buffer = <<>>],
                       CardLine((p.buffer \o k) \o w), <<>>, rest)
        BY <1>2, <2>1, <2>4, <3>2 DEF n
      <4>2. CardMove[<<p, x \o y>>] =
               Result(closed, CardLine(p.buffer \o (k \o w)), <<>>, rest)
        <5>1. /\ From(x \o y, l + Len(tag)) = rest
              /\ Before(x \o y, l + Len(tag)) = k \o w
          BY <2>1, <3>2
        <5>2. CardMove[<<p, x \o y>>] =
                 Result(closed, CardLine(p.buffer \o Before(x \o y, l + Len(tag))), <<>>,
                        From(x \o y, l + Len(tag)))
          BY <1>1, <1>2, <2>1, <3>2 DEF l
        <5> QED BY <5>1, <5>2
      <4>3. [q EXCEPT !.inside = FALSE, !.buffer = <<>>] = closed
        BY <1>3
      <4>4. w \in Texts
        <5>1. n \in 1 .. Len(z) /\ n + Len(tag) \in 2 .. Len(z) + 1
          BY <1>1, <2>1, <3>2, AfterTag DEF n
        <5>2. n + Len(tag) \in 1 .. Len(z) + 1
          BY <2>1, <5>1, LenProperties DEF Texts
        <5> QED BY <2>1, <5>2, PartsOf
      <4>5. (p.buffer \o k) \o w = p.buffer \o (k \o w)
        <5> HIDE DEF w
        <5> QED BY <2>5, <4>4
      <4> HIDE DEF w, rest, b, closed, q
      <4> QED BY <4>1, <4>2, <4>3, <4>5
    <3> QED BY <3>1, <3>2
  <2>7. b \in AnyResult
    BY <2>1, <2>4, CardMoves DEF Moves
  <2> HIDE DEF q
  <2>8. CardMove[<<p, x \o y>>] = Result(b.p, a.text \o b.text, b.calls, b.rest)
    <3> HIDE DEF b
    <3>1. <<>> \o b.text = b.text /\ b = Result(b.p, b.text, b.calls, b.rest)
      <4>1. b.text \in Texts /\ b = Result(b.p, b.text, b.calls, b.rest)
        BY <2>7, ResultParts
      <4> QED BY <4>1, JoinLaws
    <3> QED BY <2>3, <2>6, <3>1
  <2>9. a.text \in Texts /\ b = CardMove[<<Cleared(a.p), a.p.partial \o y>>]
    BY <2>3 DEF z, Texts
  <2> HIDE DEF b
  <2>10. Unfound(CardMove, p, x, y)
    BY <2>3, <2>7, <2>8, <2>9, CardMoves, Continues DEF a
  <2> QED BY <2>10
<1> QED BY <1>4, <1>5

\* What toolUsageCardParser makes of a card that begins.
CardOpened(p, before, card) ==
    IF Index(card, EndTag(CardTag)) = 0
    THEN Result([p EXCEPT !.inside = TRUE, !.buffer = card], before, <<>>, <<>>)
    ELSE LET m == Index(card, EndTag(CardTag)) + Len(EndTag(CardTag))
         IN  Result(p, before \o CardLine(Before(card, m)), <<>>, From(card, m))

\* Outside, unless the text, or the longer one, ends inside the end tag of a card.
LEMMA CardTextLocal ==
    ASSUME NEW p \in AnyParser, p.partial = <<>>, ~p.inside, p.buffer = <<>>,
           NEW x \in Texts, NEW y \in Texts, x # <<>>, y # <<>>,
           ~Torn(CardMove[<<p, x>>].p)
    PROVE  \/ Found(CardMove, p, x, y) \/ Unfound(CardMove, p, x, y)
           \/ LET b == CardMove[<<p, x \o y>>] IN b.rest = <<>> /\ Torn(b.p)
<1> DEFINE tag == OpenTag(CardTag)
           endTag == EndTag(CardTag)
           start == Index(x, tag)
           card == From(x, start)
           at == Index(card, endTag)
           a == CardMove[<<p, x>>]
<1>1. tag \in Tags /\ endTag \in Tags /\ x \o y \in Texts
  BY TagsOfText, Joined DEF Texts
<1>2. ASSUME NEW w \in Texts
      PROVE  /\ Index(w, tag) = 0 =>
                   CardMove[<<p, w>>] =
                      Result([p EXCEPT !.partial = Carry(w, tag)], Clean(w, tag), <<>>, <<>>)
             /\ Index(w, tag) # 0 =>
                   CardMove[<<p, w>>] =
                      CardOpened(p, Before(w, Index(w, tag)), From(w, Index(w, tag)))
  <2>1. CardMove[<<p, w>>] = CardText(p, w)
    BY CardMoves DEF CardStep
  <2> QED BY <2>1 DEF CardText, CardOpened
<1>3. p \in [inside : BOOLEAN, partial : Texts, buffer : Texts, next : Nat]
  BY DEF AnyParser, Parsers, Texts
<1>5. CASE start = 0
  <2> DEFINE c == Carry(x, tag)
             k == Clean(x, tag)
             z == c \o y
             n == Index(z, tag)
             l == Index(x \o y, tag)
             b == CardMove[<<p, z>>]
  <2>1. /\ k \in Texts /\ z \in Texts
        /\ n = 0 => /\ l = 0 /\ Clean(x \o y, tag) = k \o Clean(z, tag)
                    /\ Carry(x \o y, tag) = Carry(z, tag)
        /\ n # 0 => /\ l # 0 /\ Before(x \o y, l) = k \o Before(z, n)
                    /\ From(x \o y, l) = From(z, n)
    BY <1>1, <1>5, TagComes
  <2>2. a = Result([p EXCEPT !.partial = c], k, <<>>, <<>>)
    BY <1>2, <1>5
  <2>3. a.rest = <<>> /\ a.p.partial = c /\ Cleared(a.p) = p /\ a.text = k
        /\ a.calls = <<>>
    <3> HIDE DEF a
    <3> QED BY <2>2, KeptParts
  <2> HIDE DEF a, z, k, n, l
  <2>4. CardMove[<<p, x \o y>>] = Result(b.p, k \o b.text, b.calls, b.rest)
    <3>1. CASE n = 0
      <4>1. b = Result([p EXCEPT !.partial = Carry(z, tag)], Clean(z, tag), <<>>, <<>>)
        BY <1>2, <2>1, <3>1 DEF n
      <4>2. CardMove[<<p, x \o y>>] =
               Result([p EXCEPT !.partial = Carry(z, tag)], k \o Clean(z, tag), <<>>, <<>>)
        BY <1>1, <1>2, <2>1, <3>1 DEF l
      <4> QED BY <4>1, <4>2 DEF Result
    <3>2. CASE n # 0
      <4> DEFINE f == Before(z, n)
                 o == From(z, n)
      <4>1. b = CardOpened(p, f, o)
        BY <1>2, <2>1, <3>2 DEF n
      <4>2. CardMove[<<p, x \o y>>] = CardOpened(p, k \o f, o)
        BY <1>1, <1>2, <2>1, <3>2 DEF l
      <4>3. f \in Texts
        <5>1. n \in 1 .. Len(z) + 1
          <6>1. Len(z) \in Nat /\ n \in 1 .. Len(z)
            BY <1>1, <2>1, <3>2, AfterTag, LenProperties DEF n, Texts
          <6> QED BY <6>1
        <5> QED BY <2>1, <5>1, PartsOf
      <4> DEFINE m == Index(o, endTag) + Len(endTag)
                 line == CardLine(Before(o, m))
      <4>4. ASSUME Index(o, endTag) # 0 PROVE (k \o f) \o line = k \o (f \o line)
        <5>1. o \in Texts
          <6>1. Len(z) \in Nat /\ n \in 1 .. Len(z)
            BY <1>1, <2>1, <3>2, AfterTag, LenProperties DEF n, Texts
          <6>2. n \in 1 .. Len(z) + 1
            BY <6>1
          <6> QED BY <2>1, <6>2, PartsOf
        <5>2. Before(o, m) \in Texts
          <6> HIDE DEF o
          <6>1. m \in 2 .. Len(o) + 1 /\ Len(o) \in Nat
            BY <1>1, <4>4, <5>1, AfterTag, LenProperties DEF Texts
          <6> HIDE DEF m
          <6>2. m \in 1 .. Len(o) + 1
            BY <6>1
          <6> QED BY <5>1, <6>2, PartsOf
        <5>3. k \in Texts /\ f \in Texts /\ line \in Texts
          <6> HIDE DEF m, o
          <6> QED BY <2>1, <4>3, <5>2, LineOfText
        <5> HIDE DEF f, line
        <5> QED BY <5>3, Associate, Zenon
      <4> HIDE DEF b, f, o
      <4>5. CASE Index(o, endTag) = 0
        BY <4>1, <4>2, <4>5 DEF CardOpened, Result
      <4>6. CASE Index(o, endTag) # 0
        BY <4>1, <4>2, <4>4, <4>6 DEF CardOpened, Result
      <4> QED BY <4>5, <4>6
    <3> QED BY <3>1, <3>2
  <2>5. b \in AnyResult
    BY <2>1, CardMoves DEF Moves
  <2>6. b = CardMove[<<Cleared(a.p), a.p.partial \o y>>]
    BY <2>3 DEF z
  <2> HIDE DEF b
  <2>7. Unfound(CardMove, p, x, y)
    BY <2>1, <2>3, <2>4, <2>5, <2>6, CardMoves, Continues DEF a
  <2> QED BY <2>7
<1>6. CASE start # 0
  <2> DEFINE before == Before(x, start)
  <2>1. /\ Index(x \o y, tag) = start /\ before \in Texts /\ card \in Texts
        /\ Before(x \o y, start) = before /\ From(x \o y, start) = card \o y
    BY <1>1, <1>6, TagFound
  <2>2. /\ a = CardOpened(p, before, card)
        /\ CardMove[<<p, x \o y>>] = CardOpened(p, before, card \o y)
    BY <1>1, <1>2, <1>6, <2>1
  <2> HIDE DEF a, tag, start, before, card
  <2>3. CASE at # 0
    <3> DEFINE m == at + Len(endTag)
               line == CardLine(Before(card, m))
    <3>1. /\ Index(card \o y, endTag) = at /\ From(card \o y, m) = From(card, m) \o y
          /\ Before(card \o y, m) = Before(card, m)
      <4>1. card \in Texts /\ endTag \in Tags /\ Index(card, endTag) # 0
        BY <1>1, <2>1, <2>3
      <4> HIDE DEF endTag
      <4> QED BY <4>1, TagFound
    <3>2. /\ a = Result(p, before \o line, <<>>, From(card, m))
          /\ CardMove[<<p, x \o y>>] =
                Result(p, before \o line, <<>>, From(card, m) \o y)
      BY <2>2, <2>3, <3>1 DEF CardOpened
    <3> HIDE DEF m, line
    <3>3. a.p.partial = <<>> /\ CardMove[<<p, x \o y>>] = Longer(a, y)
      BY <3>2 DEF Longer, Result
    <3> QED BY <3>3 DEF Found, a
  <2>4. CASE at = 0
    <3> DEFINE q == [p EXCEPT !.inside = TRUE, !.buffer = card]
               n == Index(y, endTag)
               l == Index(card \o y, endTag)
               line == CardLine(card \o Before(y, n + Len(endTag)))
               b == CardMove[<<q, y>>]
    <3>1. a = Result(q, before, <<>>, <<>>)
      BY <2>2, <2>4 DEF CardOpened
    <3>2. /\ q \in AnyParser /\ q.inside /\ q.buffer = card /\ q.partial = <<>>
          /\ Cleared(q) = q
          /\ [q EXCEPT !.inside = FALSE, !.buffer = <<>>] = p
      BY <1>3, <2>1 DEF AnyParser, Parsers, Texts, Cleared
    <3> HIDE DEF q
    <3>3. a.p = q /\ a.rest = <<>> /\ a.text = before /\ a.calls = <<>>
      BY <3>1 DEF Result
    <3>4. Carry(card, endTag) = <<>>
      BY <3>2, <3>3 DEF Torn, a
    <3>5. Clean(card, endTag) = card
      <4>1. Clean(card, endTag) \in Texts /\ card = Clean(card, endTag) \o Carry(card, endTag)
        BY <1>1, <2>1, CleanPart
      <4> QED BY <3>4, <4>1, JoinLaws
    <3>6. <<>> \o y = y
      BY JoinLaws
    <3>7. /\ n = 0 => /\ l = 0 /\ Clean(card \o y, endTag) = card \o Clean(y, endTag)
                      /\ Carry(card \o y, endTag) = Carry(y, endTag)
          /\ n # 0 => /\ l # 0 /\ From(card \o y, l + Len(endTag)) = From(y, n + Len(endTag))
                      /\ Before(card \o y, l + Len(endTag)) =
                            card \o Before(y, n + Len(endTag))
      <4> HIDE DEF endTag
      <4>1. card \in Texts /\ endTag \in Tags /\ Index(card, endTag) = 0
        BY <1>1, <2>1, <2>4
      <4> DEFINE k == Clean(card, endTag)
                 z == Carry(card, endTag) \o y
                 m == Index(z, endTag)
      <4>2. /\ m = 0 => /\ l = 0 /\ Clean(card \o y, endTag) = k \o Clean(z, endTag)
                        /\ Carry(card \o y, endTag) = Carry(z, endTag)
            /\ m # 0 => /\ l # 0
                        /\ From(card \o y, l + Len(endTag)) = From(z, m + Len(endTag))
                        /\ Before(card \o y, l + Len(endTag)) =
                              k \o Before(z, m + Len(endTag))
        BY <4>1, TagComes
      <4>3. k = card /\ z = y
        BY <3>4, <3>5, <3>6
      <4> HIDE DEF k, z
      <4> QED BY <4>2, <4>3
    <3>8. /\ n = 0 => b = Result([q EXCEPT !.partial = Carry(y, endTag),
                                          !.buffer = @ \o Clean(y, endTag)], <<>>, <<>>, <<>>)
          /\ n # 0 => b = Result(p, line, <<>>, From(y, n + Len(endTag)))
      <4>1. b = CardInside(q, y)
        BY <3>2, CardMoves DEF CardStep
      <4>2. n # 0 => CardInside(q, y) =
                        Result([q EXCEPT !.inside = FALSE, !.buffer = <<>>],
                               CardLine(q.buffer \o Before(y, n + Len(endTag))),
                               <<>>, From(y, n + Len(endTag)))
        BY DEF CardInside
      <4>3. n = 0 => CardInside(q, y) =
                        Result([q EXCEPT !.partial = Carry(y, endTag),
                                         !.buffer = @ \o Clean(y, endTag)], <<>>, <<>>, <<>>)
        BY DEF CardInside
      <4> QED BY <3>2, <4>1, <4>2, <4>3
    <3>9. b \in AnyResult /\ b = CardMove[<<Cleared(a.p), a.p.partial \o y>>]
      BY <3>2, <3>3, <3>6, CardMoves DEF Moves
    <3>10. CASE n # 0
      <4>1. CardMove[<<p, x \o y>>] =
               Result(p, before \o line, <<>>, From(y, n + Len(endTag)))
        BY <2>2, <3>7, <3>10 DEF CardOpened
      <4>2. b = Result(p, line, <<>>, From(y, n + Len(endTag)))
        BY <3>8, <3>10
      <4> HIDE DEF b, line
      <4>3. CardMove[<<p, x \o y>>] = Result(b.p, before \o b.text, b.calls, b.rest)
        BY <4>1, <4>2 DEF Result
      <4>4. Unfound(CardMove, p, x, y)
        BY <2>1, <3>3, <3>9, <4>3, CardMoves, Continues DEF a
      <4> QED BY <4>4
    <3>11. CASE n = 0
      <4> DEFINE t == [p EXCEPT !.inside = TRUE, !.buffer = card \o y]
      <4>1. CardMove[<<p, x \o y>>] = Result(t, before, <<>>, <<>>)
        BY <2>2, <3>7, <3>11 DEF CardOpened
      <4>2. t.inside /\ t.partial = <<>> /\ t.buffer = card \o y
        BY <1>3
      <4>3. CASE Carry(y, endTag) # <<>>
        <5>1. Torn(t)
          <6> HIDE DEF t
          <6> QED BY <3>7, <3>11, <4>2, <4>3 DEF Torn
        <5> HIDE DEF t
        <5> QED BY <4>1, <5>1 DEF Result
      <4>4. CASE Carry(y, endTag) = <<>>
        <5>1. Clean(y, endTag) = y
          <6>1. Clean(y, endTag) \in Texts /\ y = Clean(y, endTag) \o Carry(y, endTag)
            BY <1>1, CleanPart
          <6> QED BY <4>4, <6>1, JoinLaws
        <5>2. [q EXCEPT !.partial = <<>>, !.buffer = @ \o y] = t
          BY <1>3 DEF q
        <5>3. b = Result(t, <<>>, <<>>, <<>>)
          BY <3>8, <3>11, <4>4, <5>1, <5>2
        <5>4. before \o <<>> = before
          BY <2>1, JoinLaws
        <5> HIDE DEF t, b
        <5>5. CardMove[<<p, x \o y>>] = Result(b.p, before \o b.text, b.calls, b.rest)
          BY <4>1, <5>3, <5>4 DEF Result
        <5>6. Unfound(CardMove, p, x, y)
          BY <2>1, <3>3, <3>9, <5>5, CardMoves, Continues DEF a
        <5> QED BY <5>6
      <4> QED BY <4>3, <4>4
    <3> QED BY <3>10, <3>11
  <2> QED BY <2>3, <2>4
<1> QED BY <1>5, <1>6

\* toolUsageCardParser after symbols that came one by one: outside a card it holds
\* no more than one of them, inside no more than three, and those are the beginning
\* of an end tag.
Steady(p) ==
    /\ ~p.inside => Len(p.partial) <= 1 /\ p.buffer = <<>>
    /\ p.inside => /\ Len(p.partial) <= 3
                   /\ p.partial # <<>> => p.partial[1] = "<"
                   /\ p.partial = <<>> => Carry(p.buffer, EndTag(CardTag)) = <<>>

\* The symbols of the tags of cards.
LEMMA CardTagSymbols ==
    /\ OpenTag(CardTag)[1] = "<" /\ OpenTag(CardTag)[2] = CardTag
    /\ EndTag(CardTag)[1] = "<" /\ EndTag(CardTag)[2] = "/"
    /\ \A j \in 2 .. 4 : EndTag(CardTag)[j] # "<"
    /\ CardTag # "<" /\ CardTag # "/"
<1>1. CardTag # "<" /\ CardTag # "/"
  BY TextAssumption
<1>2. \A j \in 2 .. 4 : j = 2 \/ j = 3 \/ j = 4
  OBVIOUS
<1>3. /\ EndTag(CardTag)[1] = "<" /\ EndTag(CardTag)[2] = "/"
      /\ EndTag(CardTag)[3] = CardTag /\ EndTag(CardTag)[4] = ">"
  BY DEF EndTag
<1>4. OpenTag(CardTag)[1] = "<" /\ OpenTag(CardTag)[2] = CardTag
  BY DEF OpenTag
<1> QED BY <1>1, <1>2, <1>3, <1>4

\* The beginning of a card is not the beginning of its end.
LEMMA CardBegins ==
    ASSUME NEW x \in Texts, Len(x) <= 2, Index(x, OpenTag(CardTag)) # 0
    PROVE  LET card == From(x, Index(x, OpenTag(CardTag)))
           IN  /\ card \in Texts
               /\ Index(card, EndTag(CardTag)) = 0 /\ Carry(card, EndTag(CardTag)) = <<>>
<1> DEFINE tag == OpenTag(CardTag)
           end == EndTag(CardTag)
           start == Index(x, tag)
           card == From(x, start)
           m == SuffixPrefixLength(card, end)
<1>1. /\ tag \in Tags /\ end \in Tags /\ Len(x) \in Nat /\ Len(tag) = 2 /\ Len(end) = 4
  BY TagsOfText, TagLengths, LenProperties DEF Texts
<1>2. /\ start \in 1 .. Len(x) /\ start + Len(tag) <= Len(x) + 1 /\ Starts(x, tag, start)
  BY <1>1, AfterTag, IndexStarts
<1> HIDE DEF start
<1>3. start = 1 /\ Len(x) = 2
  BY <1>1, <1>2
<1>4. card \in Texts /\ Len(card) = 2 /\ card[1] = x[1] /\ card[2] = x[2]
  <2>1. start \in 1 .. Len(x) + 1
    BY <1>3
  <2>2. /\ card \in Texts /\ Len(card) = Len(x) + 1 - start
        /\ \A j \in 1 .. Len(x) + 1 - start : card[j] = x[start + j - 1]
    BY <2>1, PartsOf
  <2>3. 1 \in 1 .. Len(x) + 1 - start /\ 2 \in 1 .. Len(x) + 1 - start
    BY <1>3
  <2> HIDE DEF card
  <2> QED BY <1>3, <2>2, <2>3
<1>5. x[2] = CardTag
  <2>1. 2 \in 1 .. Len(tag) /\ start + 2 - 1 = 2 /\ 2 <= Len(x)
    BY <1>1, <1>3
  <2> QED BY <1>2, <2>1, CardTagSymbols DEF Starts
<1> HIDE DEF card
<1>6. Index(card, end) = 0
  <2>1. Index(card, end) # 0 => Index(card, end) + Len(end) <= Len(card) + 1
    BY <1>1, <1>4, IndexStarts
  <2>2. Index(card, end) \in Nat
    BY <1>1, <1>4, IndexStarts
  <2> HIDE DEF end
  <2> QED BY <1>1, <1>4, <2>1, <2>2
<1>7. m \in 0 .. 2 /\ (m # 0 => Starts(card, end, 3 - m))
  <2>1. m \in 0 .. Len(card) /\ (m # 0 => Starts(card, end, Len(card) + 1 - m))
    BY <1>1, <1>4, KeptStarts
  <2> HIDE DEF m
  <2> QED BY <1>4, <2>1
<1>8. m # 1
  <2> SUFFICES ASSUME m = 1 PROVE FALSE
    OBVIOUS
  <2>1. Starts(card, end, 2)
    BY <1>7
  <2>2. 1 \in 1 .. Len(end) /\ 2 + 1 - 1 = 2 /\ 2 <= Len(card)
    BY <1>1, <1>4
  <2>3. card[2] = end[1]
    BY <2>1, <2>2 DEF Starts
  <2> QED BY <1>4, <1>5, <2>3, CardTagSymbols
<1>9. m # 2
  <2> SUFFICES ASSUME m = 2 PROVE FALSE
    OBVIOUS
  <2>1. Starts(card, end, 1)
    BY <1>7
  <2>2. 2 \in 1 .. Len(end) /\ 1 + 2 - 1 = 2 /\ 2 <= Len(card)
    BY <1>1, <1>4
  <2>3. card[2] = end[2]
    BY <2>1, <2>2 DEF Starts
  <2> QED BY <1>4, <1>5, <2>3, CardTagSymbols
<1>10. m = 0
  BY <1>7, <1>8, <1>9
<1>11. Carry(card, end) = <<>>
  <2>1. Carry(card, end) \in Seq(STRING) /\ Len(Carry(card, end)) = 0
    BY <1>1, <1>4, <1>10, CleanPart DEF Texts
  <2> QED BY <2>1, EmptySeq
<1> QED BY <1>4, <1>6, <1>11 DEF card, start

\* No end tag begins where a buffer and what is added to it meet.
LEMMA NoEndAcross ==
    ASSUME NEW u \in Texts, NEW x \in Texts, x # <<>>,
           Carry(x, EndTag(CardTag)) = <<>>,
           \/ Len(x) = 1 /\ Carry(u, EndTag(CardTag)) = <<>>
           \/ x[1] = "<"
    PROVE  Carry(u \o x, EndTag(CardTag)) = <<>>
<1> DEFINE end == EndTag(CardTag)
           w == u \o x
           m == SuffixPrefixLength(w, end)
           i == (Len(u) + Len(x) + 1) - m
<1>1. end \in Tags /\ Len(end) = 4 /\ w \in Texts
      /\ Len(w) = Len(u) + Len(x) /\ Len(u) \in Nat /\ Len(x) \in Nat /\ Len(x) # 0
  BY TagsOfText, TagLengths, Joined, EmptySeq DEF Texts
<1>2. /\ m \in 0 .. Len(w) /\ m < 4 /\ (m # 0 => Starts(w, end, Len(w) + 1 - m))
      /\ Len(Carry(w, end)) = m /\ Carry(w, end) \in Seq(STRING)
  <2>1. w \in Texts /\ end \in Tags /\ Len(end) = 4
    BY <1>1
  <2> HIDE DEF w, end
  <2>2. m \in 0 .. Len(w) /\ m < 4 /\ (m # 0 => Starts(w, end, Len(w) + 1 - m))
    BY <2>1, KeptStarts
  <2>3. Len(Carry(w, end)) = m /\ Carry(w, end) \in Seq(STRING)
    BY <2>1, CleanPart DEF Texts
  <2> QED BY <2>2, <2>3
<1>3. /\ SuffixPrefixLength(x, end) = 0
      /\ \A n : Starts(x, end, n) /\ n + Len(end) > Len(x) + 1 => Len(x) + 1 - n <= 0
  <2>1. SuffixPrefixLength(x, end) = Len(Carry(x, end))
    BY <1>1, CleanPart
  <2>2. Len(<<>>) = 0
    OBVIOUS
  <2>3. SuffixPrefixLength(x, end) = 0
    BY <2>1, <2>2
  <2> QED BY <1>1, <2>3, KeptStarts
<1>4. m = 0
  <2> SUFFICES ASSUME m # 0 PROVE FALSE
    OBVIOUS
  <2>1. Starts(w, end, i) /\ i \in 1 .. Len(u) + Len(x) /\ i + 4 > Len(u) + Len(x) + 1
    <3> HIDE DEF w, m
    <3> QED BY <1>1, <1>2
  <2>2. i <= Len(u)
    <3> SUFFICES ASSUME i > Len(u) PROVE FALSE
      BY <1>1, <2>1
    <3> DEFINE n == i - Len(u)
    <3> HIDE DEF w, m, i
    <3>1. n \in 1 .. Len(x) /\ Len(u) + n = i
      BY <1>1, <2>1
    <3>2. Starts(x, end, n)
      BY <1>1, <2>1, <3>1, StartsJoined DEF w
    <3>3. n + Len(end) > Len(x) + 1
      BY <1>1, <2>1, <3>1
    <3>4. Len(x) + 1 - n <= 0
      BY <1>3, <3>2, <3>3
    <3> QED BY <1>1, <3>1, <3>4
  <2> HIDE DEF w, m, i
  <2>3. Starts(u, end, i)
    BY <1>1, <2>1, <2>2, StartsJoined DEF w
  <2>4. CASE Len(x) = 1 /\ Carry(u, end) = <<>>
    <3>1. SuffixPrefixLength(u, end) = 0
      <4>1. SuffixPrefixLength(u, end) = Len(Carry(u, end))
        BY <1>1, CleanPart
      <4>2. Len(<<>>) = 0
        OBVIOUS
      <4> QED BY <2>4, <4>1, <4>2
    <3>2. i + Len(end) > Len(u) + 1
      BY <1>1, <2>1
    <3>3. Len(u) + 1 - i <= 0
      BY <1>1, <2>3, <3>1, <3>2, KeptStarts
    <3> QED BY <1>1, <2>1, <2>2, <3>3
  <2>5. CASE x[1] = "<"
    <3> DEFINE j == (Len(u) + 2) - i
    <3>1. /\ j \in 2 .. 4 /\ j \in 1 .. Len(end) /\ i + j - 1 = Len(u) + 1
          /\ Len(u) + 1 <= Len(w)
      BY <1>1, <2>1, <2>2
    <3> HIDE DEF j
    <3>2. w[Len(u) + 1] = end[j]
      BY <2>1, <3>1 DEF Starts
    <3>3. w[Len(u) + 1] = x[1]
      <4>1. 1 \in 1 .. Len(x)
        BY <1>1
      <4> QED BY <4>1, Joined DEF w
    <3> QED BY <2>5, <3>1, <3>2, <3>3, CardTagSymbols
  <2> QED BY <2>4, <2>5
<1> QED BY <1>2, <1>4, EmptySeq

\* What is kept begins as an end tag does.
LEMMA CarryBegins ==
    ASSUME NEW x \in Texts, NEW tag \in Tags, Carry(x, tag) # <<>>
    PROVE  Carry(x, tag)[1] = tag[1]
<1> DEFINE c == Carry(x, tag)
           m == SuffixPrefixLength(x, tag)
           i == Len(x) + 1 - m
<1>1. Len(x) \in Nat /\ Len(tag) \in Nat \ {0}
  BY LenProperties DEF Tags, Texts
<1>2. c \in Seq(STRING) /\ Len(c) = m
  BY CleanPart DEF Texts
<1>3. /\ m \in 0 .. Len(x) /\ m # 0 /\ Starts(x, tag, i)
  <2>1. m # 0
    BY <1>2, EmptySeq
  <2> QED BY <2>1, KeptStarts
<1> HIDE DEF m
<1>4. /\ i \in 1 .. Len(x) /\ i \in 1 .. Len(x) + 1 /\ 1 \in 1 .. Len(x) + 1 - i
      /\ 1 \in 1 .. Len(tag) /\ i + 1 - 1 = i /\ i <= Len(x)
  BY <1>1, <1>3
<1>5. c = From(x, i)
  BY DEF Carry, m
<1> HIDE DEF i, c
<1>6. c[1] = x[i]
  BY <1>4, <1>5, PartsOf
<1>7. x[i] = tag[1]
  BY <1>3, <1>4 DEF Starts
<1> QED BY <1>6, <1>7 DEF c

\* A symbol is one step, and leaves the parser in such a state.
LEMMA SymbolStep ==
    ASSUME NEW p \in AnyParser, Steady(p), NEW s \in STRING
    PROVE  LET a == CardMove[<<Cleared(p), p.partial \o <<s>>>>]
           IN  a.rest = <<>> /\ Steady(a.p)
<1> DEFINE q == Cleared(p)
           x == p.partial \o <<s>>
           a == CardMove[<<q, x>>]
           open == OpenTag(CardTag)
           end == EndTag(CardTag)
<1>1. /\ p.partial \in Texts /\ <<s>> \in Texts /\ x \in Texts
      /\ Len(p.partial) \in Nat /\ Len(x) = Len(p.partial) + 1 /\ Len(x) \in Nat
      /\ x # <<>>
  <2>1. p.partial \in Texts /\ <<s>> \in Texts /\ Len(<<s>>) = 1
    BY ParserParts DEF Texts
  <2>2. x \in Texts /\ Len(x) = Len(p.partial) + 1 /\ Len(p.partial) \in Nat
    BY <2>1, Joined
  <2>3. Len(<<>>) = 0
    OBVIOUS
  <2> HIDE DEF x
  <2> QED BY <2>1, <2>2, <2>3
<1>2. /\ p \in [inside : BOOLEAN, partial : Texts, buffer : Texts, next : Nat]
      /\ q \in [inside : BOOLEAN, partial : Texts, buffer : Texts, next : Nat]
      /\ q \in AnyParser /\ q.partial = <<>> /\ q.inside = p.inside /\ q.buffer = p.buffer
  <2>1. p \in [inside : BOOLEAN, partial : Texts, buffer : Texts, next : Nat]
    BY DEF AnyParser, Parsers, Texts
  <2>2. <<>> \in Texts
    BY DEF Texts
  <2> QED BY <2>1, <2>2 DEF Cleared, AnyParser, Parsers, Texts
<1>3. open \in Tags /\ end \in Tags /\ Len(open) = 2 /\ Len(end) = 4
  BY TagsOfText, TagLengths
<1>4. a = CardStep(q, x)
  BY <1>1, <1>2, CardMoves
<1> HIDE DEF q, x, a
<1>5. CASE ~p.inside /\ Index(x, open) = 0
  <2>1. a = Result([q EXCEPT !.partial = Carry(x, open)], Clean(x, open), <<>>, <<>>)
    BY <1>2, <1>4, <1>5 DEF CardStep, CardText
  <2>2. a.p = [q EXCEPT !.partial = Carry(x, open)] /\ a.rest = <<>>
    BY <2>1 DEF Result
  <2>3. Len(Carry(x, open)) \in Nat /\ Len(Carry(x, open)) < 2
    BY <1>1, <1>3, CleanPart, LenProperties DEF Texts
  <2>4. ~a.p.inside /\ a.p.partial = Carry(x, open) /\ a.p.buffer = <<>>
    BY <1>2, <1>5, <2>2 DEF Steady
  <2>5. Steady(a.p)
    BY <2>3, <2>4 DEF Steady
  <2> QED BY <2>2, <2>5 DEF a, q, x
<1>6. CASE ~p.inside /\ Index(x, open) # 0
  <2> DEFINE card == From(x, Index(x, open))
  <2>1. Len(x) <= 2
    BY <1>1, <1>6 DEF Steady
  <2>2. Index(card, end) = 0 /\ Carry(card, end) = <<>>
    BY <1>1, <1>6, <2>1, CardBegins
  <2>3. a = Result([q EXCEPT !.inside = TRUE, !.buffer = card], Before(x, Index(x, open)),
                   <<>>, <<>>)
    BY <1>2, <1>4, <1>6, <2>2 DEF CardStep, CardText
  <2> HIDE DEF card
  <2>4. a.p = [q EXCEPT !.inside = TRUE, !.buffer = card] /\ a.rest = <<>>
    BY <2>3 DEF Result
  <2>5. a.p.inside /\ a.p.partial = <<>> /\ a.p.buffer = card
    BY <1>2, <2>4
  <2>6. Len(<<>>) <= 3
    OBVIOUS
  <2>7. Steady(a.p)
    BY <2>2, <2>5, <2>6 DEF Steady
  <2> QED BY <2>4, <2>7 DEF a, q, x
<1>7. CASE p.inside /\ Index(x, end) # 0
  <2> DEFINE at == Index(x, end) + Len(end)
  <2>1. Len(x) <= 4
    BY <1>1, <1>7 DEF Steady
  <2>2. at \in 2 .. Len(x) + 1 /\ Index(x, end) \in 1 .. Len(x)
    BY <1>1, <1>3, <1>7, AfterTag
  <2>3. at = Len(x) + 1 /\ at \in 1 .. Len(x) + 1
    <3> HIDE DEF end
    <3> QED BY <1>1, <1>3, <2>1, <2>2
  <2>4. a = Result([q EXCEPT !.inside = FALSE, !.buffer = <<>>],
                   CardLine(q.buffer \o Before(x, at)), <<>>, From(x, at))
    BY <1>2, <1>4, <1>7 DEF CardStep, CardInside
  <2> HIDE DEF at
  <2>5. From(x, at) = <<>>
    <3>1. From(x, at) \in Seq(STRING) /\ Len(From(x, at)) = Len(x) + 1 - at
      BY <1>1, <2>3, PartsOf DEF Texts
    <3>2. Len(x) + 1 - at = 0
      BY <1>1, <2>3
    <3>3. Len(From(x, at)) = 0
      BY <3>1, <3>2
    <3> QED BY <3>1, <3>3, EmptySeq
  <2>6. a.p = [q EXCEPT !.inside = FALSE, !.buffer = <<>>] /\ a.rest = <<>>
    BY <2>4, <2>5 DEF Result
  <2>7. ~a.p.inside /\ a.p.partial = <<>> /\ a.p.buffer = <<>>
    BY <1>2, <2>6
  <2>8. Len(<<>>) <= 1
    OBVIOUS
  <2>9. Steady(a.p)
    BY <2>7, <2>8 DEF Steady
  <2> QED BY <2>6, <2>9 DEF a, q, x
<1>8. CASE p.inside /\ Index(x, end) = 0
  <2> DEFINE c == Carry(x, end)
             k == Clean(x, end)
  <2>1. a = Result([q EXCEPT !.partial = c, !.buffer = p.buffer \o k], <<>>, <<>>, <<>>)
    BY <1>2, <1>4, <1>8 DEF CardStep, CardInside
  <2>2. /\ c \in Texts /\ k \in Texts /\ x = k \o c /\ Len(c) < 4 /\ Len(c) \in Nat
    BY <1>1, <1>3, CleanPart, LenProperties DEF Texts
  <2>3. c # <<>> => c[1] = "<"
    BY <1>1, <1>3, CarryBegins, CardTagSymbols
  <2>4. c = <<>> => Carry(p.buffer \o k, end) = <<>>
    <3> SUFFICES ASSUME c = <<>> PROVE Carry(p.buffer \o k, end) = <<>>
      OBVIOUS
    <3>1. k = x
      BY <2>2, JoinLaws
    <3>2. p.partial = <<>> => Len(x) = 1 /\ Carry(p.buffer, end) = <<>>
      <4>1. Len(<<>>) = 0
        OBVIOUS
      <4> QED BY <1>1, <1>8, <4>1 DEF Steady
    <3>3. p.partial # <<>> => x[1] = "<"
      <4> SUFFICES ASSUME p.partial # <<>> PROVE x[1] = "<"
        OBVIOUS
      <4>1. p.partial[1] = "<"
        BY <1>8 DEF Steady
      <4>2. 1 \in 1 .. Len(p.partial)
        BY <1>1, EmptySeq DEF Texts
      <4> QED BY <1>1, <4>1, <4>2, Joined DEF x
    <3>4. p.buffer \in Texts
      BY <1>2
    <3> HIDE DEF k
    <3>5. Carry(p.buffer \o x, end) = <<>>
      BY <1>1, <3>2, <3>3, <3>4, NoEndAcross
    <3> QED BY <3>1, <3>5
  <2> HIDE DEF c, k
  <2>5. a.p = [q EXCEPT !.partial = c, !.buffer = p.buffer \o k] /\ a.rest = <<>>
    BY <2>1 DEF Result
  <2>6. a.p.inside /\ a.p.partial = c /\ a.p.buffer = p.buffer \o k
    BY <1>2, <1>8, <2>5
  <2>7. Steady(a.p)
    BY <2>2, <2>3, <2>4, <2>6 DEF Steady
  <2> QED BY <2>5, <2>7 DEF a, q, x
<1>9. p.inside \in BOOLEAN
  BY <1>2
<1> QED BY <1>5, <1>6, <1>7, <1>8, <1>9

\* Nothing more changes nothing.
LEMMA ThenNothing ==
    ASSUME NEW a \in AnyResult, a.rest = <<>>
    PROVE  Then(a, Result(a.p, <<>>, <<>>, <<>>)) = a
<1>1. /\ a.text \in Texts /\ a.calls \in Calls(STRING)
      /\ a = Result(a.p, a.text, a.calls, a.rest)
  BY ResultParts
<1>2. a.text \o <<>> = a.text /\ a.calls \o <<>> = a.calls
  BY <1>1, JoinLaws
<1>3. Then(a, Result(a.p, <<>>, <<>>, <<>>)) =
         Result(a.p, a.text \o <<>>, a.calls \o <<>>, <<>>)
  BY DEF Then, Result
<1> QED BY <1>1, <1>2, <1>3

\* toolUsageCardParser makes the same of a text when its first symbol comes alone,
\* unless the text ends inside the end tag of a card.
LEMMA CardOnward ==
    ASSUME NEW p \in AnyParser, Steady(p), NEW s \in STRING, NEW y \in Texts
    PROVE  LET a == Consume(CardStep, p, <<s>>)
               d == Consume(CardStep, p, <<s>> \o y)
           IN  /\ Steady(a.p)
               /\ ~Torn(d.p) => d = Then(a, Consume(CardStep, a.p, y))
<1> DEFINE x == <<s>>
           a == Consume(CardStep, p, x)
           b == Consume(CardStep, a.p, y)
           d == Consume(CardStep, p, x \o y)
           q == Cleared(p)
           w == p.partial \o x
           r == Begin(p, x)
           m == CardMove[<<q, w>>]
           t == Turn(CardMove)[r]
           F == CardMove
<1>1. /\ x \in Texts /\ x # <<>> /\ x \o y \in Texts /\ x \o y # <<>>
      /\ p.partial \in Texts /\ w \in Texts /\ w # <<>>
  <2>1. x \in Texts /\ x # <<>> /\ p.partial \in Texts
    BY ParserParts DEF Texts
  <2> HIDE DEF x
  <2> QED BY <2>1, Joined, JoinLaws
<1>2. /\ q \in AnyParser /\ q.partial = <<>> /\ q.inside = p.inside /\ q.buffer = p.buffer
      /\ p.inside \in BOOLEAN
  <2>1. q \in AnyParser /\ q.partial = <<>> /\ p.inside \in BOOLEAN
    BY ParserParts
  <2>2. q.inside = p.inside /\ q.buffer = p.buffer
    BY DEF Cleared, AnyParser, Parsers
  <2> QED BY <2>1, <2>2
<1>3. m.rest = <<>> /\ Steady(m.p) /\ ~Torn(m.p)
  <2>1. m.rest = <<>> /\ Steady(m.p)
    BY SymbolStep
  <2> HIDE DEF m
  <2> QED BY <2>1 DEF Steady, Torn
<1>4. /\ a \in AnyResult /\ Consumed(F, p, x, a)
      /\ d \in AnyResult /\ Consumed(F, p, x \o y, d) /\ F \in Moves
  BY <1>1, CardConsumed, CardMoves
<1>5. /\ r \in AnyResult /\ r.p = q /\ r.rest = w
      /\ Ends(F, r, a) /\ Longer(r, y) = Begin(p, x \o y)
      /\ Ends(F, Longer(r, y), d)
  <2>1. r \in AnyResult /\ r.p = q /\ r.rest = w
    BY <1>1, LoopTypes DEF Begin, Result
  <2>2. Longer(r, y) = Begin(p, x \o y)
    <3>1. (p.partial \o x) \o y = p.partial \o (x \o y)
      <4> HIDE DEF x
      <4> QED BY <1>1, Associate, Zenon
    <3> QED BY <3>1 DEF Longer, Begin, Result
  <2> HIDE DEF a, d, F, x
  <2> QED BY <1>1, <1>4, <2>1, <2>2 DEF Consumed
<1> HIDE DEF r, q, w, a, b, d, x, F, t
<1>6. t \in AnyResult /\ t = Then(r, m) /\ t.p = m.p /\ t.rest = <<>> /\ Ends(F, t, a)
  <2>1. r.rest # <<>> /\ m = F[<<r.p, r.rest>>] /\ t = Turn(F)[r]
    BY <1>1, <1>5 DEF F, t
  <2> HIDE DEF m
  <2>2. t \in AnyResult /\ m \in AnyResult /\ t = Then(r, m)
    BY <1>4, <1>5, <2>1, TurnType
  <2>3. t.p = m.p /\ t.rest = <<>>
    BY <1>3, <1>5, <2>2, ThenFacts
  <2>4. Ends(F, t, a)
    BY <1>4, <1>5, <2>1, EndsNext
  <2> QED BY <2>2, <2>3, <2>4
<1>7. a = t /\ a.p = m.p /\ a.rest = <<>>
  BY <1>4, <1>6, EndsHere
<1>8. ASSUME ~Torn(d.p) PROVE d = Then(a, b)
  <2>1. CASE y = <<>>
    <3>1. x \o y = x
      BY <1>1, <2>1, JoinLaws
    <3>2. d = a
      BY <3>1 DEF a, d
    <3>3. b = Result(a.p, <<>>, <<>>, <<>>)
      BY <2>1 DEF b, Consume
    <3> QED BY <1>4, <1>7, <3>2, <3>3, ThenNothing
  <2>2. CASE y # <<>>
    <3> DEFINE e == F[<<q, w \o y>>]
    <3>1. r.rest # <<>> /\ r.p = q /\ r.rest = w /\ t = Turn(F)[r]
      BY <1>1, <1>5 DEF F, t
    <3>2. ~ (e.rest = <<>> /\ Torn(e.p))
      <4> SUFFICES ASSUME e.rest = <<>>, Torn(e.p) PROVE FALSE
        OBVIOUS
      <4> DEFINE l == Longer(r, y)
      <4>1. l \in AnyResult /\ l.p = q /\ l.rest = w \o y
        BY <1>5, LoopTypes DEF Longer, Result
      <4>2. w \o y # <<>>
        BY <1>1, JoinLaws
      <4> HIDE DEF l
      <4>3. e \in AnyResult /\ Turn(F)[l] = Then(l, e) /\ Turn(F)[l] \in AnyResult
        <5>1. l.rest # <<>> /\ F[<<l.p, l.rest>>] = e
          BY <4>1, <4>2
        <5> HIDE DEF e
        <5> QED BY <1>4, <4>1, <5>1, TurnType
      <4>4. Ends(F, Turn(F)[l], d)
        BY <1>4, <1>5, <4>1, <4>2, EndsNext DEF l
      <4> HIDE DEF e
      <4>5. Then(l, e).p = e.p /\ Then(l, e).rest = <<>>
        BY <4>1, <4>3, ThenFacts
      <4>6. d = Then(l, e)
        BY <1>4, <4>3, <4>4, <4>5, EndsHere
      <4> QED BY <1>8, <4>5, <4>6
    <3>3. Found(F, q, w, y) \/ Unfound(F, q, w, y)
      <4>1. CASE p.inside
        BY <1>1, <1>2, <2>2, <4>1, CardInsideLocal DEF F
      <4>2. CASE ~p.inside
        <5>1. q.buffer = <<>> /\ ~q.inside
          BY <1>2, <4>2 DEF Steady
        <5>2. ~Torn(CardMove[<<q, w>>].p)
          BY <1>3 DEF m
        <5>3. \/ Found(CardMove, q, w, y) \/ Unfound(CardMove, q, w, y)
              \/ e.rest = <<>> /\ Torn(e.p)
          <6> HIDE DEF m
          <6> QED BY <1>1, <1>2, <2>2, <5>1, <5>2, CardTextLocal DEF F
        <5> QED BY <3>2, <5>3 DEF F
      <4> QED BY <1>2, <4>1, <4>2
    <3>4. Ends(F, Resume(t, y), d)
      <4>1. CASE Found(F, q, w, y)
        <5>1. m.p.partial = <<>>
          BY <4>1 DEF Found, F, m
        <5>2. Ends(F, Longer(t, y), d)
          BY <1>4, <1>5, <2>2, <3>1, <4>1, LongerTurn
        <5> HIDE DEF m
        <5>3. Cleared(t.p) = t.p
          BY <1>6, <5>1, ResultParts
        <5>4. t.p.partial = <<>> /\ t.rest = <<>>
          BY <1>6, <5>1
        <5>5. Resume(t, y) = Longer(t, y)
          BY <5>3, <5>4 DEF Resume, Longer
        <5> QED BY <5>2, <5>5
      <4>2. CASE Unfound(F, q, w, y)
        BY <1>4, <1>5, <2>2, <3>1, <4>2, LongerTurn
      <4> QED BY <3>3, <4>1, <4>2
    <3>5. b \in AnyResult /\ Consumed(F, a.p, y, b)
      <4>1. a.p \in AnyParser
        BY <1>4, ResultParts
      <4> QED BY <4>1, CardConsumed DEF b, F
    <3> QED BY <1>4, <1>7, <2>2, <3>4, <3>5, Resumed
  <2> QED BY <2>1, <2>2
<1>9. Steady(a.p)
  BY <1>3, <1>7
<1> QED BY <1>8, <1>9 DEF a, b, d, x

AnyFilter == Filters(STRING)
AnyEvent  == Events(STRING, STRING)

\* What the flow keeps between two lines and what it has forwarded.
AnyState == [filter : AnyFilter, tools : AnyParser, fw : AnyEvent]

\* What toolUsageCardParser makes of a text.
Carded(f, text) == Consume(CardStep, f.card, text).text

\* Unless a card closes after other text, the newlines before cards' lines are the
\* same when what comes after some of a text comes in a line of its own.
LEMMA SettledApart ==
    ASSUME NEW x \in Texts, NEW y \in Texts, ~Parted(x \o y)
    PROVE  Settled(x \o y) = Settled(x) \o Settled(y) /\ ~Parted(y)
<1> DEFINE z == x \o y
           N == Len(x)
           M == Len(y)
<1>1. /\ z \in Texts /\ N \in Nat /\ M \in Nat /\ Len(z) = N + M
      /\ \A i \in 1 .. N : z[i] = x[i]
      /\ \A i \in 1 .. M : z[N + i] = y[i]
  BY Joined
<1>2. \A k \in 2 .. N + M : z[k] = Break => z[k - 1] = NewLine
  BY <1>1 DEF Parted
<1> HIDE DEF z, N, M
<1>3. ASSUME NEW k \in 1 .. N PROVE Put(z, k) = Put(x, k)
  <2>1. z[k] = x[k] /\ (k # 1 => z[k - 1] = x[k - 1])
    <3>1. k # 1 => k - 1 \in 1 .. N
      BY <1>1
    <3> QED BY <1>1, <3>1
  <2> QED BY <2>1 DEF Put
<1>4. ASSUME NEW k \in 1 .. M PROVE Put(z, N + k) = Put(y, k)
  <2>1. z[N + k] = y[k]
    BY <1>1
  <2>2. CASE k # 1
    <3>1. k - 1 \in 1 .. M /\ N + (k - 1) = (N + k) - 1 /\ N + k # 1
      BY <1>1, <2>2
    <3>2. z[(N + k) - 1] = y[k - 1]
      BY <1>1, <3>1
    <3> QED BY <2>1, <2>2, <3>1, <3>2 DEF Put
  <2>3. CASE k = 1 /\ y[k] # Break
    BY <2>1, <2>3 DEF Put
  <2>4. CASE k = 1 /\ y[k] = Break
    <3>1. Put(y, k) = <<>>
      BY <2>4 DEF Put
    <3>2. N + k # 1 => z[(N + k) - 1] = NewLine
      <4>1. N + k # 1 => N + k \in 2 .. N + M
        BY <1>1, <2>4
      <4> QED BY <1>2, <2>1, <2>4, <4>1
    <3>3. Put(z, N + k) = <<>>
      BY <2>1, <2>4, <3>2 DEF Put
    <3> QED BY <3>1, <3>3
  <2> QED BY <2>2, <2>3, <2>4
<1>5. \A text \in Texts : Places(text) \in Seq(Seq(STRING)) /\ Len(Places(text)) = Len(text)
  <2>1. NewLine \in STRING
    BY TagsOfText DEF LineEnds
  <2> QED BY <2>1, PlacesType DEF Texts
<1>6. Places(z) = Places(x) \o Places(y)
  <2> DEFINE a == Places(x)
             b == Places(y)
             c == Places(z)
             P == Seq(STRING)
  <2>1. /\ a \in Seq(P) /\ Len(a) = N /\ b \in Seq(P) /\ Len(b) = M
        /\ c \in Seq(P) /\ Len(c) = N + M
    BY <1>1, <1>5 DEF N, M
  <2>2. /\ \A k \in 1 .. N : a[k] = Put(x, k)
        /\ \A k \in 1 .. M : b[k] = Put(y, k)
        /\ \A k \in 1 .. N + M : c[k] = Put(z, k)
    BY <1>1 DEF N, M, Places
  <2> HIDE DEF a, b, c, P
  <2>3. /\ a \o b \in Seq(P) /\ Len(a \o b) = N + M
        /\ \A k \in 1 .. N + M : (a \o b)[k] = IF k <= N THEN a[k] ELSE b[k - N]
    BY <2>1, ConcatProperties
  <2>4. ASSUME NEW k \in 1 .. N + M PROVE c[k] = (a \o b)[k]
    <3>1. CASE k <= N
      <4>1. k \in 1 .. N
        BY <1>1, <3>1
      <4> QED BY <1>3, <2>2, <2>3, <3>1, <4>1
    <3>2. CASE ~(k <= N)
      <4>1. k - N \in 1 .. M /\ N + (k - N) = k
        BY <1>1, <3>2
      <4>2. Put(z, k) = Put(y, k - N)
        BY <1>4, <4>1
      <4> QED BY <2>2, <2>3, <3>2, <4>1, <4>2
    <3> QED BY <3>1, <3>2
  <2>5. c = a \o b
    BY <2>1, <2>3, <2>4, SeqEqual
  <2> QED BY <2>5 DEF a, b, c
<1>7. Settled(z) = Settled(x) \o Settled(y)
  <2>1. /\ Settled(x) = FlattenSeq(Places(x)) /\ Settled(y) = FlattenSeq(Places(y))
        /\ Settled(z) = FlattenSeq(Places(z))
    BY DEF Settled, Places
  <2>2. Places(x) \in Seq(Seq(STRING)) /\ Places(y) \in Seq(Seq(STRING))
    BY <1>5
  <2> DEFINE a == Places(x)
             b == Places(y)
  <2>3. a \in Seq(Seq(STRING)) /\ b \in Seq(Seq(STRING))
    BY <2>2
  <2>4. /\ Settled(x) = FlattenSeq(a) /\ Settled(y) = FlattenSeq(b)
        /\ Settled(z) = FlattenSeq(a \o b)
    BY <1>6, <2>1
  <2> HIDE DEF a, b
  <2>5. FlattenSeq(a \o b) = FlattenSeq(a) \o FlattenSeq(b)
    BY <2>3, FlattenJoin
  <2> QED BY <2>4, <2>5
<1>8. ~Parted(y)
  <2> SUFFICES ASSUME NEW k \in 2 .. M, y[k] = Break PROVE y[k - 1] = NewLine
    BY DEF Parted, M
  <2>1. /\ k \in 1 .. M /\ k - 1 \in 1 .. M /\ N + k \in 2 .. N + M
        /\ N + (k - 1) = (N + k) - 1
    BY <1>1
  <2> QED BY <1>1, <1>2, <2>1
<1> QED BY <1>7, <1>8 DEF z

\* filterText makes the same of a text when its first symbol comes alone.
LEMMA FilterOnward ==
    ASSUME NEW f \in AnyFilter, Steady(f.card), NEW s \in STRING, NEW y \in Texts
    PROVE  LET a == FilterText(f, <<s>>)
               b == FilterText(a.f, y)
               d == FilterText(f, <<s>> \o y)
           IN  /\ a \in [f : AnyFilter, text : Texts] /\ Steady(a.f.card)
               /\ b \in [f : AnyFilter, text : Texts]
               /\ ~Torn(d.f.card) /\ ~Parted(Carded(f, <<s>> \o y)) =>
                     /\ d.f = b.f /\ d.text = a.text \o b.text
                     /\ ~Parted(Carded(a.f, y))
<1> DEFINE x == <<s>>
           a == FilterText(f, x)
           b == FilterText(a.f, y)
           d == FilterText(f, x \o y)
           ac == Consume(CardStep, f.card, x)
           bc == Consume(CardStep, ac.p, y)
           dc == Consume(CardStep, f.card, x \o y)
           au == Settled(ac.text)
           bu == Settled(bc.text)
           du == Settled(dc.text)
           ad == Consume(DropStep, f.drop, au)
           bd == Consume(DropStep, ad.p, bu)
           dd == Consume(DropStep, f.drop, du)
<1>1. x \in Texts /\ x \o y \in Texts
  <2>1. x \in Texts
    BY DEF Texts
  <2> HIDE DEF x
  <2> QED BY <2>1, Joined
<1>2. f.card \in AnyParser /\ f.drop \in AnyParser
  <2>1. f.card \in Parsers(STRING, STRING) /\ f.drop \in Parsers(STRING, {})
    BY DEF AnyFilter, Filters
  <2>2. \A q \in Parsers(STRING, {}) : q \in Parsers(STRING, STRING)
    BY Wider
  <2> QED BY <2>1, <2>2 DEF AnyParser
<1>3. Steady(ac.p) /\ (~Torn(dc.p) => dc = Then(ac, bc))
  BY <1>2, CardOnward
<1> HIDE DEF x
<1>4. ac \in AnyResult /\ dc \in AnyResult
  BY <1>1, <1>2, CardConsumed
<1>5. ac.p \in AnyParser /\ ac.text \in Texts /\ dc.p \in AnyParser /\ dc.text \in Texts
  <2> HIDE DEF ac, dc
  <2> QED BY <1>4, ResultParts
<1>6. bc \in AnyResult /\ bc.p \in AnyParser /\ bc.text \in Texts
  <2>1. bc \in AnyResult
    <3> HIDE DEF ac
    <3> QED BY <1>5, CardConsumed
  <2> HIDE DEF bc
  <2> QED BY <2>1, ResultParts
<1> HIDE DEF ac, bc, dc
<1>7. au \in Texts /\ bu \in Texts /\ du \in Texts
  <2>1. NewLine \in STRING
    BY TagsOfText DEF LineEnds
  <2> QED BY <1>5, <1>6, <2>1, SettledType DEF Texts
<1> HIDE DEF au, bu, du
<1>8. ad \in AnyResult /\ dd \in AnyResult
  BY <1>2, <1>7, DropConsumed
<1>9. ad.p \in AnyParser /\ ad.text \in Texts /\ dd.p \in AnyParser /\ dd.text \in Texts
  <2> HIDE DEF ad, dd
  <2> QED BY <1>8, ResultParts
<1>10. bd \in AnyResult
  <2> HIDE DEF ad
  <2> QED BY <1>9, <1>7, DropConsumed
<1>11. bd.p \in AnyParser /\ bd.text \in Texts
  <2> HIDE DEF bd
  <2> QED BY <1>10, ResultParts
<1>12. /\ a = [f |-> [card |-> ac.p, drop |-> ad.p], text |-> ad.text]
       /\ d = [f |-> [card |-> dc.p, drop |-> dd.p], text |-> dd.text]
  BY DEF FilterText, ac, dc, au, du
<1>13. a.f.card = ac.p /\ a.f.drop = ad.p
  <2> HIDE DEF a, ac, ad
  <2> QED BY <1>12
<1>14. b = [f |-> [card |-> bc.p, drop |-> bd.p], text |-> bd.text]
  <2>1. \A g : FilterText(g, y) =
           [f |-> [card |-> Consume(CardStep, g.card, y).p,
                   drop |-> Consume(DropStep, g.drop, Settled(Carded(g, y))).p],
            text |-> Consume(DropStep, g.drop, Settled(Carded(g, y))).text]
    BY DEF FilterText, Carded
  <2>2. Consume(CardStep, a.f.card, y) = bc /\ Settled(Carded(a.f, y)) = bu
    BY <1>13 DEF Carded, bc, bu
  <2> HIDE DEF a, ad
  <2> QED BY <1>13, <2>1, <2>2
<1>15. ASSUME ~Torn(d.f.card), ~Parted(Carded(f, x \o y))
       PROVE  /\ d.f = b.f /\ d.text = a.text \o b.text
              /\ ~Parted(Carded(a.f, y))
  <2>1. d.f.card = dc.p
    <3> HIDE DEF d, dd
    <3> QED BY <1>12
  <2>2. dc = Then(ac, bc)
    <3> HIDE DEF d, dd
    <3> QED BY <1>3, <1>15, <2>1
  <2>3. dc.p = bc.p /\ dc.text = ac.text \o bc.text
    BY <2>2 DEF Then, Result
  <2>4. ~Parted(ac.text \o bc.text)
    BY <1>15, <2>3 DEF Carded, dc
  <2>5. du = au \o bu /\ ~Parted(bc.text)
    BY <1>5, <1>6, <2>3, <2>4, SettledApart DEF au, bu, du
  <2>6. ~Parted(Carded(a.f, y))
    <3>1. Carded(a.f, y) = bc.text
      BY <1>13 DEF Carded, bc
    <3> HIDE DEF a
    <3> QED BY <2>5, <3>1
  <2>7. Consume(DropStep, f.drop, au \o bu) = Then(ad, bd)
    BY <1>2, <1>7, DropSplit
  <2>8. dd = Then(ad, bd)
    <3> HIDE DEF ad, bd
    <3> QED BY <2>7, <2>5
  <2>9. dd.p = bd.p /\ dd.text = ad.text \o bd.text
    <3> HIDE DEF dd, ad, bd
    <3> QED BY <2>8 DEF Then, Result
  <2> HIDE DEF a, b, d, ad, bd, dd
  <2> QED BY <1>12, <1>14, <2>3, <2>6, <2>9
<1>16. a \in [f : AnyFilter, text : Texts] /\ b \in [f : AnyFilter, text : Texts]
  <2>1. \A g \in AnyFilter : \A u \in Texts : FilterText(g, u) \in [f : AnyFilter, text : Texts]
    BY FilterTextType, TagsOfText DEF AnyFilter, Texts
  <2>2. a \in [f : AnyFilter, text : Texts]
    BY <1>1, <2>1
  <2> HIDE DEF a
  <2>3. a.f \in AnyFilter
    BY <2>2
  <2> QED BY <2>1, <2>2, <2>3
<1> HIDE DEF a, b, d, ad, bd, dd
<1>17. Steady(a.f.card)
  BY <1>3, <1>13
<1> QED BY <1>15, <1>17, <1>16 DEF a, b, d, x

\* Events add up, in any order of adding.
LEMMA EventLaws ==
    /\ \A u, v, w \in AnyEvent : Append2(Append2(u, v), w) = Append2(u, Append2(v, w))
    /\ \A u \in AnyEvent : Append2(u, Event(<<>>, <<>>, <<>>)) = u
<1>1. ASSUME NEW u \in AnyEvent
      PROVE  /\ u.content \in Texts /\ u.reasoning \in Texts /\ u.calls \in Calls(STRING)
             /\ u = Event(u.content, u.reasoning, u.calls)
  BY DEF AnyEvent, Events, Texts, Event
<1>2. ASSUME NEW u \in AnyEvent, NEW v \in AnyEvent, NEW w \in AnyEvent
      PROVE  Append2(Append2(u, v), w) = Append2(u, Append2(v, w))
  <2>1. /\ (u.content \o v.content) \o w.content = u.content \o (v.content \o w.content)
        /\ (u.reasoning \o v.reasoning) \o w.reasoning =
              u.reasoning \o (v.reasoning \o w.reasoning)
    <3>1. \A x, y, z \in Texts : (x \o y) \o z = x \o (y \o z)
      BY Associate, Zenon
    <3>2. u.content \in Texts /\ v.content \in Texts /\ w.content \in Texts
      BY <1>1
    <3>3. u.reasoning \in Texts /\ v.reasoning \in Texts /\ w.reasoning \in Texts
      BY <1>1
    <3>4. (u.content \o v.content) \o w.content = u.content \o (v.content \o w.content)
      BY <3>1, <3>2, Zenon
    <3>5. (u.reasoning \o v.reasoning) \o w.reasoning =
             u.reasoning \o (v.reasoning \o w.reasoning)
      BY <3>1, <3>3, Zenon
    <3> QED BY <3>4, <3>5
  <2>2. (u.calls \o v.calls) \o w.calls = u.calls \o (v.calls \o w.calls)
    <3>1. \A x, y, z \in Calls(STRING) : (x \o y) \o z = x \o (y \o z)
      BY JoinLaws, Zenon
    <3>2. u.calls \in Calls(STRING) /\ v.calls \in Calls(STRING) /\ w.calls \in Calls(STRING)
      BY <1>1
    <3> QED BY <3>1, <3>2, Zenon
  <2> QED BY <2>1, <2>2 DEF Append2, Event
<1>3. ASSUME NEW u \in AnyEvent PROVE Append2(u, Event(<<>>, <<>>, <<>>)) = u
  <2>1. /\ u.content \o <<>> = u.content /\ u.reasoning \o <<>> = u.reasoning
        /\ u.calls \o <<>> = u.calls
    BY <1>1, JoinLaws
  <2>2. Append2(u, Event(<<>>, <<>>, <<>>)) =
           Event(u.content \o <<>>, u.reasoning \o <<>>, u.calls \o <<>>)
    BY DEF Append2, Event
  <2> QED BY <1>1, <2>1, <2>2
<1> QED BY <1>2, <1>3

\* A line keeps to the texts there are.
LEMMA AppliedType ==
    ASSUME NEW f \in AnyFilter, NEW t \in AnyParser, NEW channel, NEW x \in Texts
    PROVE  Apply(f, t, channel, x) \in
               [filter : AnyFilter, tools : AnyParser, event : AnyEvent]
<1>1. Apply(f, t, channel, x) \in
          [filter : Filters(STRING), tools : Parsers(STRING, STRING),
           event : Events(STRING, STRING)]
  BY TagsOfText, ApplyType DEF AnyFilter, AnyParser, Texts
<1> QED BY <1>1 DEF AnyFilter, AnyParser, AnyEvent

\* The flow makes the same of a line when its first symbol comes in a line of its own.
LEMMA ApplyOnward ==
    ASSUME NEW f \in AnyFilter, Steady(f.card), NEW t \in AnyParser, NEW channel,
           NEW s \in STRING, NEW y \in Texts
    PROVE  LET a == Apply(f, t, channel, <<s>>)
               b == Apply(a.filter, a.tools, channel, y)
               d == Apply(f, t, channel, <<s>> \o y)
           IN  /\ Steady(a.filter.card)
               /\ ~Torn(d.filter.card) /\ ~Parted(Carded(f, <<s>> \o y)) =>
                     /\ d.filter = b.filter /\ d.tools = b.tools
                     /\ d.event = Append2(a.event, b.event)
                     /\ ~Parted(Carded(a.filter, y))
<1> DEFINE x == <<s>>
           a == Apply(f, t, channel, x)
           b == Apply(a.filter, a.tools, channel, y)
           d == Apply(f, t, channel, x \o y)
           af == FilterText(f, x)
           bf == FilterText(af.f, y)
           df == FilterText(f, x \o y)
           heard(text) == IF channel = "content" THEN text ELSE <<>>
           thought(text) == IF channel = "thinking" THEN text ELSE <<>>
           at == Consume(ToolStep, t, heard(af.text))
           bt == Consume(ToolStep, at.p, heard(bf.text))
           dt == Consume(ToolStep, t, heard(df.text))
<1>1. /\ af \in [f : AnyFilter, text : Texts] /\ Steady(af.f.card)
      /\ bf \in [f : AnyFilter, text : Texts]
      /\ ~Torn(df.f.card) /\ ~Parted(Carded(f, x \o y)) =>
            df.f = bf.f /\ df.text = af.text \o bf.text /\ ~Parted(Carded(af.f, y))
  BY FilterOnward
<1> HIDE DEF x
<1>2. af.f \in AnyFilter /\ af.text \in Texts /\ bf.text \in Texts
  <2> HIDE DEF af, bf
  <2> QED BY <1>1
<1>3. ASSUME NEW g, NEW q, NEW z
      PROVE  LET c == FilterText(g, z)
                 p == Consume(ToolStep, q, heard(c.text))
             IN  Apply(g, q, channel, z) =
                    [filter |-> c.f, tools |-> p.p,
                     event |-> Event(p.text, thought(c.text), p.calls)]
  BY DEF Apply
<1>4. /\ a = [filter |-> af.f, tools |-> at.p, event |-> Event(at.text, thought(af.text), at.calls)]
      /\ d = [filter |-> df.f, tools |-> dt.p, event |-> Event(dt.text, thought(df.text), dt.calls)]
  BY <1>3
<1>5. a.filter = af.f /\ a.tools = at.p /\ a.event = Event(at.text, thought(af.text), at.calls)
      /\ d.filter = df.f
  <2> HIDE DEF a, af, at, thought, d, df, dt
  <2> QED BY <1>4
<1>6. b = [filter |-> bf.f, tools |-> bt.p, event |-> Event(bt.text, thought(bf.text), bt.calls)]
  <2>1. b = Apply(af.f, at.p, channel, y)
    <3> HIDE DEF a, af, at
    <3> QED BY <1>5
  <2> HIDE DEF af, at, b
  <2> QED BY <1>3, <2>1
<1>7. ASSUME ~Torn(d.filter.card), ~Parted(Carded(f, x \o y))
      PROVE  /\ d.filter = b.filter /\ d.tools = b.tools
             /\ d.event = Append2(a.event, b.event)
             /\ ~Parted(Carded(a.filter, y))
  <2>1. df.f = bf.f /\ df.text = af.text \o bf.text /\ ~Parted(Carded(af.f, y))
    <3> HIDE DEF a, b, d, af, bf, df, at, bt, dt
    <3> QED BY <1>1, <1>5, <1>7
  <2>2. heard(af.text) \in Texts /\ heard(bf.text) \in Texts
    <3>1. <<>> \in Texts
      BY DEF Texts
    <3>2. af.text \in Texts /\ bf.text \in Texts
      BY <1>2
    <3> HIDE DEF af, bf
    <3> QED BY <3>1, <3>2
  <2>3. /\ heard(df.text) = heard(af.text) \o heard(bf.text)
        /\ thought(df.text) = thought(af.text) \o thought(bf.text)
    <3>1. <<>> \o <<>> = <<>>
      OBVIOUS
    <3> HIDE DEF af, bf, df
    <3> QED BY <2>1, <3>1
  <2> DEFINE u == heard(af.text)
             v == heard(bf.text)
  <2>4. Consume(ToolStep, t, u \o v) =
           Then(Consume(ToolStep, t, u), Consume(ToolStep, Consume(ToolStep, t, u).p, v))
    <3> HIDE DEF u, v
    <3> QED BY <2>2, ToolSplit DEF u, v
  <2>5. dt = Then(at, bt)
    <3> HIDE DEF heard, af, bf, df
    <3> QED BY <2>3, <2>4
  <2>6. dt.p = bt.p /\ dt.text = at.text \o bt.text /\ dt.calls = at.calls \o bt.calls
    <3> HIDE DEF dt, at, bt
    <3> QED BY <2>5 DEF Then, Result
  <2> HIDE DEF a, b, d, af, bf, df, at, bt, dt, heard, thought, u, v
  <2>7. /\ b.filter = bf.f /\ b.tools = bt.p
        /\ b.event = Event(bt.text, thought(bf.text), bt.calls)
    BY <1>6
  <2>8. /\ d.filter = df.f /\ d.tools = dt.p
        /\ d.event = Event(dt.text, thought(df.text), dt.calls)
    BY <1>4
  <2>9. Append2(a.event, b.event) =
           Event(at.text \o bt.text, thought(af.text) \o thought(bf.text), at.calls \o bt.calls)
    BY <1>5, <2>7 DEF Append2, Event
  <2> QED BY <1>5, <2>1, <2>3, <2>6, <2>7, <2>8, <2>9
<1>8. Steady(a.filter.card)
  <2> HIDE DEF a, af, at, thought
  <2> QED BY <1>1, <1>5
<1> HIDE DEF a, b, d
<1> QED BY <1>7, <1>8 DEF a, b, d, x

\* What the flow has done after a line.
Line(s, channel, x) == After(s, Apply(s.filter, s.tools, channel, x))

\* A line leaves a state, and so does its first symbol; that one leaves the filter as
\* symbols do. What follows may come in a line of its own.
LEMMA LineOnward ==
    ASSUME NEW s \in AnyState, Steady(s.filter.card), NEW channel,
           NEW x \in STRING, NEW y \in Texts
    PROVE  LET a == Line(s, channel, <<x>>)
               d == Line(s, channel, <<x>> \o y)
           IN  /\ a \in AnyState /\ Steady(a.filter.card)
               /\ ~Torn(d.filter.card) /\ ~Parted(Carded(s.filter, <<x>> \o y)) =>
                     d = Line(a, channel, y) /\ ~Parted(Carded(a.filter, y))
<1> DEFINE f == s.filter
           t == s.tools
           z == <<x>>
           pa == Apply(f, t, channel, z)
           pb == Apply(pa.filter, pa.tools, channel, y)
           pd == Apply(f, t, channel, z \o y)
           a == Line(s, channel, z)
           d == Line(s, channel, z \o y)
<1>1. f \in AnyFilter /\ t \in AnyParser /\ s.fw \in AnyEvent
  BY DEF AnyState
<1>2. /\ Steady(pa.filter.card)
      /\ ~Torn(pd.filter.card) /\ ~Parted(Carded(f, z \o y)) =>
            /\ pd.filter = pb.filter /\ pd.tools = pb.tools
            /\ pd.event = Append2(pa.event, pb.event)
            /\ ~Parted(Carded(pa.filter, y))
  <2> HIDE DEF f, t
  <2> QED BY <1>1, ApplyOnward DEF f
<1>3. z \in Texts
  BY DEF Texts
<1> HIDE DEF z
<1>4. pa \in [filter : AnyFilter, tools : AnyParser, event : AnyEvent]
  <2> HIDE DEF f, t
  <2> QED BY <1>1, <1>3, AppliedType
<1>5. pb \in [filter : AnyFilter, tools : AnyParser, event : AnyEvent]
  <2>1. pa.filter \in AnyFilter /\ pa.tools \in AnyParser
    <3> HIDE DEF pa
    <3> QED BY <1>4
  <2> HIDE DEF pa
  <2> QED BY <2>1, AppliedType
<1>6. /\ a = [filter |-> pa.filter, tools |-> pa.tools, fw |-> Append2(s.fw, pa.event)]
      /\ d = [filter |-> pd.filter, tools |-> pd.tools, fw |-> Append2(s.fw, pd.event)]
  BY DEF Line, After
<1> HIDE DEF f, t, pa, pd, a, d
<1>7. Append2(s.fw, pa.event) \in AnyEvent
  BY <1>1, <1>4, Append2Type DEF AnyEvent
<1>8. a \in AnyState /\ Steady(a.filter.card)
  BY <1>2, <1>4, <1>6, <1>7 DEF AnyState
<1>9. Line(a, channel, y) = [filter |-> pb.filter, tools |-> pb.tools,
                             fw |-> Append2(Append2(s.fw, pa.event), pb.event)]
  <2>1. a.filter = pa.filter /\ a.tools = pa.tools /\ a.fw = Append2(s.fw, pa.event)
    BY <1>6
  <2>2. Apply(a.filter, a.tools, channel, y) = pb
    BY <2>1 DEF pb
  <2> HIDE DEF pb
  <2> QED BY <2>1, <2>2 DEF Line, After
<1> HIDE DEF pb
<1>10. ASSUME ~Torn(d.filter.card), ~Parted(Carded(f, z \o y))
       PROVE  d = Line(a, channel, y) /\ ~Parted(Carded(a.filter, y))
  <2>1. d.filter = pd.filter
    BY <1>6
  <2>2. /\ pd.filter = pb.filter /\ pd.tools = pb.tools
        /\ pd.event = Append2(pa.event, pb.event)
        /\ ~Parted(Carded(pa.filter, y))
    BY <1>2, <1>10, <2>1
  <2>3. Append2(Append2(s.fw, pa.event), pb.event) = Append2(s.fw, Append2(pa.event, pb.event))
    BY <1>1, <1>4, <1>5, EventLaws
  <2> QED BY <1>6, <1>9, <2>2, <2>3
<1> QED BY <1>8, <1>10 DEF a, d, f, z

\* A line with nothing in it leaves everything as it is.
LEMMA EmptyLine ==
    ASSUME NEW s \in AnyState, NEW channel
    PROVE  Line(s, channel, <<>>) = s
<1> DEFINE f == s.filter
           t == s.tools
           e == Event(<<>>, <<>>, <<>>)
<1>1. f \in AnyFilter /\ t \in AnyParser /\ s.fw \in AnyEvent
      /\ s = [filter |-> f, tools |-> t, fw |-> s.fw]
  BY DEF AnyState
<1>2. f = [card |-> f.card, drop |-> f.drop]
  <2> HIDE DEF f
  <2> QED BY <1>1 DEF AnyFilter, Filters
<1>3. FilterText(f, <<>>) = [f |-> f, text |-> <<>>]
  <2>1. Consume(CardStep, f.card, <<>>) = Result(f.card, <<>>, <<>>, <<>>)
    BY DEF Consume
  <2>2. Consume(DropStep, f.drop, <<>>) = Result(f.drop, <<>>, <<>>, <<>>)
    BY DEF Consume
  <2>3. /\ Consume(CardStep, f.card, <<>>).p = f.card
        /\ Consume(CardStep, f.card, <<>>).text = <<>>
        /\ Consume(DropStep, f.drop, <<>>).p = f.drop
        /\ Consume(DropStep, f.drop, <<>>).text = <<>>
    BY <2>1, <2>2 DEF Result
  <2>4. FilterText(f, <<>>) =
           [f |-> [card |-> Consume(CardStep, f.card, <<>>).p,
                   drop |-> Consume(DropStep, f.drop, Settled(Carded(f, <<>>))).p],
            text |-> Consume(DropStep, f.drop, Settled(Carded(f, <<>>))).text]
    BY DEF FilterText, Carded
  <2>5. Settled(Carded(f, <<>>)) = <<>>
    <3>1. Carded(f, <<>>) = <<>>
      BY <2>3 DEF Carded
    <3>2. Settled(<<>>) = <<>>
      <4> DEFINE pieces == [k \in 1 .. Len(<<>>) |-> Put(<<>>, k)]
      <4>1. Len(<<>>) = 0 /\ 1 .. 0 = {}
        OBVIOUS
      <4>2. pieces \in Seq(Texts) /\ Len(pieces) = 0
        BY <4>1, IsASeq
      <4>3. Settled(<<>>) = FlattenSeq(pieces)
        BY DEF Settled
      <4> HIDE DEF pieces
      <4>4. pieces = <<>>
        BY <4>2, EmptySeq
      <4> QED BY <4>2, <4>3, <4>4 DEF FlattenSeq
    <3> QED BY <3>1, <3>2
  <2> HIDE DEF f
  <2> QED BY <1>2, <2>3, <2>4, <2>5
<1>4. Consume(ToolStep, t, <<>>) = Result(t, <<>>, <<>>, <<>>)
  BY DEF Consume
<1> DEFINE g == FilterText(f, <<>>)
           heard == IF channel = "content" THEN g.text ELSE <<>>
           p == Consume(ToolStep, t, heard)
           thought == IF channel = "thinking" THEN g.text ELSE <<>>
<1>5. heard = <<>> /\ thought = <<>> /\ g.f = f
  <2> HIDE DEF f
  <2> QED BY <1>3
<1>6. Apply(f, t, channel, <<>>) =
         [filter |-> g.f, tools |-> p.p, event |-> Event(p.text, thought, p.calls)]
  BY DEF Apply
<1>7. p.p = t /\ p.text = <<>> /\ p.calls = <<>>
  <2> HIDE DEF heard, t
  <2> QED BY <1>4, <1>5 DEF Result
<1>8. Apply(f, t, channel, <<>>) = [filter |-> f, tools |-> t, event |-> e]
  <2> HIDE DEF f, t, g, p, thought
  <2> QED BY <1>5, <1>6, <1>7
<1>9. Append2(s.fw, e) = s.fw
  BY <1>1, EventLaws
<1> QED BY <1>1, <1>8, <1>9 DEF Line, After

-----------------------------------------------------------------------------
(* An answer, symbol by symbol. *)

SteadyStates == {s \in AnyState : Steady(s.filter.card)}

\* A symbol is a line of its own.
LEMMA SymbolLine ==
    ASSUME NEW s \in SteadyStates, NEW item \in Items
    PROVE  /\ Symbol(s, item) = Line(s, item.channel, <<item.symbol>>)
           /\ Symbol(s, item) \in SteadyStates
<1>1. Symbol(s, item) = Line(s, item.channel, <<item.symbol>>)
  BY DEF Symbol, Line
<1>2. s \in AnyState /\ Steady(s.filter.card) /\ item.symbol \in STRING /\ <<>> \in Texts
  BY DEF SteadyStates, Items, Texts
<1> DEFINE a == Line(s, item.channel, <<item.symbol>>)
<1>3. a \in AnyState /\ Steady(a.filter.card)
  BY <1>2, LineOnward
<1> HIDE DEF a
<1>4. a \in SteadyStates
  BY <1>3 DEF SteadyStates
<1> QED BY <1>1, <1>4 DEF a

\* Before the first symbol nothing is held and nothing forwarded.
LEMMA StartSteady == Start \in SteadyStates
<1>1. NewParser \in AnyParser /\ NewParser \in Parsers(STRING, {})
  BY NewParserType DEF AnyParser
<1>2. Event(<<>>, <<>>, <<>>) \in AnyEvent
  <2>1. <<>> \in Seq(STRING) /\ <<>> \in Calls(STRING)
    BY DEF Calls
  <2> QED BY <2>1, EventType DEF AnyEvent
<1>3. Steady(NewParser)
  <2>1. ~NewParser.inside /\ NewParser.partial = <<>> /\ NewParser.buffer = <<>>
    BY DEF NewParser
  <2>2. Len(NewParser.partial) = 0
    BY <2>1
  <2> QED BY <2>1, <2>2 DEF Steady
<1>4. Start.filter.card = NewParser
  BY DEF Start
<1>5. Start \in AnyState
  BY <1>1, <1>2 DEF Start, AnyState, AnyFilter, Filters, AnyParser
<1> QED BY <1>3, <1>4, <1>5 DEF SteadyStates

\* The states of the flow between the symbols of an answer.
LEMMA SymbolBySymbol ==
    ASSUME NEW answer \in Seq(Items)
    PROVE  LET state == BySymbols(answer)
           IN  /\ state[0] = Start
               /\ \A i \in 1 .. Len(answer) : state[i] = Symbol(state[i - 1], answer[i])
               /\ \A i \in 0 .. Len(answer) : state[i] \in SteadyStates
<1> DEFINE N == Len(answer)
           S == SteadyStates
           G == [n \in 0 .. N |->
                    IF n = 0 THEN [s \in S |-> s] ELSE [s \in S |-> Symbol(s, answer[n])]]
           state == CHOOSE g : g = [i \in 0 .. N |->
                                      IF i = 0 THEN Start ELSE Symbol(g[i - 1], answer[i])]
<1>1. N \in Nat /\ \A i \in 1 .. N : answer[i] \in Items
  BY LenProperties, ElementOfSeq
<1>2. Start \in S /\ \A s \in S : \A i \in 1 .. N : Symbol(s, answer[i]) \in S
  BY <1>1, StartSteady, SymbolLine
<1>3. BySymbols(answer) = state
  BY DEF BySymbols
<1> HIDE DEF S, state
<1>4. G \in NumberedSteps(0, N, S)
  <2>1. ASSUME NEW n \in 0 .. N
        PROVE  (IF n = 0 THEN [s \in S |-> s] ELSE [s \in S |-> Symbol(s, answer[n])])
                  \in [S -> S]
    <3>1. CASE n = 0
      BY <3>1
    <3>2. CASE n # 0
      <4>1. n \in 1 .. N
        BY <1>1, <3>2
      <4>2. \A s \in S : Symbol(s, answer[n]) \in S
        BY <1>2, <4>1
      <4> QED BY <3>2, <4>2
    <3> QED BY <3>1, <3>2
  <2> QED BY <2>1 DEF NumberedSteps
<1>5. \A n \in 1 .. N : \A s \in S : G[n][s] = Symbol(s, answer[n])
  BY <1>1
<1> HIDE DEF N, G
<1>6. \E g : g = [i \in 0 .. N |-> IF i = 0 THEN Start ELSE Symbol(g[i - 1], answer[i])]
  <2>1. 0 \in Nat /\ 0 <= N
    BY <1>1
  <2>2. PICK g : NumberedRun(g, 0, N, S, Start, G)
    BY <1>1, <1>2, <1>4, <2>1, Recursion, Zenon
  <2>3. g \in [0 .. N -> S] /\ g[0] = Start
    BY <2>2 DEF NumberedRun
  <2>4. \A n \in 0 .. N : n # 0 => g[n] = Symbol(g[n - 1], answer[n])
    <3> SUFFICES ASSUME NEW n \in 0 .. N, n # 0 PROVE g[n] = Symbol(g[n - 1], answer[n])
      OBVIOUS
    <3>1. n \in 0 + 1 .. N /\ n \in 1 .. N /\ n - 1 \in 0 .. N
      BY <1>1
    <3>2. g[n] = G[n][g[n - 1]]
      BY <2>2, <3>1 DEF NumberedRun
    <3>3. g[n - 1] \in S
      BY <2>3, <3>1
    <3> QED BY <1>5, <3>1, <3>2, <3>3
  <2>5. g = [i \in 0 .. N |-> IF i = 0 THEN Start ELSE Symbol(g[i - 1], answer[i])]
    BY <2>3, <2>4
  <2> QED BY <2>5
<1>7. state = [i \in 0 .. N |-> IF i = 0 THEN Start ELSE Symbol(state[i - 1], answer[i])]
  BY <1>6 DEF state
<1>8. state[0] = Start /\ \A i \in 1 .. N : state[i] = Symbol(state[i - 1], answer[i])
  BY <1>1, <1>7
<1>9. ASSUME NEW n \in 1 .. N, state[n - 1] \in S PROVE state[n] \in S
  BY <1>2, <1>8, <1>9
<1>10. \A n \in 0 .. N : state[n] \in S
  BY <1>1, <1>2, <1>8, <1>9, Loop
<1> QED BY <1>3, <1>8, <1>10 DEF N, S

\* The symbols of a part of an answer: the first, and those after it.
LEMMA SymbolsOnward ==
    ASSUME NEW m \in Seq(Items), NEW n \in 1 .. Len(m)
    PROVE  /\ \A j \in 1 .. n :
                 /\ m[j].symbol \in STRING
                 /\ Symbols(SubSeq(m, j + 1, n)) \in Texts
                 /\ Symbols(SubSeq(m, j, n)) =
                       <<m[j].symbol>> \o Symbols(SubSeq(m, j + 1, n))
           /\ Symbols(SubSeq(m, n + 1, n)) = <<>>
<1>1. Len(m) \in Nat /\ \A i \in 1 .. Len(m) : m[i] \in Items
  BY LenProperties, ElementOfSeq
<1>2. ASSUME NEW j \in 1 .. n + 1
      PROVE  /\ Len(SubSeq(m, j, n)) = n + 1 - j
             /\ \A i \in 1 .. n + 1 - j : SubSeq(m, j, n)[i] = m[j + i - 1]
  <2>1. j \in Int /\ n \in Int /\ \A i \in j .. n : m[i] \in Items
    BY <1>1
  <2>2. /\ Len(SubSeq(m, j, n)) = IF j <= n THEN n - j + 1 ELSE 0
        /\ \A i \in 1 .. n - j + 1 : SubSeq(m, j, n)[i] = m[j + i - 1]
    BY <2>1, SubSeqProperties
  <2>3. n - j + 1 = n + 1 - j /\ (~ (j <= n) => n + 1 - j = 0)
    BY <2>1
  <2> QED BY <2>2, <2>3
<1>3. ASSUME NEW j \in 1 .. n + 1
      PROVE  /\ Symbols(SubSeq(m, j, n)) \in Texts
             /\ Len(Symbols(SubSeq(m, j, n))) = n + 1 - j
             /\ \A i \in 1 .. n + 1 - j : Symbols(SubSeq(m, j, n))[i] = m[j + i - 1].symbol
  <2> DEFINE part == SubSeq(m, j, n)
             N == n + 1 - j
  <2>1. Symbols(part) = [i \in 1 .. N |-> part[i].symbol]
    BY <1>2 DEF Symbols
  <2>2. \A i \in 1 .. N : part[i].symbol = m[j + i - 1].symbol /\ m[j + i - 1].symbol \in STRING
    <3> SUFFICES ASSUME NEW i \in 1 .. N
                 PROVE  part[i].symbol = m[j + i - 1].symbol /\ m[j + i - 1].symbol \in STRING
      OBVIOUS
    <3>1. part[i] = m[j + i - 1] /\ j + i - 1 \in 1 .. Len(m)
      BY <1>1, <1>2
    <3>2. m[j + i - 1].symbol \in STRING
      BY <1>1, <3>1 DEF Items
    <3> HIDE DEF part
    <3> QED BY <3>1, <3>2
  <2>3. N \in Nat
    BY <1>1
  <2> HIDE DEF part, N
  <2>4. Symbols(part) \in Texts /\ Len(Symbols(part)) = N
    BY <2>1, <2>2, <2>3, IsASeq DEF Texts
  <2>5. \A i \in 1 .. N : Symbols(part)[i] = m[j + i - 1].symbol
    BY <2>1, <2>2
  <2> QED BY <2>4, <2>5 DEF part, N
<1>4. ASSUME NEW j \in 1 .. n
      PROVE  /\ m[j].symbol \in STRING
             /\ Symbols(SubSeq(m, j + 1, n)) \in Texts
             /\ Symbols(SubSeq(m, j, n)) = <<m[j].symbol>> \o Symbols(SubSeq(m, j + 1, n))
  <2> DEFINE x == <<m[j].symbol>>
             y == Symbols(SubSeq(m, j + 1, n))
             z == Symbols(SubSeq(m, j, n))
  <2>1. j \in 1 .. n + 1 /\ j + 1 \in 1 .. n + 1 /\ j \in 1 .. Len(m) /\ j \in Nat /\ n \in Nat
    BY <1>1
  <2>2. m[j].symbol \in STRING
    BY <1>1, <2>1 DEF Items
  <2>3. /\ y \in Texts /\ Len(y) = n - j
        /\ \A i \in 1 .. n - j : y[i] = m[j + i].symbol
    <3>1. /\ y \in Texts /\ Len(y) = n + 1 - (j + 1)
          /\ \A i \in 1 .. n + 1 - (j + 1) : y[i] = m[(j + 1) + i - 1].symbol
      BY <1>3, <2>1
    <3>2. n + 1 - (j + 1) = n - j /\ \A i \in 1 .. n - j : (j + 1) + i - 1 = j + i
      BY <2>1
    <3> HIDE DEF y
    <3> QED BY <3>1, <3>2
  <2>4. /\ z \in Texts /\ Len(z) = n + 1 - j
        /\ \A i \in 1 .. n + 1 - j : z[i] = m[j + i - 1].symbol
    BY <1>3, <2>1
  <2>5. x \in Texts /\ Len(x) = 1 /\ x[1] = m[j].symbol
    BY <2>2 DEF Texts
  <2> HIDE DEF x, y, z
  <2>6. /\ x \o y \in Texts /\ Len(x \o y) = n + 1 - j
        /\ \A i \in 1 .. n + 1 - j : (x \o y)[i] = m[j + i - 1].symbol
    <3>1. /\ x \o y \in Texts /\ Len(x \o y) = Len(x) + Len(y)
          /\ \A i \in 1 .. Len(x) : (x \o y)[i] = x[i]
          /\ \A i \in 1 .. Len(y) : (x \o y)[Len(x) + i] = y[i]
      BY <2>3, <2>5, Joined
    <3>2. ASSUME NEW i \in 1 .. n + 1 - j PROVE (x \o y)[i] = m[j + i - 1].symbol
      <4>1. CASE i = 1
        <5>1. j + i - 1 = j /\ i \in 1 .. Len(x)
          BY <2>1, <2>5, <4>1
        <5> QED BY <2>5, <3>1, <4>1, <5>1
      <4>2. CASE i # 1
        <5>1. i - 1 \in 1 .. Len(y) /\ Len(x) + (i - 1) = i /\ j + (i - 1) = j + i - 1
          BY <2>1, <2>3, <2>5, <4>2
        <5>2. (x \o y)[i] = y[i - 1] /\ y[i - 1] = m[j + (i - 1)].symbol
          BY <2>3, <3>1, <5>1
        <5> QED BY <5>1, <5>2
      <4> QED BY <4>1, <4>2
    <3>3. Len(x) + Len(y) = n + 1 - j
      BY <2>1, <2>3, <2>5
    <3> QED BY <3>1, <3>2, <3>3
  <2>7. z = x \o y
    <3>1. Len(z) = Len(x \o y) /\ \A i \in 1 .. Len(z) : z[i] = (x \o y)[i]
      BY <2>4, <2>6
    <3> QED BY <2>4, <2>6, <3>1, SameText
  <2> QED BY <2>2, <2>3, <2>7 DEF x, y, z
<1>5. Symbols(SubSeq(m, n + 1, n)) = <<>>
  <2>1. n + 1 \in 1 .. n + 1 /\ n + 1 - (n + 1) = 0
    BY <1>1
  <2>2. /\ Symbols(SubSeq(m, n + 1, n)) \in Texts
        /\ Len(Symbols(SubSeq(m, n + 1, n))) = n + 1 - (n + 1)
    BY <1>3, <2>1
  <2> QED BY <2>1, <2>2, EmptySeq DEF Texts
<1> QED BY <1>4, <1>5

\* How much has been said, and where the rest is in the answer.
LEMMA Position ==
    ASSUME Remaining
    PROVE  /\ said \in Seq(Items) /\ message \in Seq(Items)
           /\ Len(said) \in Nat /\ Len(message) \in Nat
           /\ Len(said) - Len(message) \in Nat
           /\ \A i \in 1 .. Len(message) :
                 /\ Len(said) - Len(message) + i \in 1 .. Len(said)
                 /\ message[i] = said[Len(said) - Len(message) + i]
<1>1. said \in Seq(Items) /\ Len(said) \in Nat /\ \A i \in 1 .. Len(said) : said[i] \in Items
  <2>1. said \in Seq(Items)
    BY TextAssumption DEF Remaining, Items
  <2> QED BY <2>1, LenProperties, ElementOfSeq
<1>2. PICK k \in 0 .. Len(said) : message = SubSeq(said, k + 1, Len(said))
  BY DEF Remaining
<1>3. /\ message \in Seq(Items)
      /\ Len(message) = IF k + 1 <= Len(said) THEN Len(said) - (k + 1) + 1 ELSE 0
      /\ \A i \in 1 .. Len(said) - (k + 1) + 1 : message[i] = said[k + 1 + i - 1]
  <2>1. k + 1 \in Int /\ Len(said) \in Int
        /\ \A j \in k + 1 .. Len(said) : said[j] \in Items
    BY <1>1
  <2> QED BY <1>2, <2>1, SubSeqProperties
<1>4. Len(message) = Len(said) - k /\ Len(said) - Len(message) = k
  BY <1>1, <1>3
<1>5. ASSUME NEW i \in 1 .. Len(message)
      PROVE  k + i \in 1 .. Len(said) /\ message[i] = said[k + i]
  <2>1. k + i \in 1 .. Len(said) /\ i \in 1 .. Len(said) - (k + 1) + 1 /\ k + 1 + i - 1 = k + i
    BY <1>1, <1>4
  <2> QED BY <1>3, <2>1
<1> DEFINE d == Len(said) - Len(message)
<1>6. d = k /\ Len(message) \in Nat
  BY <1>1, <1>4
<1> HIDE DEF d
<1>7. \A i \in 1 .. Len(message) : d + i \in 1 .. Len(said) /\ message[i] = said[d + i]
  BY <1>5, <1>6
<1>8. d \in Nat
  BY <1>6
<1> QED BY <1>1, <1>3, <1>6, <1>7, <1>8 DEF d

\* A line does what its symbols do one by one, unless it opens a card and ends inside
\* the end tag of it, or has one close after other text.
LEMMA LineBySymbols ==
    ASSUME Remaining, NEW n \in 1 .. Len(message), NEW channel,
           \A i \in 1 .. n : message[i].channel = channel
    PROVE  LET state == BySymbols(said)
               k == Len(said) - Len(message)
               line == Line(state[k], channel, Symbols(SubSeq(message, 1, n)))
           IN  ~Torn(line.filter.card)
               /\ ~Parted(Carded(state[k].filter, Symbols(SubSeq(message, 1, n)))) =>
                  line = state[k + n]
<1> DEFINE state == BySymbols(said)
           k == Len(said) - Len(message)
           rest(j) == Symbols(SubSeq(message, j + 1, n))
           line == Line(state[k], channel, rest(0))
           T == {j \in 0 .. n : /\ Line(state[k + j], channel, rest(j)) = line
                               /\ ~Parted(Carded(state[k + j].filter, rest(j)))}
<1> SUFFICES ASSUME ~Torn(line.filter.card), ~Parted(Carded(state[k].filter, rest(0)))
             PROVE  line = state[k + n]
  <2>1. 0 + 1 = 1
    OBVIOUS
  <2> QED BY <2>1
<1>1. /\ said \in Seq(Items) /\ message \in Seq(Items)
      /\ Len(said) \in Nat /\ Len(message) \in Nat /\ k \in Nat
      /\ \A i \in 1 .. Len(message) : k + i \in 1 .. Len(said) /\ message[i] = said[k + i]
  BY Position
<1>2. /\ \A i \in 1 .. Len(said) : state[i] = Symbol(state[i - 1], said[i])
      /\ \A i \in 0 .. Len(said) : state[i] \in SteadyStates
  BY <1>1, SymbolBySymbol
<1>3. /\ \A j \in 1 .. n : /\ message[j].symbol \in STRING
                          /\ rest(j) \in Texts
                          /\ Symbols(SubSeq(message, j, n)) = <<message[j].symbol>> \o rest(j)
      /\ rest(n) = <<>>
  BY <1>1, SymbolsOnward
<1>4. \A j \in 1 .. n : rest(j - 1) = <<message[j].symbol>> \o rest(j)
  <2> SUFFICES ASSUME NEW j \in 1 .. n PROVE rest(j - 1) = <<message[j].symbol>> \o rest(j)
    OBVIOUS
  <2>1. (j - 1) + 1 = j
    OBVIOUS
  <2> QED BY <1>3, <2>1
<1> HIDE DEF k, state, rest, line
<1>5. 0 \in T
  <2>1. k + 0 = k /\ 0 \in 0 .. n
    BY <1>1
  <2> QED BY <2>1 DEF line
<1>6. ASSUME NEW j \in 0 + 1 .. n, j - 1 \in T PROVE j \in T
  <2>1. j \in 1 .. n /\ j \in 0 .. n /\ j \in 1 .. Len(message) /\ k + (j - 1) = (k + j) - 1
        /\ k + (j - 1) \in 0 .. Len(said)
    BY <1>1
  <2> DEFINE s == state[k + (j - 1)]
             x == message[j].symbol
  <2>2. s \in SteadyStates /\ message[j] \in Items /\ message[j].channel = channel
        /\ x \in STRING /\ rest(j) \in Texts
    <3>1. message[j] \in Items
      BY <1>1, <2>1, ElementOfSeq
    <3> QED BY <1>2, <1>3, <2>1, <3>1
  <2>3. state[k + j] = Line(s, channel, <<x>>)
    <3>1. state[k + j] = Symbol(s, message[j])
      BY <1>1, <1>2, <2>1
    <3>2. Symbol(s, message[j]) = Line(s, message[j].channel, <<x>>)
      BY <2>2, SymbolLine
    <3> HIDE DEF s, x
    <3> QED BY <2>2, <3>1, <3>2
  <2>4. /\ line = Line(s, channel, <<x>> \o rest(j))
        /\ ~Parted(Carded(s.filter, <<x>> \o rest(j)))
    <3>1. line = Line(s, channel, rest(j - 1)) /\ ~Parted(Carded(s.filter, rest(j - 1)))
      BY <1>6
    <3> QED BY <1>4, <2>1, <3>1
  <2> HIDE DEF s, x
  <2>5. s \in AnyState /\ Steady(s.filter.card)
    BY <2>2 DEF SteadyStates
  <2>6. /\ line = Line(Line(s, channel, <<x>>), channel, rest(j))
        /\ ~Parted(Carded(Line(s, channel, <<x>>).filter, rest(j)))
    BY <2>2, <2>4, <2>5, LineOnward
  <2> QED BY <2>1, <2>3, <2>6
<1>7. n \in T
  <2> HIDE DEF T
  <2>1. 0 \in Nat /\ n \in Nat /\ n \in 0 .. n
    OBVIOUS
  <2>2. \A j \in 0 .. n : j \in T
    BY <1>5, <1>6, <2>1, UpTo
  <2> QED BY <2>1, <2>2
<1>8. state[k + n] \in AnyState
  <2>1. k + n \in 0 .. Len(said)
    BY <1>1
  <2>2. state[k + n] \in SteadyStates
    BY <1>2, <2>1
  <2> QED BY <2>2 DEF SteadyStates
<1>9. Line(state[k + n], channel, <<>>) = line
  BY <1>3, <1>7
<1> QED BY <1>8, <1>9, EmptyLine DEF state, k, line, rest

-----------------------------------------------------------------------------
(* The flow is where the symbols one by one would have brought it.         *)

Flow == [filter |-> filter, tools |-> tools, fw |-> forwarded]

ChunkInv ==
    /\ phase = "streaming" =>
           torn \/ parted \/ Flow = BySymbols(said)[Len(said) - Len(message)]
    /\ ChunksDoNotMatter

\* Before the first line nothing has happened.
LEMMA InitChunkInv == Init => ChunkInv
<1> SUFFICES ASSUME Init PROVE ChunkInv
  OBVIOUS
<1>1. said = message /\ said \in Seq(Items) /\ phase = "streaming" /\ Flow = Start
  <2>1. said \in Messages /\ message = said
    BY DEF Init
  <2>2. said \in Seq(Items)
    BY <2>1, TextAssumption DEF Items
  <2>3. Flow = Start
    BY DEF Flow, Start, Init
  <2> QED BY <2>1, <2>2, <2>3 DEF Init
<1>2. BySymbols(said)[0] = Start
  BY <1>1, SymbolBySymbol
<1>3. Len(said) \in Nat /\ Len(said) - Len(message) = 0
  <2>1. Len(said) \in Nat
    BY <1>1, LenProperties
  <2> QED BY <1>1, <2>1
<1> QED BY <1>1, <1>2, <1>3 DEF ChunkInv, ChunksDoNotMatter

\* A line keeps it.
LEMMA DeliverChunkInv ==
    ASSUME Remaining, ChunkInv, NEW n \in 1 .. Len(message), Deliver(n)
    PROVE  ChunkInv'
<1> DEFINE channel == message[1].channel
           chunk == Symbols(SubSeq(message, 1, n))
           applied == Apply(filter, tools, channel, chunk)
           state == BySymbols(said)
           k == Len(said) - Len(message)
           line == Line(state[k], channel, chunk)
<1>1. /\ phase = "streaming" /\ phase' = phase /\ said' = said
      /\ \A i \in 1 .. n : message[i].channel = channel
      /\ filter' = applied.filter /\ tools' = applied.tools
      /\ forwarded' = Append2(forwarded, applied.event)
      /\ torn' = (torn \/ Torn(filter'.card))
      /\ parted' = (parted \/ Parted(Carded(filter, chunk)))
      /\ message' = SubSeq(message, n + 1, Len(message))
  BY DEF Deliver, Carded
<1>2. Len(said') - Len(message') = k + n
  <2>1. Remaining' /\ Len(said) \in Nat /\ Len(message) \in Nat /\ message \in Seq(Items)
    BY <1>1, LineFacts, Position
  <2>2. Len(message') = IF n + 1 <= Len(message) THEN Len(message) - (n + 1) + 1 ELSE 0
    <3>1. n + 1 \in Int /\ Len(message) \in Int
          /\ \A j \in n + 1 .. Len(message) : message[j] \in Items
      BY <2>1, ElementOfSeq
    <3> QED BY <1>1, <3>1, SubSeqProperties
  <2>3. Len(message') = Len(message) - n
    BY <2>1, <2>2
  <2>4. \A a, b \in Nat : \A c \in 1 .. b : a - (b - c) = (a - b) + c
    OBVIOUS
  <2>5. Len(said) - (Len(message) - n) = k + n
    BY <2>1, <2>4
  <2> QED BY <1>1, <2>3, <2>5
<1>3. ASSUME ~torn', ~parted' PROVE Flow' = state[k + n]
  <2>1. ~torn /\ ~parted /\ Flow = state[k] /\ ~Parted(Carded(filter, chunk))
    BY <1>1, <1>3 DEF ChunkInv
  <2>2. /\ Flow.filter = filter /\ Flow.tools = tools /\ Flow.fw = forwarded
        /\ Flow' = [filter |-> filter', tools |-> tools', fw |-> forwarded']
    BY DEF Flow
  <2>3. line = After(Flow, applied)
    <3> HIDE DEF Flow, channel, chunk
    <3> QED BY <2>1, <2>2 DEF Line
  <2>4. Flow' = line /\ line.filter = filter'
    <3> HIDE DEF applied, line
    <3> QED BY <1>1, <2>2, <2>3 DEF After
  <2>5. ~Torn(line.filter.card)
    <3> HIDE DEF line
    <3> QED BY <1>1, <1>3, <2>4
  <2>6. line = state[k + n]
    <3>1. ~Parted(Carded(state[k].filter, chunk))
      BY <2>1, <2>2
    <3> HIDE DEF channel
    <3> QED BY <1>1, <2>5, <3>1, LineBySymbols
  <2> QED BY <2>4, <2>6
<1>4. phase' = "streaming" =>
         torn' \/ parted' \/ Flow' = BySymbols(said')[Len(said') - Len(message')]
  <2> HIDE DEF k
  <2> QED BY <1>1, <1>2, <1>3
<1> QED BY <1>1, <1>4 DEF ChunkInv, ChunksDoNotMatter

\* The flow's flush makes of it what it would have made of the symbols.
LEMMA FlushChunkInv ==
    ASSUME Remaining, ChunkInv, Flush
    PROVE  ChunkInv'
<1> DEFINE flushed == FlushStreamParsers(filter, tools)
           last == BySymbols(said)[Len(said)]
<1>1. /\ phase = "streaming" /\ phase' = "flushed" /\ said' = said /\ torn' = torn
      /\ message = <<>> /\ parted' = parted
      /\ forwarded' = Append2(Append2(forwarded, flushed.events[1]), flushed.events[2])
  BY DEF Flush
<1>2. Len(said) - Len(message) = Len(said)
  <2>1. Len(said) \in Nat
    BY Position
  <2> QED BY <1>1, <2>1
<1>3. ASSUME ~torn, ~parted PROVE forwarded' = Whole(said)
  <2>1. Flow = last
    BY <1>1, <1>2, <1>3 DEF ChunkInv
  <2>2. Flow.filter = filter /\ Flow.tools = tools /\ Flow.fw = forwarded
    BY DEF Flow
  <2>3. Whole(said) = Append2(Append2(last.fw, FlushStreamParsers(last.filter, last.tools).events[1]),
                              FlushStreamParsers(last.filter, last.tools).events[2])
    BY DEF Whole, Flushed
  <2> HIDE DEF last
  <2>4. last.filter = filter /\ last.tools = tools /\ last.fw = forwarded
    BY <2>1, <2>2
  <2> QED BY <1>1, <2>3, <2>4
<1> QED BY <1>1, <1>3 DEF ChunkInv, ChunksDoNotMatter

\* Nothing else touches it.
LEMMA ChunkInvStep == Remaining /\ ChunkInv /\ [Next]_vars => ChunkInv'
<1> SUFFICES ASSUME Remaining, ChunkInv, [Next]_vars PROVE ChunkInv'
  OBVIOUS
<1>1. ASSUME NEW n \in 1 .. Len(message), Deliver(n) PROVE ChunkInv'
  BY <1>1, DeliverChunkInv
<1>2. CASE Flush
  BY <1>2, FlushChunkInv
<1>3. CASE Finish
  BY <1>3 DEF Finish, ChunkInv, ChunksDoNotMatter
<1>4. CASE UNCHANGED vars
  BY <1>4 DEF vars, ChunkInv, ChunksDoNotMatter, Flow
<1> QED BY <1>1, <1>2, <1>3, <1>4 DEF Next

\* However the upstream cuts an answer into lines, the flow forwards the same, unless a
\* line opened a card and ended inside the end tag of it, or had a card close after
\* other text.
THEOREM ChunksAgree == Spec => []ChunksDoNotMatter
<1>1. TextInv => Remaining
  BY DEF TextInv
<1>2. ChunkInv => ChunksDoNotMatter
  BY DEF ChunkInv
<1> QED BY <1>1, <1>2, InitChunkInv, ChunkInvStep, TextInvariant, PTL DEF Spec
=============================================================================
