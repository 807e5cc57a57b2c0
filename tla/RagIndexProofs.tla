--------------------------- MODULE RagIndexProofs ---------------------------
(***************************************************************************)
(* Theorems about RagIndex, for any documents, any sizes of chunks and     *)
(* masks, and both stores: what Masking and Chunker compute for every      *)
(* text, and from it what the store holds.                                 *)
(***************************************************************************)
EXTENDS RagIndex, FiniteSetTheorems, SequenceTheorems, TLAPS

-----------------------------------------------------------------------------
(* Numbers, recursive functions and finite sets.                           *)

LEMMA LeastExists ==
    ASSUME NEW T \in SUBSET Nat, T # {}
    PROVE  \E x \in T : \A y \in T : x <= y
  <1> DEFINE Less == {ss \in Nat \X Nat : ss[1] < ss[2]}
  <1>1. IsWellFoundedOn(Less, Nat)
    BY NatLessThanWellFounded DEF OpToRel
  <1>2. \A x, y \in Nat : <<y, x>> \in Less <=> y < x
    OBVIOUS
  <1> HIDE DEF Less
  <1>3. PICK x \in T : \A y \in T : ~ (<<y, x>> \in Less)
    BY <1>1, WFMin
  <1>4. ASSUME NEW y \in T PROVE x <= y
    <2>1. x \in Nat /\ y \in Nat
      OBVIOUS
    <2>2. ~(y < x)
      BY <1>2, <1>3, <2>1, Zenon
    <2> QED BY <2>1, <2>2
  <1> QED BY <1>4

\* Induction: a set with 0 and the successor of each of its members.
LEMMA NatInduct ==
    ASSUME NEW T \in SUBSET Nat, 0 \in T, \A n \in Nat : n \in T => n + 1 \in T
    PROVE  T = Nat
  <1> SUFFICES ASSUME Nat \ T # {} PROVE FALSE
    OBVIOUS
  <1>1. PICK x \in Nat \ T : \A y \in Nat \ T : x <= y
    BY LeastExists
  <1>2. x - 1 \in Nat /\ x - 1 \in T
    BY <1>1
  <1> QED BY <1>1, <1>2

LEMMA GreatestExists ==
    ASSUME NEW T \in SUBSET Nat, T # {}, NEW n \in Nat, \A y \in T : y <= n
    PROVE  \E x \in T : \A y \in T : x >= y
  <1> DEFINE D == {n - y : y \in T}
  <1>1. D \in SUBSET Nat /\ D # {}
    <2>1. ASSUME NEW y \in T PROVE n - y \in Nat
      <3>1. y \in Nat /\ y <= n
        OBVIOUS
      <3> QED BY <3>1
    <2> QED BY <2>1
  <1>2. PICK d \in D : \A e \in D : d <= e
    BY <1>1, LeastExists
  <1>3. PICK x \in T : d = n - x
    BY <1>2
  <1>4. ASSUME NEW y \in T PROVE x >= y
    <2>1. n - x <= n - y /\ x \in Nat /\ y \in Nat
      BY <1>2, <1>3
    <2> QED BY <2>1
  <1> QED BY <1>4

\* A recursive definition on D with values in V: f[x] is base[x] where it stops
\* and is made of x and f[next[x]] elsewhere, next[x] being of a lower rank.
Recursion(D, V, Stop, base, next, op, rank, bound) ==
    /\ Stop \in SUBSET D /\ base \in [D -> V] /\ next \in [D -> D] /\ op \in [D \X V -> V]
    /\ rank \in [D -> Nat] /\ bound \in Nat /\ \A x \in D : rank[x] < bound
    /\ \A x \in D \ Stop : rank[next[x]] < rank[x]

Solves(f, D, V, Stop, base, next, op) ==
    /\ f \in [D -> V]
    /\ \A x \in Stop : f[x] = base[x]
    /\ \A x \in D \ Stop : f[x] = op[<<x, f[next[x]]>>]

LEMMA RecursionExists ==
    ASSUME NEW D, NEW V, NEW Stop, NEW base, NEW next, NEW op, NEW rank, NEW bound,
           Recursion(D, V, Stop, base, next, op, rank, bound)
    PROVE  \E f : Solves(f, D, V, Stop, base, next, op)
  <1>0. /\ Stop \in SUBSET D /\ base \in [D -> V] /\ next \in [D -> D] /\ op \in [D \X V -> V]
        /\ rank \in [D -> Nat] /\ bound \in Nat /\ \A x \in D : rank[x] < bound
        /\ \A x \in D \ Stop : rank[next[x]] < rank[x]
    BY DEF Recursion
  <1> USE <1>0
  <1> DEFINE Below(f, n) == \A x \in D : rank[x] < n =>
                 f[x] = IF x \in Stop THEN base[x] ELSE op[<<x, f[next[x]]>>]
             T == {n \in Nat : \E f \in [D -> V] : Below(f, n)}
  <1>1. 0 \in T
    <2>1. Below(base, 0)
      OBVIOUS
    <2> QED BY <2>1
  <1>2. ASSUME NEW n \in Nat, n \in T PROVE n + 1 \in T
    <2>1. PICK f \in [D -> V] : Below(f, n)
      BY <1>2
    <2> DEFINE value(x) == IF x \in Stop THEN base[x] ELSE op[<<x, f[next[x]]>>]
               g == [x \in D |-> IF rank[x] < n THEN f[x] ELSE value(x)]
    <2>2. ASSUME NEW x \in D PROVE value(x) \in V
      BY <2>1
    <2>3. g \in [D -> V]
      BY <2>1, <2>2
    <2>4. ASSUME NEW x \in D, rank[x] < n + 1
          PROVE  g[x] = IF x \in Stop THEN base[x] ELSE op[<<x, g[next[x]]>>]
      <3>1. g[x] = value(x)
        BY <2>1
      <3>2. x \notin Stop => g[next[x]] = f[next[x]]
        <4> SUFFICES ASSUME x \notin Stop PROVE rank[next[x]] < n
          OBVIOUS
        <4>1. rank[next[x]] < rank[x] /\ rank[x] \in Nat /\ rank[next[x]] \in Nat
          OBVIOUS
        <4> QED BY <4>1, <2>4
      <3> HIDE DEF g
      <3> QED BY <3>1, <3>2
    <2> HIDE DEF g
    <2>5. Below(g, n + 1)
      BY <2>4
    <2> HIDE DEF Below
    <2>6. \E h \in [D -> V] : Below(h, n + 1)
      BY <2>3, <2>5, Zenon
    <2> QED BY <2>6
  <1>3. bound \in T
    <2>1. T \in SUBSET Nat
      OBVIOUS
    <2> HIDE DEF T
    <2> QED BY <1>1, <1>2, <2>1, NatInduct
  <1>4. PICK f \in [D -> V] : Below(f, bound)
    BY <1>3
  <1>5. \A x \in Stop : f[x] = base[x]
    BY <1>4
  <1>6. \A x \in D \ Stop : f[x] = op[<<x, f[next[x]]>>]
    BY <1>4
  <1> QED BY <1>4, <1>5, <1>6 DEF Solves

\* Every set of subsets that a finite set can be built up in has it.
LEMMA SubsetInduct ==
    ASSUME NEW S, IsFiniteSet(S), NEW Good \in SUBSET (SUBSET S), {} \in Good,
           \A P \in SUBSET S : P # {} =>
              \E x \in P : P \ {x} \in Good => P \in Good
    PROVE  \A P \in SUBSET S : P \in Good
  <1> DEFINE T == {n \in Nat : \A P \in SUBSET S : Cardinality(P) = n => P \in Good}
  <1>0. \A P \in SUBSET S : IsFiniteSet(P) /\ Cardinality(P) \in Nat
    BY FS_Subset, FS_CardinalityType
  <1>1. 0 \in T
    BY <1>0, FS_EmptySet
  <1>2. ASSUME NEW n \in Nat, n \in T PROVE n + 1 \in T
    <2> SUFFICES ASSUME NEW P \in SUBSET S, Cardinality(P) = n + 1 PROVE P \in Good
      OBVIOUS
    <2>1. P # {}
      BY <1>0, FS_EmptySet
    <2>2. PICK x \in P : P \ {x} \in Good => P \in Good
      BY <2>1
    <2>3. Cardinality(P \ {x}) = n
      BY <1>0, FS_RemoveElement
    <2> QED BY <1>2, <2>2, <2>3
  <1>3. T = Nat
    BY <1>1, <1>2, NatInduct
  <1> QED BY <1>0, <1>3

LEMMA Offset ==
    ASSUME NEW a \in Nat, NEW n \in Nat, NEW l \in Nat, NEW k \in 1 .. l, a + l <= n
    PROVE  a + k \in 1 .. n /\ a < a + k /\ a + k <= a + l
  OBVIOUS

LEMMA SubSeqOf ==
    ASSUME NEW T, NEW s \in Seq(T), NEW m \in Nat, NEW n \in Nat,
           1 <= m, m <= n + 1, n <= Len(s)
    PROVE  /\ SubSeq(s, m, n) \in Seq(T) /\ Len(SubSeq(s, m, n)) = n - m + 1
           /\ \A i \in 1 .. n - m + 1 : SubSeq(s, m, n)[i] = s[m + i - 1]
  <1>1. Len(s) \in Nat /\ \A i \in 1 .. Len(s) : s[i] \in T
    BY LenProperties, ElementOfSeq
  <1>2. \A i \in m .. n : s[i] \in T
    BY <1>1
  <1> QED BY <1>1, <1>2, SubSeqProperties

LEMMA SuffixOf ==
    ASSUME NEW T, NEW s \in Seq(T), NEW m \in Nat, m <= Len(s)
    PROVE  /\ SubSeq(s, m + 1, Len(s)) \in Seq(T) /\ Len(SubSeq(s, m + 1, Len(s))) = Len(s) - m
           /\ \A i \in 1 .. Len(s) - m : SubSeq(s, m + 1, Len(s))[i] = s[i + m]
  <1>1. Len(s) \in Nat /\ m + 1 \in Nat
    BY LenProperties
  <1> DEFINE a == m + 1
             n == Len(s)
  <1>2. /\ SubSeq(s, a, n) \in Seq(T) /\ Len(SubSeq(s, a, n)) = n - a + 1
        /\ \A i \in 1 .. n - a + 1 : SubSeq(s, a, n)[i] = s[a + i - 1]
    <2>1. 1 <= a /\ a <= n + 1 /\ n <= Len(s) /\ a \in Nat /\ n \in Nat
      BY <1>1
    <2> HIDE DEF a, n
    <2> QED BY <2>1, SubSeqOf
  <1>3. ASSUME NEW i \in 1 .. Len(s) - m PROVE SubSeq(s, a, n)[i] = s[i + m]
    <2>1. i \in 1 .. n - a + 1 /\ a + i - 1 = i + m
      BY <1>1
    <2> HIDE DEF a, n
    <2> QED BY <1>2, <2>1
  <1>4. n - a + 1 = Len(s) - m
    BY <1>1
  <1> QED BY <1>2, <1>3, <1>4

-----------------------------------------------------------------------------
(* Masking: the spans of a text and the order in which they are covered.   *)

Place == [start : Nat, end : Nat]

LEMMA SpanProperties ==
    ASSUME NEW text \in Seq(Int), NEW f \in Seq(Int), NEW s \in Spans(text, f)
    PROVE  /\ s \in Place /\ s.end = s.start + Len(f) /\ s.end <= Len(text)
           /\ \A k \in 1 .. Len(f) : text[s.start + k] = f[k]
  <1>1. PICK i \in 0 .. Len(text) - Len(f) :
           s = [start |-> i, end |-> i + Len(f)] /\ SubSeq(text, i + 1, i + Len(f)) = f
    BY DEF Spans
  <1>2. i \in Nat /\ Len(f) \in Nat /\ Len(text) \in Nat
    OBVIOUS
  <1>3. ASSUME NEW k \in 1 .. Len(f) PROVE text[i + k] = f[k]
    <2> DEFINE m == i + 1
               n == i + Len(f)
    <2>1. m \in Nat /\ n \in Nat /\ 1 <= m /\ m <= n + 1 /\ n <= Len(text)
      BY <1>2
    <2>2. k \in 1 .. n - m + 1 /\ m + k - 1 = i + k
      BY <1>2
    <2>3. SubSeq(text, m, n) = f
      BY <1>1
    <2> HIDE DEF m, n
    <2>4. SubSeq(text, m, n)[k] = text[m + k - 1]
      BY <2>1, <2>2, SubSeqOf
    <2> QED BY <2>2, <2>3, <2>4
  <1> QED BY <1>1, <1>2, <1>3 DEF Place

LEMMA SpansAreFinite ==
    ASSUME NEW text \in Seq(Int), NEW F \in SUBSET Seq(Int)
    PROVE  IsFiniteSet(AllSpans(text, F)) /\ AllSpans(text, F) \in SUBSET Place
  <1> DEFINE S == AllSpans(text, F)
             R == 0 .. Len(text)
             g == [s \in S |-> <<s.start, s.end>>]
  <1>1. ASSUME NEW s \in S PROVE s \in Place /\ s.start \in R /\ s.end \in R
    <2>1. PICK f \in F : s \in Spans(text, f)
      BY DEF AllSpans
    <2> QED BY <2>1, SpanProperties DEF Place
  <1>2. IsFiniteSet(R) /\ IsFiniteSet(R \X R)
    <2>1. IsFiniteSet(R)
      BY FS_Interval
    <2> QED BY <2>1, FS_Product
  <1>3. g \in Injection(S, R \X R)
    BY <1>1 DEF Injection, IsInjective, Place
  <1> QED BY <1>1, <1>2, <1>3, FS_Injection

\* Of any spans one is covered last.
LEMMA CoveredLastExists ==
    ASSUME NEW P \in SUBSET Place, P # {}
    PROVE  CoveredLast(P) \in P /\ \A t \in P \ {CoveredLast(P)} : After(t, CoveredLast(P))
  <1>0. {s.start : s \in P} \in SUBSET Nat /\ {s.start : s \in P} # {}
    BY DEF Place
  <1>1. PICK a \in {s.start : s \in P} : \A b \in {s.start : s \in P} : a <= b
    BY <1>0, LeastExists
  <1> DEFINE Q == {s \in P : s.start = a}
  <1>5. {s.end : s \in Q} \in SUBSET Nat /\ {s.end : s \in Q} # {}
    BY <1>1 DEF Place
  <1>2. PICK c \in {s.end : s \in Q} : \A b \in {s.end : s \in Q} : c <= b
    BY <1>5, LeastExists
  <1>3. PICK s \in Q : s.end = c
    BY <1>2
  <1>4. ASSUME NEW t \in P \ {s} PROVE After(t, s)
    <2>1. s \in Place /\ t \in Place /\ s.start = a /\ a <= t.start
      BY <1>1
    <2>2. t.start = a => s.end <= t.end
      BY <1>2, <1>3
    <2>3. s.start \in Nat /\ s.end \in Nat /\ t.start \in Nat /\ t.end \in Nat
      BY <2>1 DEF Place
    <2>4. s.start # t.start \/ s.end # t.end
      BY <2>1 DEF Place
    <2> QED BY <2>1, <2>2, <2>3, <2>4 DEF After
  <1> QED BY <1>3, <1>4 DEF CoveredLast

LEMMA CoverType ==
    ASSUME NEW text \in Seq(Int), NEW s \in Place, s.start <= s.end, s.end <= Len(text)
    PROVE  LET wide == Larger(MinMask, s.end - s.start)
               new  == Cover(text, s)
           IN  /\ new \in Seq(Int) /\ wide \in Nat /\ wide >= s.end - s.start /\ wide >= MinMask
               /\ wide = MinMask \/ wide = s.end - s.start
               /\ Len(new) = s.start + wide + (Len(text) - s.end)
               /\ \A q \in 1 .. Len(new) :
                     new[q] = IF q <= s.start THEN text[q]
                              ELSE IF q <= s.start + wide THEN Star
                              ELSE text[q - wide - s.start + s.end]
  <1> DEFINE wide == Larger(MinMask, s.end - s.start)
             left == SubSeq(text, 1, s.start)
             stars == Stars(wide)
             right == SubSeq(text, s.end + 1, Len(text))
  <1>1. s.start \in Nat /\ s.end \in Nat /\ MinMask \in Nat /\ Len(text) \in Nat
    BY MaskAssumption DEF Place, MaskAssumption
  <1>2. /\ wide \in Nat /\ wide >= s.end - s.start /\ wide >= MinMask
        /\ wide = MinMask \/ wide = s.end - s.start
    BY <1>1 DEF Larger
  <1> HIDE DEF wide
  <1>3. left \in Seq(Int) /\ Len(left) = s.start /\ \A q \in 1 .. s.start : left[q] = text[q]
    <2>1. \A q \in 1 .. s.start - 1 + 1 : left[q] = text[1 + q - 1]
      BY <1>1, SubSeqOf
    <2>2. left \in Seq(Int) /\ Len(left) = s.start - 1 + 1
      BY <1>1, SubSeqOf
    <2> HIDE DEF left
    <2> QED BY <1>1, <2>1, <2>2
  <1>4. stars \in Seq(Int) /\ Len(stars) = wide /\ \A q \in 1 .. wide : stars[q] = Star
    BY <1>2 DEF Stars, Star
  <1>5. /\ right \in Seq(Int) /\ Len(right) = Len(text) - s.end
        /\ \A q \in 1 .. Len(text) - s.end : right[q] = text[q + s.end]
    BY <1>1, SuffixOf
  <1> HIDE DEF left, stars, right
  <1>6. Cover(text, s) = (left \o stars) \o right
    BY DEF Cover, wide, left, stars, right
  <1> DEFINE both == left \o stars
             new  == both \o right
  <1>7. /\ both \in Seq(Int) /\ Len(both) = s.start + wide
        /\ \A q \in 1 .. s.start + wide :
              both[q] = IF q <= s.start THEN left[q] ELSE stars[q - s.start]
    <2>1. /\ both \in Seq(Int) /\ Len(both) = Len(left) + Len(stars)
          /\ \A q \in 1 .. Len(left) + Len(stars) :
                both[q] = IF q <= Len(left) THEN left[q] ELSE stars[q - Len(left)]
      BY <1>3, <1>4, ConcatProperties
    <2> HIDE DEF both
    <2> QED BY <1>3, <1>4, <2>1
  <1> HIDE DEF both
  <1>8. /\ new \in Seq(Int) /\ Len(new) = (s.start + wide) + (Len(text) - s.end)
        /\ \A q \in 1 .. (s.start + wide) + (Len(text) - s.end) :
              new[q] = IF q <= s.start + wide THEN both[q] ELSE right[q - (s.start + wide)]
    <2>1. /\ new \in Seq(Int) /\ Len(new) = Len(both) + Len(right)
          /\ \A q \in 1 .. Len(both) + Len(right) :
                new[q] = IF q <= Len(both) THEN both[q] ELSE right[q - Len(both)]
      BY <1>5, <1>7, ConcatProperties
    <2> HIDE DEF new
    <2> QED BY <1>5, <1>7, <2>1
  <1> HIDE DEF new
  <1>9. ASSUME NEW q \in 1 .. Len(new)
        PROVE  new[q] = IF q <= s.start THEN text[q]
                        ELSE IF q <= s.start + wide THEN Star
                        ELSE text[q - wide - s.start + s.end]
    <2>0. q \in Nat /\ q >= 1 /\ q <= (s.start + wide) + (Len(text) - s.end)
      BY <1>1, <1>2, <1>8
    <2>1. CASE q <= s.start
      <3>1. q \in 1 .. s.start /\ q <= s.start + wide
        BY <1>1, <1>2, <2>0, <2>1
      <3>2. new[q] = left[q]
        BY <1>7, <1>8, <2>0, <2>1, <3>1
      <3> QED BY <1>3, <2>1, <3>1, <3>2
    <2>2. CASE q > s.start /\ q <= s.start + wide
      <3>1. ~(q <= s.start) /\ q - s.start \in 1 .. wide /\ q \in 1 .. s.start + wide
        BY <1>1, <1>2, <2>0, <2>2
      <3>2. new[q] = stars[q - s.start]
        BY <1>7, <1>8, <2>0, <2>2, <3>1
      <3> QED BY <1>4, <2>2, <3>1, <3>2
    <2>3. CASE q > s.start + wide
      <3>1. new[q] = right[q - (s.start + wide)]
        BY <1>1, <1>2, <1>8, <2>0, <2>3
      <3>2. q - (s.start + wide) \in 1 .. Len(text) - s.end
        BY <1>1, <1>2, <2>0, <2>3
      <3>3. right[q - (s.start + wide)] = text[(q - (s.start + wide)) + s.end]
        BY <1>5, <3>2
      <3>4. /\ (q - (s.start + wide)) + s.end = q - wide - s.start + s.end
            /\ ~(q <= s.start) /\ ~(q <= s.start + wide)
        BY <1>1, <1>2, <2>0, <2>3
      <3> QED BY <3>1, <3>3, <3>4
    <2> QED BY <1>1, <1>2, <2>0, <2>1, <2>2, <2>3
  <1> QED BY <1>2, <1>6, <1>8, <1>9 DEF wide, new, both

\* MaskText covers the spans one after the other.
LEMMA MaskIsFold ==
    ASSUME NEW text \in Seq(Int), NEW F \in SUBSET Seq(Int)
    PROVE  \E it \in [SUBSET AllSpans(text, F) -> {t \in Seq(Int) : Len(t) >= Len(text)}] :
              /\ MaskText(text, F) = it[AllSpans(text, F)]
              /\ it[{}] = text
              /\ \A P \in SUBSET AllSpans(text, F) : P # {} =>
                    it[P] = Cover(it[P \ {CoveredLast(P)}], CoveredLast(P))
  <1> DEFINE S == AllSpans(text, F)
             D == SUBSET S
             V == {t \in Seq(Int) : Len(t) >= Len(text)}
             base == [P \in D |-> text]
             next == [P \in D |-> P \ {CoveredLast(P)}]
             op == [p \in D \X V |-> IF p[1] = {} THEN text ELSE Cover(p[2], CoveredLast(p[1]))]
             rank == [P \in D |-> Cardinality(P)]
  <1>1. IsFiniteSet(S) /\ S \in SUBSET Place /\ Cardinality(S) \in Nat
    BY SpansAreFinite, FS_CardinalityType
  <1>2. \A P \in D : IsFiniteSet(P) /\ Cardinality(P) \in Nat /\ Cardinality(P) <= Cardinality(S)
    BY <1>1, FS_Subset, FS_CardinalityType
  <1>3. \A P \in D : P # {} => CoveredLast(P) \in P
    BY <1>1, CoveredLastExists
  <1>4. text \in V
    BY LenProperties
  <1>5. ASSUME NEW P \in D, P # {}, NEW t \in V PROVE Cover(t, CoveredLast(P)) \in V
    <2> DEFINE s == CoveredLast(P)
    <2>1. s \in S
      BY <1>3, <1>5
    <2>2. PICK f \in F : s \in Spans(text, f)
      BY <2>1 DEF AllSpans
    <2>3. s \in Place /\ s.end = s.start + Len(f) /\ s.end <= Len(text)
      BY <2>2, SpanProperties
    <2>4. s.start \in Nat /\ s.end \in Nat /\ Len(f) \in Nat /\ Len(t) \in Nat /\ Len(text) \in Nat
      BY <2>3, LenProperties DEF Place
    <2>5. t \in Seq(Int) /\ Len(t) >= Len(text) /\ s.start <= s.end /\ s.end <= Len(t)
      BY <2>3, <2>4
    <2> HIDE DEF s
    <2>6. PICK wide \in Nat : /\ wide >= s.end - s.start
                              /\ Cover(t, s) \in Seq(Int)
                              /\ Len(Cover(t, s)) = s.start + wide + (Len(t) - s.end)
      BY <2>3, <2>5, CoverType, Zenon
    <2>7. s.start + wide + (Len(t) - s.end) >= Len(text)
      <3>1. wide \in Nat /\ wide >= s.end - s.start
        BY <2>6, Zenon
      <3>2. Len(t) >= Len(text)
        BY <2>5, Zenon
      <3> QED BY <2>4, <3>1, <3>2
    <2>8. Len(Cover(t, s)) >= Len(text)
      BY <2>6, <2>7, Zenon
    <2> QED BY <2>6, <2>8 DEF s
  <1>6. \E f \in [D -> V] : /\ f[{}] = base[{}]
                            /\ \A P \in D \ {{}} : f[P] = op[<<P, f[next[P]]>>]
    <2>1. base \in [D -> V] /\ next \in [D -> D] /\ rank \in [D -> Nat]
      BY <1>2, <1>4
    <2>2. op \in [D \X V -> V]
      BY <1>4, <1>5
    <2>3. {{}} \in SUBSET D /\ Cardinality(S) + 1 \in Nat
      BY <1>1
    <2>4. \A P \in D : rank[P] < Cardinality(S) + 1
      BY <1>1, <1>2
    <2>5. ASSUME NEW P \in D \ {{}} PROVE rank[next[P]] < rank[P]
      <3>1. CoveredLast(P) \in P /\ Cardinality(P) \in Nat /\ IsFiniteSet(P)
        BY <1>2, <1>3
      <3>2. Cardinality(P \ {CoveredLast(P)}) = Cardinality(P) - 1
        BY <3>1, FS_RemoveElement
      <3>3. next[P] = P \ {CoveredLast(P)} /\ next[P] \in D
        OBVIOUS
      <3>4. rank[P] = Cardinality(P) /\ rank[next[P]] = Cardinality(next[P])
        BY <3>3
      <3> HIDE DEF next, rank
      <3> QED BY <3>1, <3>2, <3>3, <3>4
    <2> DEFINE Stop == {{}}
               bound == Cardinality(S) + 1
    <2> HIDE DEF base, next, op, rank, bound, D, V, S
    <2>6. Recursion(D, V, Stop, base, next, op, rank, bound)
      BY <2>1, <2>2, <2>3, <2>4, <2>5 DEF Recursion, bound
    <2> HIDE DEF Stop
    <2>7. PICK f : Solves(f, D, V, Stop, base, next, op)
      BY <2>6, RecursionExists
    <2> QED BY <2>7 DEF Solves, Stop
  <1>7. PICK f \in [D -> V] : /\ f[{}] = base[{}]
                              /\ \A P \in D \ {{}} : f[P] = op[<<P, f[next[P]]>>]
    BY <1>6
  <1>8. \A P \in D : f[P] = IF P = {} THEN text
                            ELSE Cover(f[P \ {CoveredLast(P)}], CoveredLast(P))
    BY <1>7
  <1> DEFINE body(g) == [P \in SUBSET S |-> IF P = {} THEN text
                            ELSE Cover(g[P \ {CoveredLast(P)}], CoveredLast(P))]
             it == CHOOSE g : g = body(g)
  <1>9. f = body(f)
    BY <1>8
  <1>10. it = body(it)
    BY <1>9
  <1>11. MaskText(text, F) = it[S]
    BY DEF MaskText, MapThenFoldSet
  <1> HIDE DEF it
  <1>12. /\ it = [P \in SUBSET S |-> it[P]]
         /\ it[{}] = text
         /\ \A P \in D : P # {} => it[P] = Cover(it[P \ {CoveredLast(P)}], CoveredLast(P))
    BY <1>10
  <1> DEFINE Good == {P \in D : it[P] \in V}
  <1>13. \A P \in D : P \in Good
    <2>1. {} \in Good
      BY <1>4, <1>12
    <2>2. ASSUME NEW P \in D, P # {} PROVE \E x \in P : P \ {x} \in Good => P \in Good
      <3> SUFFICES ASSUME P \ {CoveredLast(P)} \in Good PROVE it[P] \in V
        BY <1>3, <2>2
      <3>1. it[P \ {CoveredLast(P)}] \in V
        OBVIOUS
      <3> HIDE DEF V, Good
      <3> QED BY <1>5, <1>12, <2>2, <3>1
    <2> HIDE DEF Good
    <2>3. Good \in SUBSET (SUBSET S)
      BY DEF Good
    <2> HIDE DEF S
    <2> QED BY <1>1, <2>1, <2>2, <2>3, SubsetInduct
  <1>14. it \in [SUBSET S -> V]
    BY <1>12, <1>13
  <1> QED BY <1>11, <1>12, <1>14

CoveredAt(P, q) == \E s \in P : s.start < q /\ q <= s.end

\* What can be read behind the first b characters, and what should be: the
\* characters of the text that stand in no span of P.
Seen(masked, b) == {masked[q] : q \in b + 1 .. Len(masked)} \ {Star}
Bare(text, P, b) ==
    {text[q] : q \in {r \in b + 1 .. Len(text) : ~CoveredAt(P, r)}} \ {Star}

\* The spans of P are covered, up to b in their places, behind b somewhere.
Intact(masked, text, P, b) ==
    /\ b \in Nat /\ b <= Len(masked)
    /\ \A q \in 1 .. b : masked[q] = IF CoveredAt(P, q) THEN Star ELSE text[q]
    /\ Seen(masked, b) = Bare(text, P, b)

LEMMA CoverKeepsIntact ==
    ASSUME NEW T \in Seq(Int), NEW text \in Seq(Int), NEW P \in SUBSET Place,
           NEW t \in Place, t.start <= t.end, t.end <= Len(text), NEW b \in Nat,
           Intact(T, text, P, t.end), Intact(T, text, P, b),
           b <= t.end \/ t.end - t.start >= MinMask
    PROVE  Intact(Cover(T, t), text, P \cup {t}, b)
  <1> DEFINE a == t.start
             e == t.end
             new == Cover(T, t)
             n == Len(T)
             Q == P \cup {t}
  <1>1. /\ a \in Nat /\ e \in Nat /\ n \in Nat /\ Len(text) \in Nat /\ MinMask \in Nat
        /\ a <= e /\ e <= n /\ e <= Len(text) /\ b <= n
    BY LenProperties, MaskAssumption DEF Place, MaskAssumption, Intact
  <1>2. PICK w \in Nat : /\ w >= e - a /\ w >= MinMask /\ (w = MinMask \/ w = e - a)
                         /\ new \in Seq(Int) /\ Len(new) = a + w + (n - e)
                         /\ \A q \in 1 .. Len(new) :
                               new[q] = IF q <= a THEN T[q]
                                        ELSE IF q <= a + w THEN Star
                                        ELSE T[q - w - a + e]
    BY <1>1, CoverType
  <1>3. /\ \A q \in 1 .. e : T[q] = IF CoveredAt(P, q) THEN Star ELSE text[q]
        /\ \A q \in 1 .. b : T[q] = IF CoveredAt(P, q) THEN Star ELSE text[q]
        /\ Seen(T, e) = Bare(text, P, e) /\ Seen(T, b) = Bare(text, P, b)
    BY DEF Intact
  <1>4. \A q \in Int : CoveredAt(Q, q) <=> CoveredAt(P, q) \/ (a < q /\ q <= e)
    BY DEF CoveredAt
  <1>8. b <= e \/ e - a >= MinMask
    OBVIOUS
  <1> HIDE DEF new, a, e, n, Q
  <1>7. /\ w >= e - a /\ Len(new) = a + w + (n - e) /\ a + w >= e /\ Len(new) >= n
        /\ Len(new) \in Nat
    BY <1>1, <1>2
  <1>5. CASE b <= e
    <2>1. b <= Len(new)
      BY <1>1, <1>2, <1>5
    <2>2. ASSUME NEW q \in 1 .. b
          PROVE  new[q] = IF CoveredAt(Q, q) THEN Star ELSE text[q]
      <3>1. q \in Int /\ q \in 1 .. e /\ q \in 1 .. Len(new) /\ q <= a + w
        <4>1. q \in Int /\ 1 <= q /\ q <= b
          OBVIOUS
        <4> QED BY <1>1, <1>5, <1>7, <4>1
      <3>2. new[q] = IF q <= a THEN T[q] ELSE Star
        BY <1>2, <3>1
      <3>3. CoveredAt(Q, q) <=> CoveredAt(P, q) \/ (a < q /\ q <= e)
        BY <1>4, <3>1
      <3>4. T[q] = IF CoveredAt(P, q) THEN Star ELSE text[q]
        BY <1>3, <3>1
      <3> QED BY <1>1, <3>1, <3>2, <3>3, <3>4
    <2>3. ASSUME NEW x \in Seen(new, b) PROVE x \in Bare(text, Q, b)
      <3>1. PICK q \in b + 1 .. Len(new) : x = new[q] /\ x # Star
        BY DEF Seen
      <3>2. CASE q <= a
        <4>1. T[q] # Star /\ q \in 1 .. e /\ x = T[q]
          BY <1>1, <1>2, <3>1, <3>2
        <4>2. ~CoveredAt(Q, q) /\ x = text[q] /\ q \in b + 1 .. Len(text)
          <5>1. q \in Int /\ q <= a /\ q \in b + 1 .. Len(text)
            BY <1>1, <3>1, <3>2
          <5>2. ~CoveredAt(P, q) /\ x = text[q]
            BY <1>3, <4>1
          <5>3. CoveredAt(Q, q) <=> CoveredAt(P, q) \/ (a < q /\ q <= e)
            BY <1>4, <5>1
          <5> QED BY <1>1, <5>1, <5>2, <5>3
        <4> QED BY <3>1, <4>2 DEF Bare
      <3>3. CASE q > a
        <4>1. q > a + w /\ q - w - a + e \in e + 1 .. n /\ x = T[q - w - a + e]
          BY <1>1, <1>2, <3>1, <3>3
        <4>2. x \in Bare(text, P, e)
          BY <1>3, <3>1, <4>1 DEF Seen, n
        <4>3. PICK r \in e + 1 .. Len(text) : ~CoveredAt(P, r) /\ x = text[r]
          BY <4>2 DEF Bare
        <4>4. ~CoveredAt(Q, r) /\ r \in b + 1 .. Len(text)
          BY <1>1, <1>4, <1>5, <4>3
        <4> QED BY <3>1, <4>3, <4>4 DEF Bare
      <3> QED BY <1>1, <3>2, <3>3
    <2>4. ASSUME NEW x \in Bare(text, Q, b) PROVE x \in Seen(new, b)
      <3>1. PICK r \in b + 1 .. Len(text) : ~CoveredAt(Q, r) /\ x = text[r] /\ x # Star
        BY DEF Bare
      <3>2. CASE r <= a
        <4>1. r \in 1 .. e /\ r \in b + 1 .. Len(new) /\ r \in 1 .. Len(new)
          BY <1>1, <1>2, <3>1, <3>2
        <4>2. new[r] = x
          BY <1>1, <1>2, <1>3, <1>4, <3>1, <3>2, <4>1
        <4> QED BY <3>1, <4>1, <4>2 DEF Seen
      <3>3. CASE r > e
        <4>1. x \in Seen(T, e)
          <5>1. r \in e + 1 .. Len(text) /\ ~CoveredAt(P, r)
            BY <1>1, <1>4, <3>1, <3>3
          <5> QED BY <1>3, <3>1, <5>1 DEF Bare
        <4>2. PICK q \in e + 1 .. n : x = T[q]
          BY <4>1 DEF Seen, n
        <4> DEFINE k == q + w + a - e
        <4>3. k \in b + 1 .. Len(new) /\ k \in 1 .. Len(new) /\ k > a + w /\ k - w - a + e = q
          BY <1>1, <1>2, <1>5, <4>2
        <4> HIDE DEF k
        <4>4. new[k] = x
          <5>1. new[k] = IF k <= a THEN T[k] ELSE IF k <= a + w THEN Star ELSE T[k - w - a + e]
            BY <1>2, <4>3
          <5>2. ~(k <= a) /\ ~(k <= a + w)
            <6>1. k \in Int /\ k > a + w
              BY <4>3
            <6> QED BY <1>1, <6>1
          <5> QED BY <4>2, <4>3, <5>1, <5>2
        <4> QED BY <3>1, <4>3, <4>4 DEF Seen
      <3>4. r <= a \/ r > e
        BY <1>1, <1>4, <3>1
      <3> QED BY <3>2, <3>3, <3>4
    <2> QED BY <2>1, <2>2, <2>3, <2>4 DEF Intact, new, Q
  <1>6. CASE ~(b <= e)
    <2>1. w = e - a /\ Len(new) = n
      <3>1. w \in Nat /\ w >= e - a /\ (w = MinMask \/ w = e - a) /\ e - a >= MinMask
        BY <1>2, <1>6, <1>8
      <3> QED BY <1>1, <1>7, <3>1
    <2>2. \A q \in 1 .. n : new[q] = IF a < q /\ q <= e THEN Star ELSE T[q]
      <3> SUFFICES ASSUME NEW q \in 1 .. n
                   PROVE  new[q] = IF a < q /\ q <= e THEN Star ELSE T[q]
        OBVIOUS
      <3>1. q \in Int /\ q \in 1 .. Len(new) /\ a + w = e /\ q - w - a + e = q
        BY <1>1, <2>1
      <3>2. new[q] = IF q <= a THEN T[q] ELSE IF q <= a + w THEN Star ELSE T[q - w - a + e]
        BY <1>2, <3>1
      <3> QED BY <1>1, <3>1, <3>2
    <2>3. ASSUME NEW q \in 1 .. b
          PROVE  new[q] = IF CoveredAt(Q, q) THEN Star ELSE text[q]
      <3>1. q \in Int /\ q \in 1 .. n
        <4>1. q \in Int /\ 1 <= q /\ q <= b
          OBVIOUS
        <4> QED BY <1>1, <4>1
      <3>2. new[q] = IF a < q /\ q <= e THEN Star ELSE T[q]
        BY <2>2, <3>1
      <3>3. CoveredAt(Q, q) <=> CoveredAt(P, q) \/ (a < q /\ q <= e)
        BY <1>4, <3>1
      <3> QED BY <1>3, <3>2, <3>3
    <2>4. Seen(new, b) = Seen(T, b)
      <3>1. \A q \in b + 1 .. n : new[q] = T[q]
        BY <1>1, <1>6, <2>2
      <3> QED BY <2>1, <3>1 DEF Seen, n
    <2>5. Bare(text, Q, b) = Bare(text, P, b)
      <3>1. \A r \in b + 1 .. Len(text) : CoveredAt(Q, r) <=> CoveredAt(P, r)
        BY <1>1, <1>4, <1>6
      <3> QED BY <3>1 DEF Bare
    <2> QED BY <1>1, <1>3, <2>1, <2>3, <2>4, <2>5 DEF Intact, new, Q
  <1> QED BY <1>5, <1>6

LEMMA MaskType ==
    ASSUME NEW text \in Seq(Int), NEW F \in SUBSET Seq(Int)
    PROVE  MaskText(text, F) \in Seq(Int)
  <1> DEFINE S == AllSpans(text, F)
  <1>1. PICK it \in [SUBSET S -> {t \in Seq(Int) : Len(t) >= Len(text)}] : MaskText(text, F) = it[S]
    BY MaskIsFold
  <1> HIDE DEF S
  <1>2. it[S] \in Seq(Int)
    BY <1>1
  <1> QED BY <1>1, <1>2

\* No mask moves the text behind it: what can still be read are the characters
\* that stand in no span, and no other.
LEMMA MaskIsExact ==
    ASSUME NEW text \in Seq(Int), NEW F \in SUBSET Seq(Int), ~Shifts(text, F)
    PROVE  Intact(MaskText(text, F), text, AllSpans(text, F), 0)
  <1> DEFINE S == AllSpans(text, F)
  <1>1. PICK it \in [SUBSET S -> {t \in Seq(Int) : Len(t) >= Len(text)}] :
              /\ MaskText(text, F) = it[S]
              /\ it[{}] = text
              /\ \A P \in SUBSET S : P # {} =>
                    it[P] = Cover(it[P \ {CoveredLast(P)}], CoveredLast(P))
    BY MaskIsFold
  <1>2. IsFiniteSet(S) /\ S \in SUBSET Place
    BY SpansAreFinite
  <1>3. ASSUME NEW s \in S PROVE s \in Place /\ s.start <= s.end /\ s.end <= Len(text)
    <2>1. PICK f \in F : s \in Spans(text, f)
      BY DEF AllSpans
    <2>2. s \in Place /\ s.end = s.start + Len(f) /\ s.end <= Len(text)
      BY <2>1, SpanProperties
    <2>3. s.start \in Nat /\ Len(f) \in Nat
      BY <2>2, LenProperties DEF Place
    <2> QED BY <2>2, <2>3
  <1>4. ASSUME NEW s \in S, NEW u \in S, s.end - s.start < MinMask, u.start < s.start
        PROVE  ~(s.start < u.end)
    BY <1>4 DEF AllSpans, Shifts
  <1> DEFINE UpClosed(P) == \A t \in P : \A u \in S \ P : After(t, u)
             Bounds(P) == {0} \cup {u.end : u \in S \ P}
             Good == {P \in SUBSET S : UpClosed(P) => \A b \in Bounds(P) : Intact(it[P], text, P, b)}
  <1> HIDE DEF S
  <1>5. {} \in Good
    <2> SUFFICES ASSUME NEW b \in Bounds({}) PROVE Intact(text, text, {}, b)
      BY <1>1
    <2>1. b \in Nat /\ b <= Len(text)
      BY <1>3, LenProperties DEF Place
    <2>2. \A q : ~CoveredAt({}, q)
      BY DEF CoveredAt
    <2>3. {r \in b + 1 .. Len(text) : ~CoveredAt({}, r)} = b + 1 .. Len(text)
      BY <2>2
    <2>4. Seen(text, b) = Bare(text, {}, b)
      BY <2>3 DEF Seen, Bare
    <2> QED BY <2>1, <2>2, <2>4 DEF Intact
  <1>6. ASSUME NEW P \in SUBSET S, P # {} PROVE \E x \in P : P \ {x} \in Good => P \in Good
    <2> DEFINE x == CoveredLast(P)
               R == P \ {x}
    <2>1. x \in P /\ \A t \in P \ {x} : After(t, x)
      BY <1>2, <1>6, CoveredLastExists
    <2> HIDE DEF x
    <2> SUFFICES ASSUME R \in Good, UpClosed(P), NEW b \in Bounds(P)
                 PROVE  Intact(it[P], text, P, b)
      BY <2>1
    <2>2. UpClosed(R)
      <3> SUFFICES ASSUME NEW t \in R, NEW u \in S \ R PROVE After(t, u)
        OBVIOUS
      <3>1. CASE u = x
        BY <2>1, <3>1
      <3>2. CASE u # x
        BY <3>2
      <3> QED BY <3>1, <3>2
    <2>3. x \in S /\ x \in Place /\ x.start <= x.end /\ x.end <= Len(text)
      BY <1>3, <2>1
    <2>4. b \in Bounds(R) /\ x.end \in Bounds(R)
      BY <2>1
    <2>5. Intact(it[R], text, R, b) /\ Intact(it[R], text, R, x.end)
      BY <2>2, <2>4
    <2>6. b \in Nat /\ (b <= x.end \/ x.end - x.start >= MinMask)
      <3>1. x.start \in Nat /\ x.end \in Nat /\ MinMask \in Nat
        BY <2>3, MaskAssumption DEF Place, MaskAssumption
      <3>2. CASE b = 0
        BY <3>1, <3>2
      <3>3. ASSUME NEW u \in S \ P, b = u.end
            PROVE  b \in Nat /\ (b <= x.end \/ x.end - x.start >= MinMask)
        <4>1. After(x, u) /\ u \in Place /\ u.start \in Nat /\ u.end \in Nat
          BY <1>3, <2>1 DEF Place
        <4>2. x.end - x.start < MinMask /\ u.start < x.start => ~(x.start < u.end)
          BY <1>4, <2>3
        <4> QED BY <2>3, <3>1, <3>3, <4>1, <4>2 DEF After
      <3> QED BY <3>2, <3>3
    <2>7. R \in SUBSET S /\ R \in SUBSET Place /\ it[R] \in Seq(Int) /\ P = R \cup {x}
      BY <1>1, <1>2, <2>1
    <2>8. it[P] = Cover(it[R], x)
      BY <1>1, <1>6 DEF x
    <2> HIDE DEF R, Bounds, Good, UpClosed
    <2>9. Intact(Cover(it[R], x), text, R \cup {x}, b)
      BY <2>3, <2>5, <2>6, <2>7, CoverKeepsIntact
    <2> QED BY <2>7, <2>8, <2>9
  <1>7. S \in Good
    <2>1. Good \in SUBSET (SUBSET S)
      OBVIOUS
    <2> HIDE DEF Good
    <2> QED BY <1>2, <1>5, <1>6, <2>1, SubsetInduct
  <1>8. UpClosed(S) /\ 0 \in Bounds(S)
    OBVIOUS
  <1> QED BY <1>1, <1>7, <1>8 DEF S

\* A character other than white space stands in the text once.
Distinct(text) == \A i, j \in 1 .. Len(text) : text[i] = text[j] /\ text[i] # Space => i = j

LEMMA ScanKeepsTheRest ==
    ASSUME NEW text \in Seq(Nat), NEW F \in SUBSET Seq(Nat), ~Shifts(text, FoundIn(text, F)),
           NEW q \in 1 .. Len(text), \A f \in FoundIn(text, F) : text[q] \notin Range(f)
    PROVE  text[q] \in Range(ScanText(text, F).masked)
  <1> DEFINE G == FoundIn(text, F)
             M == MaskText(text, G)
  <1>1. text \in Seq(Int) /\ F \in SUBSET Seq(Int) /\ G \in SUBSET Seq(Int) /\ M \in Seq(Int)
    <2>1. text \in Seq(Int) /\ F \in SUBSET Seq(Int)
      BY SeqMonotonic
    <2>2. G \in SUBSET Seq(Int)
      BY <2>1 DEF FoundIn
    <2> QED BY <2>1, <2>2, MaskType
  <1>2. Seen(M, 0) = Bare(text, AllSpans(text, G), 0)
    BY <1>1, MaskIsExact DEF Intact
  <1>3. ~CoveredAt(AllSpans(text, G), q)
    <2> SUFFICES ASSUME NEW s \in AllSpans(text, G), s.start < q, q <= s.end PROVE FALSE
      BY DEF CoveredAt
    <2>1. PICK f \in G : s \in Spans(text, f)
      BY DEF AllSpans
    <2>2. /\ s \in Place /\ s.end = s.start + Len(f) /\ f \in Seq(Int)
          /\ \A k \in 1 .. Len(f) : text[s.start + k] = f[k]
      BY <1>1, <2>1, SpanProperties
    <2> DEFINE k == q - s.start
    <2>3. k \in 1 .. Len(f) /\ s.start + k = q
      BY <2>2, LenProperties DEF Place
    <2>4. text[q] = f[k] /\ k \in DOMAIN f
      BY <2>2, <2>3
    <2> QED BY <2>1, <2>4 DEF Range
  <1>4. q \in 0 + 1 .. Len(text) /\ text[q] # Star
    <2>1. text[q] \in Nat
      BY ElementOfSeq
    <2> QED BY <2>1 DEF Star
  <1>5. text[q] \in Seen(M, 0)
    BY <1>2, <1>3, <1>4 DEF Bare
  <1>6. text[q] \in Range(M)
    <2>1. PICK k \in 0 + 1 .. Len(M) : text[q] = M[k]
      BY <1>5 DEF Seen
    <2>2. k \in DOMAIN M
      BY <1>1, <2>1
    <2> QED BY <2>1, <2>2 DEF Range
  <1> QED BY <1>6 DEF ScanText

LEMMA ScanMasksFindings ==
    ASSUME NEW text \in Seq(Nat), NEW F \in SUBSET Seq(Nat), ~Shifts(text, FoundIn(text, F)),
           Distinct(text), NEW f \in FoundIn(text, F)
    PROVE  Range(f) \cap Range(ScanText(text, F).masked) \subseteq {Space}
  <1> DEFINE G == FoundIn(text, F)
             M == MaskText(text, G)
  <1>1. text \in Seq(Int) /\ G \in SUBSET Seq(Int) /\ M \in Seq(Int) /\ f \in Seq(Nat) /\ f \in G
    <2>1. text \in Seq(Int) /\ F \in SUBSET Seq(Int)
      BY SeqMonotonic
    <2>2. G \in SUBSET Seq(Int) /\ f \in Seq(Nat)
      BY <2>1 DEF FoundIn
    <2> QED BY <2>1, <2>2, MaskType
  <1>2. Seen(M, 0) = Bare(text, AllSpans(text, G), 0)
    BY <1>1, MaskIsExact DEF Intact
  <1> SUFFICES ASSUME NEW c, c \in Range(f), c \in Range(M), c # Space PROVE FALSE
    BY DEF ScanText
  <1>3. PICK k \in 1 .. Len(f) : c = f[k]
    BY <1>1 DEF Range
  <1>4. c # Star
    <2>1. c \in Nat
      BY <1>1, <1>3, ElementOfSeq
    <2> QED BY <2>1 DEF Star
  <1>5. c \in Seen(M, 0)
    <2>1. PICK q \in 1 .. Len(M) : c = M[q]
      BY <1>1 DEF Range
    <2>2. q \in 0 + 1 .. Len(M)
      BY <2>1
    <2> QED BY <1>4, <2>1, <2>2 DEF Seen
  <1>6. PICK r \in 1 .. Len(text) : c = text[r] /\ ~CoveredAt(AllSpans(text, G), r)
    BY <1>2, <1>5 DEF Bare
  <1>7. PICK s \in Spans(text, f) : TRUE
    BY DEF FoundIn
  <1>8. /\ s \in Place /\ s.end = s.start + Len(f) /\ s.end <= Len(text)
        /\ text[s.start + k] = c
    BY <1>1, <1>3, <1>7, SpanProperties, SeqMonotonic
  <1>9. /\ s.start \in Nat /\ Len(f) \in Nat /\ Len(text) \in Nat
        /\ s.start + k \in 1 .. Len(text) /\ s.start < s.start + k /\ s.start + k <= s.end
    <2>1. s.start \in Nat /\ Len(f) \in Nat /\ Len(text) \in Nat
      BY <1>1, <1>8, LenProperties DEF Place
    <2>2. s.end = s.start + Len(f) /\ s.start + Len(f) <= Len(text)
      BY <1>8, Zenon
    <2>3. s.start + k \in 1 .. Len(text) /\ s.start < s.start + k /\ s.start + k <= s.start + Len(f)
      BY <1>3, <2>1, <2>2, Offset
    <2> QED BY <2>1, <2>2, <2>3, Zenon
  <1>10. r = s.start + k
    BY <1>6, <1>8, <1>9 DEF Distinct
  <1>11. s \in AllSpans(text, G)
    BY <1>1, <1>7 DEF AllSpans
  <1> QED BY <1>6, <1>9, <1>10, <1>11 DEF CoveredAt

-----------------------------------------------------------------------------
(* Chunker: what stands where in a text.                                   *)

PieceAt(w, text, a) ==
    /\ a \in Nat /\ a + Len(w) <= Len(text)
    /\ \A k \in 1 .. Len(w) : w[k] = text[a + k]

InText(w, text) == \E a \in Nat : PieceAt(w, text, a)

LEMMA InTextIsTransitive ==
    ASSUME NEW u \in Seq(Nat), NEW w \in Seq(Nat), NEW text \in Seq(Nat),
           InText(u, w), InText(w, text)
    PROVE  InText(u, text)
  <1>1. PICK a \in Nat : PieceAt(u, w, a)
    BY DEF InText
  <1>2. PICK b \in Nat : PieceAt(w, text, b)
    BY DEF InText
  <1>3. Len(u) \in Nat /\ Len(w) \in Nat /\ Len(text) \in Nat
    BY LenProperties
  <1>4. b + a \in Nat /\ b + a + Len(u) <= Len(text)
    BY <1>1, <1>2, <1>3 DEF PieceAt
  <1>5. ASSUME NEW k \in 1 .. Len(u) PROVE u[k] = text[b + a + k]
    <2>1. u[k] = w[a + k] /\ a + k \in 1 .. Len(w)
      BY <1>1, <1>3 DEF PieceAt
    <2>2. w[a + k] = text[b + (a + k)]
      BY <1>2, <2>1 DEF PieceAt
    <2>3. b + (a + k) = b + a + k
      BY <1>3
    <2> QED BY <2>1, <2>2, <2>3
  <1> QED BY <1>4, <1>5 DEF PieceAt, InText

LEMMA InTextConcat ==
    ASSUME NEW w \in Seq(Nat), NEW s \in Seq(Nat), NEW t \in Seq(Nat)
    PROVE  InText(w, s) \/ InText(w, t) => InText(w, s \o t)
  <1>1. Len(w) \in Nat /\ Len(s) \in Nat /\ Len(t) \in Nat
    BY LenProperties
  <1>2. /\ Len(s \o t) = Len(s) + Len(t)
        /\ \A i \in 1 .. Len(s) + Len(t) :
              (s \o t)[i] = IF i <= Len(s) THEN s[i] ELSE t[i - Len(s)]
    BY ConcatProperties
  <1> DEFINE st == s \o t
  <1> HIDE DEF st
  <1>3. ASSUME NEW a \in Nat, PieceAt(w, s, a) PROVE PieceAt(w, st, a)
    <2>1. a + Len(w) <= Len(st)
      BY <1>1, <1>2, <1>3 DEF PieceAt, st
    <2>2. ASSUME NEW k \in 1 .. Len(w) PROVE w[k] = st[a + k]
      <3>1. w[k] = s[a + k] /\ a + k \in 1 .. Len(s) + Len(t) /\ a + k <= Len(s)
        <4>1. w[k] = s[a + k] /\ a + Len(w) <= Len(s)
          BY <1>3 DEF PieceAt
        <4>2. a + k \in 1 .. Len(s)
          BY <1>1, <4>1, Offset
        <4> QED BY <1>1, <4>1, <4>2
      <3> QED BY <1>2, <3>1 DEF st
    <2> QED BY <2>1, <2>2 DEF PieceAt
  <1>4. ASSUME NEW a \in Nat, PieceAt(w, t, a) PROVE PieceAt(w, st, Len(s) + a)
    <2>1. Len(s) + a \in Nat /\ Len(s) + a + Len(w) <= Len(st)
      BY <1>1, <1>2, <1>4 DEF PieceAt, st
    <2>2. ASSUME NEW k \in 1 .. Len(w) PROVE w[k] = st[Len(s) + a + k]
      <3> DEFINE i == Len(s) + a + k
      <3>1. w[k] = t[a + k] /\ i \in 1 .. Len(s) + Len(t) /\ ~(i <= Len(s)) /\ i - Len(s) = a + k
        <4>1. w[k] = t[a + k] /\ a + Len(w) <= Len(t)
          BY <1>4 DEF PieceAt
        <4>2. a + k \in 1 .. Len(t)
          BY <1>1, <4>1, Offset
        <4>3. i = Len(s) + (a + k) /\ i - Len(s) = a + k
          BY <1>1
        <4>4. i \in 1 .. Len(s) + Len(t) /\ ~(i <= Len(s))
          <5> DEFINE c == a + k
          <5>1. c \in 1 .. Len(t) /\ i = Len(s) + c
            BY <4>2, <4>3
          <5> HIDE DEF c, i
          <5> QED BY <1>1, <5>1
        <4> QED BY <4>1, <4>3, <4>4
      <3> HIDE DEF i
      <3>2. st[i] = t[i - Len(s)]
        BY <1>2, <3>1 DEF st
      <3> QED BY <3>1, <3>2 DEF i
    <2> QED BY <2>1, <2>2 DEF PieceAt
  <1>5. \A a \in Nat : Len(s) + a \in Nat
    BY <1>1
  <1> QED BY <1>3, <1>4, <1>5 DEF InText, st

LEMMA PieceIsDistinct ==
    ASSUME NEW w \in Seq(Nat), NEW text \in Seq(Nat), Distinct(text), InText(w, text)
    PROVE  Distinct(w)
  <1>1. PICK a \in Nat : PieceAt(w, text, a)
    BY DEF InText
  <1>2. Len(w) \in Nat /\ Len(text) \in Nat
    BY LenProperties
  <1> SUFFICES ASSUME NEW i \in 1 .. Len(w), NEW j \in 1 .. Len(w), w[i] = w[j], w[i] # Space
               PROVE  i = j
    BY DEF Distinct
  <1>3. w[i] = text[a + i] /\ w[j] = text[a + j]
    BY <1>1 DEF PieceAt
  <1>4. a + i \in 1 .. Len(text) /\ a + j \in 1 .. Len(text)
    <2>1. a + Len(w) <= Len(text)
      BY <1>1 DEF PieceAt
    <2> QED BY <1>2, <2>1, Offset
  <1>5. a + i = a + j
    BY <1>3, <1>4 DEF Distinct
  <1> QED BY <1>5

LEMMA SpanIsInText ==
    ASSUME NEW w \in Seq(Nat), NEW text \in Seq(Nat)
    PROVE  Spans(text, w) # {} <=> InText(w, text)
  <1>0. Len(w) \in Nat /\ Len(text) \in Nat /\ w \in Seq(Int) /\ text \in Seq(Int)
    BY LenProperties, SeqMonotonic
  <1>1. ASSUME NEW s \in Spans(text, w) PROVE PieceAt(w, text, s.start) /\ s.start \in Nat
    <2>1. /\ s \in Place /\ s.end = s.start + Len(w) /\ s.end <= Len(text)
          /\ \A k \in 1 .. Len(w) : text[s.start + k] = w[k]
      BY <1>0, SpanProperties
    <2> QED BY <2>1 DEF Place, PieceAt
  <1>2. ASSUME NEW a \in Nat, PieceAt(w, text, a) PROVE Spans(text, w) # {}
    <2>1. a \in 0 .. Len(text) - Len(w)
      BY <1>0, <1>2 DEF PieceAt
    <2> DEFINE m == a + 1
               n == a + Len(w)
    <2>2. m \in Nat /\ n \in Nat /\ 1 <= m /\ m <= n + 1 /\ n <= Len(text) /\ n - m + 1 = Len(w)
      BY <1>0, <2>1
    <2>3. \A i \in 1 .. Len(w) : m + i - 1 = a + i
      BY <1>0
    <2> HIDE DEF m, n
    <2>4. /\ SubSeq(text, m, n) \in Seq(Nat) /\ Len(SubSeq(text, m, n)) = Len(w)
          /\ \A i \in 1 .. Len(w) : SubSeq(text, m, n)[i] = text[m + i - 1]
      <3>1. /\ SubSeq(text, m, n) \in Seq(Nat) /\ Len(SubSeq(text, m, n)) = n - m + 1
            /\ \A i \in 1 .. n - m + 1 : SubSeq(text, m, n)[i] = text[m + i - 1]
        BY <2>2, SubSeqOf
      <3> QED BY <2>2, <3>1
    <2>5. \A i \in 1 .. Len(w) : SubSeq(text, m, n)[i] = w[i]
      BY <1>2, <2>3, <2>4 DEF PieceAt
    <2>6. SubSeq(text, m, n) = w
      BY <2>4, <2>5, SeqEqual
    <2> QED BY <2>1, <2>6 DEF Spans, m, n
  <1> QED BY <1>1, <1>2 DEF InText

\* What is stripped off are spaces at both ends.
LEMMA StripProperties ==
    ASSUME NEW text \in Seq(Nat)
    PROVE  /\ Strip(text) \in Seq(Nat)
           /\ \E a \in Nat : /\ PieceAt(Strip(text), text, a)
                             /\ \A q \in 1 .. Len(text) : text[q] # Space =>
                                   a < q /\ q <= a + Len(Strip(text))
  <1> DEFINE I == {i \in 1 .. Len(text) : text[i] # Space}
             first == IF I # {} THEN Min(I) ELSE 0
             last == IF I # {} THEN Max(I) ELSE 0
  <1>1. Strip(text) = IF first = 0 THEN <<>> ELSE SubSeq(text, first, last)
    BY DEF Strip, SelectInSeq, SelectLastInSeq
  <1>2. Len(text) \in Nat /\ I \in SUBSET Nat /\ \A i \in I : 1 <= i /\ i <= Len(text)
    BY LenProperties
  <1>3. CASE I = {}
    <2>1. Strip(text) = <<>>
      BY <1>1, <1>3
    <2>2. PieceAt(<<>>, text, 0)
      BY <1>2 DEF PieceAt
    <2>3. \A q \in 1 .. Len(text) : text[q] = Space
      BY <1>3
    <2> HIDE DEF I
    <2> QED BY <2>1, <2>2, <2>3
  <1>4. CASE I # {}
    <2> HIDE DEF I
    <2>1. first \in I /\ \A i \in I : first <= i
      BY <1>2, <1>4, LeastExists DEF Min
    <2>2. last \in I /\ \A i \in I : last >= i
      BY <1>2, <1>4, GreatestExists DEF Max
    <2> HIDE DEF first, last
    <2>3. /\ first \in Nat /\ last \in Nat /\ 1 <= first /\ first <= last /\ first <= last + 1
          /\ last <= Len(text)
      BY <1>2, <2>1, <2>2
    <2>4. Strip(text) = SubSeq(text, first, last)
      BY <1>1, <2>3
    <2>5. /\ Strip(text) \in Seq(Nat) /\ Len(Strip(text)) = last - first + 1
          /\ \A i \in 1 .. last - first + 1 : Strip(text)[i] = text[first + i - 1]
      BY <2>3, <2>4, SubSeqOf
    <2>6. PieceAt(Strip(text), text, first - 1)
      <3>1. \A i \in Int : first + i - 1 = (first - 1) + i
        BY <2>3
      <3>2. first - 1 \in Nat /\ (first - 1) + (last - first + 1) <= Len(text)
        BY <2>3
      <3>3. ASSUME NEW k \in 1 .. Len(Strip(text)) PROVE Strip(text)[k] = text[(first - 1) + k]
        <4>1. k \in 1 .. last - first + 1 /\ k \in Int
          BY <2>5
        <4> QED BY <2>5, <3>1, <4>1
      <3> QED BY <2>5, <3>2, <3>3 DEF PieceAt
    <2>7. ASSUME NEW q \in 1 .. Len(text), text[q] # Space
          PROVE  first - 1 < q /\ q <= first - 1 + Len(Strip(text))
      <3>1. q \in I
        BY <2>7 DEF I
      <3>2. first <= q /\ q <= last /\ q \in Nat
        BY <2>1, <2>2, <2>3, <3>1
      <3> QED BY <2>3, <2>5, <3>2
    <2> QED BY <2>3, <2>5, <2>6, <2>7
  <1> QED BY <1>3, <1>4

\* A text that the overlap is wide enough for.
Short(w) == w \in Stripped /\ Len(w) <= OverlapChars + 1

LEMMA ShortProperties ==
    ASSUME NEW w, Short(w)
    PROVE  /\ w \in Seq(Nat) /\ Len(w) \in Nat /\ 1 <= Len(w) /\ Len(w) <= OverlapChars + 1
           /\ w[1] # Space /\ w[Len(w)] # Space
  <1>1. w \in Seq(Nat) /\ w # <<>> /\ w[1] # Space /\ w[Len(w)] # Space /\ Len(w) <= OverlapChars + 1
    BY DEF Short, Stripped
  <1>2. Len(w) \in Nat \ {0}
    BY <1>1, EmptySeq
  <1> QED BY <1>1, <1>2

\* Pieces of a text in which everything short that stands between its m-th and
\* n-th character can be found.
Pieces(r, text, m, n) ==
    /\ r \in Seq(Seq(Nat))
    /\ \A k \in 1 .. Len(r) : Fits(r[k]) /\ InText(r[k], text)
    /\ \A w : Short(w) => \A a \in Nat :
          PieceAt(w, text, a) /\ m <= a /\ a + Len(w) <= n => \E k \in 1 .. Len(r) : InText(w, r[k])

\* One slice of a text, stripped.
LEMMA OneSlice ==
    ASSUME NEW text \in Seq(Nat), NEW m \in Nat, NEW n \in Nat, m <= n, n <= Len(text),
           n - m <= MaxChars
    PROVE  Pieces(IfAny(Strip(SubSeq(text, m + 1, n))), text, m, n)
  <1> DEFINE i == m + 1
             sub == SubSeq(text, i, n)
             str == Strip(sub)
             r == IfAny(str)
  <1>1. i \in Nat /\ i = m + 1 /\ 1 <= i /\ i <= n + 1 /\ Len(text) \in Nat /\ n - i + 1 = n - m
    BY LenProperties
  <1> HIDE DEF i
  <1>2. /\ sub \in Seq(Nat) /\ Len(sub) = n - m
        /\ \A k \in 1 .. n - m : sub[k] = text[i + k - 1]
    BY <1>1, SubSeqOf
  <1> HIDE DEF sub
  <1>3. PieceAt(sub, text, m)
    <2>1. ASSUME NEW k \in 1 .. Len(sub) PROVE sub[k] = text[m + k]
      <3>1. k \in 1 .. n - m /\ i + k - 1 = m + k
        BY <1>1, <1>2
      <3> QED BY <1>2, <3>1
    <2> QED BY <1>1, <1>2, <2>1 DEF PieceAt
  <1>4. /\ str \in Seq(Nat)
        /\ \E b \in Nat : /\ PieceAt(str, sub, b)
                          /\ \A q \in 1 .. Len(sub) : sub[q] # Space =>
                                b < q /\ q <= b + Len(str)
    BY <1>2, StripProperties
  <1>5. PICK b \in Nat : /\ PieceAt(str, sub, b)
                         /\ \A q \in 1 .. Len(sub) : sub[q] # Space =>
                               b < q /\ q <= b + Len(str)
    BY <1>4
  <1> HIDE DEF str
  <1>6. InText(str, text)
    BY <1>2, <1>3, <1>4, <1>5, InTextIsTransitive DEF InText
  <1>7. Len(str) \in Nat /\ Len(str) <= MaxChars /\ Len(sub) \in Nat /\ MaxChars \in Nat
    BY <1>1, <1>2, <1>4, <1>5, LenProperties, ChunkerAssumption DEF PieceAt, ChunkerAssumption
  <1>8. r \in Seq(Seq(Nat)) /\ \A k \in 1 .. Len(r) : Fits(r[k]) /\ InText(r[k], text)
    <2>1. CASE str = <<>>
      BY <2>1 DEF IfAny
    <2>2. CASE str # <<>>
      <3>1. r = <<str>> /\ Len(r) = 1 /\ r[1] = str
        BY <2>2 DEF IfAny
      <3>2. Len(str) # 0
        BY <1>4, <2>2, EmptySeq
      <3> QED BY <1>4, <1>6, <1>7, <3>1, <3>2 DEF Fits
    <2> QED BY <2>1, <2>2
  <1>9. ASSUME NEW w, Short(w), NEW a \in Nat, PieceAt(w, text, a), m <= a, a + Len(w) <= n
        PROVE  \E k \in 1 .. Len(r) : InText(w, r[k])
    <2> DEFINE l == Len(w)
               c == a - m
    <2>1. w \in Seq(Nat) /\ l \in Nat /\ 1 <= l /\ w[1] # Space /\ w[l] # Space
      BY <1>9, ShortProperties
    <2>2. c \in Nat /\ c + l <= Len(sub)
      BY <1>2, <1>9, <2>1
    <2>3. ASSUME NEW k \in 1 .. l PROVE w[k] = sub[c + k] /\ c + k \in 1 .. Len(sub)
      <3>1. c + k \in 1 .. Len(sub)
        BY <1>7, <2>1, <2>2, Offset
      <3>2. sub[c + k] = text[m + (c + k)]
        BY <1>3, <3>1 DEF PieceAt
      <3>3. w[k] = text[a + k] /\ m + (c + k) = a + k
        BY <1>9 DEF PieceAt
      <3> QED BY <3>1, <3>2, <3>3
    <2> HIDE DEF c, l
    <2>4. 1 \in 1 .. l /\ l \in 1 .. l
      BY <2>1
    <2>5. b < c + 1 /\ c + l <= b + Len(str)
      BY <1>5, <2>1, <2>3, <2>4
    <2>6. PieceAt(w, str, c - b) /\ c - b \in Nat
      <3>1. c - b \in Nat /\ (c - b) + l <= Len(str)
        BY <1>7, <2>1, <2>2, <2>5
      <3>2. ASSUME NEW k \in 1 .. l PROVE w[k] = str[(c - b) + k]
        <4>1. (c - b) + k \in 1 .. Len(str)
          BY <1>7, <2>1, <3>1, Offset
        <4>2. str[(c - b) + k] = sub[b + ((c - b) + k)]
          BY <1>5, <4>1 DEF PieceAt
        <4>3. b + ((c - b) + k) = c + k
          BY <2>2
        <4> QED BY <2>3, <4>2, <4>3
      <3> QED BY <3>1, <3>2 DEF PieceAt, l
    <2>7. str # <<>>
      <3>1. Len(str) # 0
        BY <1>7, <2>1, <2>6 DEF PieceAt, l
      <3> QED BY <3>1
    <2>8. Len(r) = 1 /\ r[1] = str
      BY <2>7 DEF IfAny
    <2> QED BY <2>6, <2>8 DEF InText
  <1>10. r = IfAny(Strip(SubSeq(text, m + 1, n)))
    BY DEF str, sub, i
  <1> HIDE DEF r
  <1> QED BY <1>8, <1>9, <1>10 DEF Pieces

\* Slices that overlap.
LEMMA MoreSlices ==
    ASSUME NEW text \in Seq(Nat), NEW m \in Nat, NEW j \in Nat, NEW i \in Nat, NEW n \in Nat,
           NEW r, NEW s, Pieces(r, text, m, j), Pieces(s, text, i, n), i + OverlapChars <= j
    PROVE  Pieces(r \o s, text, m, n)
  <1>1. r \in Seq(Seq(Nat)) /\ s \in Seq(Seq(Nat))
    BY DEF Pieces
  <1>2. Len(r) \in Nat /\ Len(s) \in Nat /\ OverlapChars \in Nat
    BY <1>1, LenProperties, ChunkerAssumption DEF ChunkerAssumption
  <1> DEFINE rs == r \o s
  <1>3. /\ rs \in Seq(Seq(Nat)) /\ Len(rs) = Len(r) + Len(s)
        /\ \A k \in 1 .. Len(r) + Len(s) : rs[k] = IF k <= Len(r) THEN r[k] ELSE s[k - Len(r)]
    BY <1>1, ConcatProperties
  <1> HIDE DEF rs
  <1>4. ASSUME NEW k \in 1 .. Len(r) PROVE k \in 1 .. Len(rs) /\ rs[k] = r[k]
    BY <1>2, <1>3
  <1>5. ASSUME NEW k \in 1 .. Len(s)
        PROVE  Len(r) + k \in 1 .. Len(rs) /\ rs[Len(r) + k] = s[k]
    <2> DEFINE q == Len(r) + k
    <2>1. q \in 1 .. Len(r) + Len(s) /\ ~(q <= Len(r)) /\ q - Len(r) = k
      BY <1>2
    <2> HIDE DEF q
    <2>2. rs[q] = s[q - Len(r)]
      BY <1>3, <2>1
    <2> QED BY <1>3, <2>1, <2>2 DEF q
  <1>6. ASSUME NEW k \in 1 .. Len(rs) PROVE Fits(rs[k]) /\ InText(rs[k], text)
    <2>1. CASE k <= Len(r)
      <3>1. k \in 1 .. Len(r) /\ rs[k] = r[k]
        BY <1>2, <1>3, <2>1
      <3> QED BY <3>1 DEF Pieces
    <2>2. CASE k > Len(r)
      <3>1. k - Len(r) \in 1 .. Len(s) /\ rs[k] = s[k - Len(r)]
        BY <1>2, <1>3, <2>2
      <3> QED BY <3>1 DEF Pieces
    <2> QED BY <1>2, <2>1, <2>2
  <1>7. ASSUME NEW w, Short(w), NEW a \in Nat, PieceAt(w, text, a), m <= a, a + Len(w) <= n
        PROVE  \E k \in 1 .. Len(rs) : InText(w, rs[k])
    <2>1. Len(w) \in Nat /\ Len(w) <= OverlapChars + 1
      BY <1>7, ShortProperties
    <2>2. CASE a + Len(w) <= j
      <3>1. PICK k \in 1 .. Len(r) : InText(w, r[k])
        BY <1>7, <2>2 DEF Pieces
      <3> QED BY <1>4, <3>1
    <2>3. CASE a + Len(w) > j
      <3>1. i <= a
        BY <1>2, <2>1, <2>3
      <3>2. PICK k \in 1 .. Len(s) : InText(w, s[k])
        BY <1>7, <3>1 DEF Pieces
      <3> QED BY <1>5, <3>2
    <2> QED BY <2>1, <2>2, <2>3
  <1>8. Pieces(rs, text, m, n)
    BY <1>3, <1>6, <1>7 DEF Pieces
  <1> QED BY <1>8 DEF rs

\* _hard_split: no piece is empty or too long, and the overlap is enough.
LEMMA HardSplitPieces ==
    ASSUME NEW text \in Seq(Nat), text # <<>>
    PROVE  Pieces(HardSplit(text), text, 0, Len(text))
  <1> DEFINE n == Len(text)
  <1>0. n \in Nat \ {0} /\ MaxChars \in Nat \ {0} /\ OverlapChars \in Nat /\ OverlapChars < MaxChars
    BY EmptySeq, LenProperties, ChunkerAssumption DEF ChunkerAssumption
  <1>1. CASE n <= MaxChars
    <2>1. HardSplit(text) = <<text>>
      BY <1>1 DEF HardSplit
    <2>2. <<text>> \in Seq(Seq(Nat)) /\ Len(<<text>>) = 1 /\ <<text>>[1] = text
      OBVIOUS
    <2>3. PieceAt(text, text, 0) /\ Fits(text)
      BY <1>0, <1>1 DEF PieceAt, Fits
    <2>4. ASSUME NEW w, NEW a \in Nat, PieceAt(w, text, a)
          PROVE  \E k \in 1 .. Len(<<text>>) : InText(w, <<text>>[k])
      BY <2>2, <2>4 DEF InText
    <2>5. ASSUME NEW k \in 1 .. Len(<<text>>) PROVE Fits(<<text>>[k]) /\ InText(<<text>>[k], text)
      BY <2>2, <2>3 DEF InText
    <2> QED BY <2>1, <2>2, <2>4, <2>5 DEF Pieces
  <1>2. CASE n > MaxChars
    <2> DEFINE D == 0 .. n
               V == Seq(Seq(Nat))
               Stop == {x \in D : x + MaxChars >= n}
               end(x) == IF x + MaxChars >= n THEN n ELSE x + MaxChars
               slice(x) == IfAny(Strip(SubSeq(text, x + 1, end(x))))
               base == [x \in D |-> slice(x)]
               next == [x \in D |-> IF x \in Stop THEN x ELSE x + MaxChars - OverlapChars]
               op == [p \in D \X V |-> slice(p[1]) \o p[2]]
               rank == [x \in D |-> n - x]
               bound == n + 1
    <2>1. ASSUME NEW x \in D PROVE Pieces(slice(x), text, x, end(x))
      <3>1. /\ x \in Nat /\ end(x) \in Nat /\ x <= end(x) /\ end(x) <= Len(text)
            /\ end(x) - x <= MaxChars
        BY <1>0
      <3> HIDE DEF end
      <3> QED BY <3>1, OneSlice
    <2>2. \A x \in D : slice(x) \in V
      BY <2>1 DEF Pieces
    <2>3. \A x \in D \ Stop : x + MaxChars - OverlapChars \in D /\ x < x + MaxChars - OverlapChars
      BY <1>0
    <2> HIDE DEF slice
    <2>4. \E f : Solves(f, D, V, Stop, base, next, op)
      <3>1. Stop \in SUBSET D /\ base \in [D -> V] /\ next \in [D -> D]
        BY <2>2, <2>3
      <3>2. op \in [D \X V -> V]
        BY <2>2, ConcatProperties
      <3>3. rank \in [D -> Nat] /\ bound \in Nat /\ \A x \in D : rank[x] < bound
        BY <1>0
      <3>4. \A x \in D \ Stop : rank[next[x]] < rank[x]
        <4> SUFFICES ASSUME NEW x \in D \ Stop PROVE rank[next[x]] < rank[x]
          OBVIOUS
        <4>1. next[x] = x + MaxChars - OverlapChars /\ next[x] \in D /\ x < next[x]
          BY <2>3
        <4>2. rank[x] = n - x /\ rank[next[x]] = n - next[x] /\ x \in Int /\ next[x] \in Int
          BY <4>1
        <4> HIDE DEF next, rank
        <4> QED BY <1>0, <4>1, <4>2
      <3> HIDE DEF D, V, Stop, base, next, op, rank, bound
      <3>5. Recursion(D, V, Stop, base, next, op, rank, bound)
        BY <3>1, <3>2, <3>3, <3>4 DEF Recursion
      <3> QED BY <3>5, RecursionExists
    <2>5. PICK f : Solves(f, D, V, Stop, base, next, op)
      BY <2>4
    <2> DEFINE body(g) == [x \in 0 .. Len(text) |->
                              IF x + MaxChars >= Len(text)
                              THEN IfAny(Strip(SubSeq(text, x + 1, Len(text))))
                              ELSE IfAny(Strip(SubSeq(text, x + 1, x + MaxChars)))
                                      \o g[x + MaxChars - OverlapChars]]
               from == CHOOSE g : g = body(g)
    <2>6. f = body(f)
      <3>1. f = [x \in D |-> f[x]]
        BY <2>5 DEF Solves
      <3>2. ASSUME NEW x \in Stop PROVE f[x] = IfAny(Strip(SubSeq(text, x + 1, Len(text))))
        BY <2>5, <3>2 DEF Solves, slice
      <3>3. ASSUME NEW x \in D \ Stop
            PROVE  f[x] = IfAny(Strip(SubSeq(text, x + 1, x + MaxChars)))
                             \o f[x + MaxChars - OverlapChars]
        <4>1. f \in [D -> V] /\ f[x] = op[<<x, f[next[x]]>>] /\ next[x] = x + MaxChars - OverlapChars
          BY <2>5 DEF Solves
        <4>2. next[x] \in D
          BY <2>3, <4>1
        <4>3. f[next[x]] \in V
          BY <4>1, <4>2
        <4>4. f[x] = slice(x) \o f[next[x]]
          BY <4>1, <4>3
        <4> QED BY <4>1, <4>4 DEF slice
      <3> QED BY <3>1, <3>2, <3>3
    <2>7. from = body(from)
      BY <2>6
    <2>8. HardSplit(text) = from[0]
      BY <1>2, <1>0 DEF HardSplit
    <2> HIDE DEF from
    <2>9. \A x \in Stop : from[x] = slice(x) /\ end(x) = n
      BY <2>7 DEF slice
    <2>10. \A x \in D \ Stop :
              from[x] = slice(x) \o from[x + MaxChars - OverlapChars] /\ end(x) = x + MaxChars
      BY <2>7 DEF slice
    <2> HIDE DEF end
    <2> DEFINE Bad == {x \in D : ~Pieces(from[x], text, x, n)}
    <2>11. Bad = {}
      <3> SUFFICES ASSUME Bad # {} PROVE FALSE
        OBVIOUS
      <3>1. Bad \in SUBSET Nat /\ \A y \in Bad : y <= n
        OBVIOUS
      <3>2. PICK x \in Bad : \A y \in Bad : x >= y
        BY <1>0, <3>1, GreatestExists
      <3>3. CASE x \in Stop
        BY <2>1, <2>9, <3>3
      <3>4. CASE x \in D \ Stop
        <4> DEFINE y == x + MaxChars - OverlapChars
        <4>1. y \in D /\ x < y /\ y \in Nat /\ x \in Nat
          BY <2>3, <3>4
        <4>2. y \notin Bad
          BY <3>2, <4>1
        <4>3. Pieces(from[y], text, y, n) /\ Pieces(slice(x), text, x, x + MaxChars)
          BY <2>1, <2>10, <3>4, <4>1, <4>2
        <4>4. x + MaxChars \in Nat /\ y + OverlapChars <= x + MaxChars
          BY <1>0, <4>1
        <4> HIDE DEF y, Bad
        <4>5. Pieces(slice(x) \o from[y], text, x, n)
          BY <1>0, <4>1, <4>3, <4>4, MoreSlices
        <4> QED BY <2>10, <3>2, <3>4, <4>5 DEF y, Bad
      <3> QED BY <3>2, <3>3, <3>4
    <2>12. 0 \in D
      BY <1>0
    <2> QED BY <2>8, <2>11, <2>12
  <1> QED BY <1>0, <1>1, <1>2

-----------------------------------------------------------------------------
(* Folds over the sentences of a paragraph.                                *)

LEMMA MaxOf ==
    ASSUME NEW n \in Nat
    PROVE  /\ \A P \in SUBSET (1 .. n) : P # {} => Max(P) \in P
           /\ \A k \in 1 .. n : Max(1 .. k) = k /\ (1 .. k) \ {k} = 1 .. k - 1
                                /\ 1 .. k # {}
  <1>1. ASSUME NEW P \in SUBSET (1 .. n), P # {} PROVE Max(P) \in P /\ \A y \in P : Max(P) >= y
    <2>1. P \in SUBSET Nat /\ \A y \in P : y <= n
      OBVIOUS
    <2> QED BY <1>1, <2>1, GreatestExists DEF Max
  <1>2. ASSUME NEW k \in 1 .. n PROVE Max(1 .. k) = k
    <2>1. 1 .. k \in SUBSET (1 .. n) /\ k \in 1 .. k
      OBVIOUS
    <2>2. Max(1 .. k) \in 1 .. k /\ Max(1 .. k) >= k
      BY <1>1, <2>1
    <2> QED BY <2>2
  <1>3. ASSUME NEW k \in 1 .. n PROVE (1 .. k) \ {k} = 1 .. k - 1 /\ 1 .. k # {}
    OBVIOUS
  <1> QED BY <1>1, <1>2, <1>3

\* What FoldLeft recurs on, for an op that is a function.
FoldsTo(f, V, base, seq, op) ==
    /\ f \in [SUBSET (DOMAIN seq) -> V]
    /\ f = [P \in SUBSET (DOMAIN seq) |->
              IF P = {} THEN base ELSE op[<<f[P \ {Max(P)}], seq[Max(P)]>>]]

LEMMA FoldExists ==
    ASSUME NEW V, NEW E, NEW base, base \in V, NEW seq, seq \in Seq(E),
           NEW op, op \in [V \X E -> V]
    PROVE  \E f : FoldsTo(f, V, base, seq, op)
  <1> DEFINE n == Len(seq)
             D == SUBSET (1 .. n)
             Stop == {{}}
             first == [P \in D |-> base]
             next == [P \in D |-> P \ {Max(P)}]
             step == [p \in D \X V |-> IF p[1] = {} THEN base ELSE op[<<p[2], seq[Max(p[1])]>>]]
             rank == [P \in D |-> Cardinality(P)]
             bound == n + 1
  <1>1. n \in Nat /\ DOMAIN seq = 1 .. n /\ \A k \in 1 .. n : seq[k] \in E
    BY LenProperties, ElementOfSeq
  <1> HIDE DEF n
  <1>2. IsFiniteSet(1 .. n) /\ Cardinality(1 .. n) = n
    BY <1>1, FS_Interval
  <1>3. \A P \in D : IsFiniteSet(P) /\ Cardinality(P) \in Nat /\ Cardinality(P) <= n
    BY <1>2, FS_Subset, FS_CardinalityType
  <1>4. \A P \in D : P # {} => Max(P) \in P
    BY <1>1, MaxOf
  <1>5. first \in [D -> V] /\ next \in [D -> D] /\ rank \in [D -> Nat] /\ Stop \in SUBSET D
    BY <1>3
  <1>6. step \in [D \X V -> V]
    <2>1. ASSUME NEW p \in D \X V, p[1] # {} PROVE op[<<p[2], seq[Max(p[1])]>>] \in V
      <3>1. Max(p[1]) \in 1 .. n /\ p[2] \in V
        BY <1>4, <2>1
      <3>2. seq[Max(p[1])] \in E
        BY <1>1, <3>1
      <3> QED BY <3>1, <3>2
    <2> QED BY <2>1
  <1>7. bound \in Nat /\ \A P \in D : rank[P] < bound
    BY <1>1, <1>3
  <1>8. \A P \in D \ Stop : rank[next[P]] < rank[P]
    <2> SUFFICES ASSUME NEW P \in D, P # {} PROVE rank[next[P]] < rank[P]
      OBVIOUS
    <2>1. Cardinality(P \ {Max(P)}) = Cardinality(P) - 1 /\ Cardinality(P) \in Nat
      BY <1>3, <1>4, FS_RemoveElement
    <2>2. next[P] = P \ {Max(P)} /\ next[P] \in D
      OBVIOUS
    <2>3. rank[P] = Cardinality(P) /\ rank[next[P]] = Cardinality(next[P])
      BY <2>2
    <2> HIDE DEF next, rank
    <2> QED BY <2>1, <2>2, <2>3
  <1>9. \E f : Solves(f, D, V, Stop, first, next, step)
    <2> HIDE DEF D, Stop, first, next, step, rank, bound
    <2>1. Recursion(D, V, Stop, first, next, step, rank, bound)
      BY <1>5, <1>6, <1>7, <1>8 DEF Recursion
    <2> QED BY <2>1, RecursionExists
  <1>10. PICK f : Solves(f, D, V, Stop, first, next, step)
    BY <1>9
  <1>11. f \in [D -> V] /\ f[{}] = base
    BY <1>10 DEF Solves
  <1>12. ASSUME NEW P \in D, P # {} PROVE f[P] = op[<<f[P \ {Max(P)}], seq[Max(P)]>>]
    <2>1. f[P] = step[<<P, f[next[P]]>>] /\ next[P] = P \ {Max(P)} /\ next[P] \in D
      BY <1>10, <1>12 DEF Solves
    <2>2. f[next[P]] \in V
      BY <1>11, <2>1
    <2> QED BY <1>12, <2>1, <2>2
  <1>13. f = [P \in D |-> IF P = {} THEN base ELSE op[<<f[P \ {Max(P)}], seq[Max(P)]>>]]
    BY <1>11, <1>12
  <1> QED BY <1>1, <1>11, <1>13 DEF FoldsTo

\* A chain of accumulators from base to the last.
LEMMA JoinType ==
    ASSUME NEW text \in Seq(Nat), NEW s \in Seq(Nat)
    PROVE  Join(text, s) \in Seq(Nat)
  <1>1. <<Space>> \in Seq(Nat)
    BY DEF Space
  <1>2. text \o <<Space>> \in Seq(Nat)
    BY <1>1, ConcatProperties
  <1> QED BY <1>2, ConcatProperties DEF Join

LEMMA JoinSteps ==
    ASSUME NEW seq \in Seq(Seq(Nat))
    PROVE  \E h \in [0 .. Len(seq) -> Seq(Nat)] :
              /\ h[0] = <<>> /\ FoldLeft(Join, <<>>, seq) = h[Len(seq)]
              /\ \A k \in 1 .. Len(seq) : h[k] = Join(h[k - 1], seq[k])
  <1> DEFINE n == Len(seq)
             V == Seq(Nat)
             op == [p \in V \X V |-> Join(p[1], p[2])]
             body(g) == [P \in SUBSET (DOMAIN seq) |->
                            IF P = {} THEN <<>> ELSE Join(g[P \ {Max(P)}], seq[Max(P)])]
             it == CHOOSE g : g = body(g)
  <1>1. n \in Nat /\ DOMAIN seq = 1 .. n /\ \A k \in 1 .. n : seq[k] \in V
    BY LenProperties, ElementOfSeq
  <1>2. op \in [V \X V -> V] /\ <<>> \in V
    BY JoinType
  <1>3. PICK f \in [SUBSET (DOMAIN seq) -> V] :
              f = [P \in SUBSET (DOMAIN seq) |->
                     IF P = {} THEN <<>> ELSE op[<<f[P \ {Max(P)}], seq[Max(P)]>>]]
    <2> HIDE DEF op, V
    <2>1. seq \in Seq(V)
      BY DEF V
    <2>2. \E f : FoldsTo(f, V, <<>>, seq, op)
      BY <1>2, <2>1, FoldExists
    <2> QED BY <2>2 DEF FoldsTo
  <1>4. f = body(f)
    <2>1. ASSUME NEW P \in SUBSET (DOMAIN seq), P # {}
          PROVE  op[<<f[P \ {Max(P)}], seq[Max(P)]>>] = Join(f[P \ {Max(P)}], seq[Max(P)])
      <3>1. Max(P) \in 1 .. n
        BY <1>1, <2>1, MaxOf
      <3>2. seq[Max(P)] \in V /\ f[P \ {Max(P)}] \in V
        BY <1>1, <3>1
      <3> QED BY <3>2
    <2> HIDE DEF op
    <2> QED BY <1>3, <2>1
  <1>5. it = body(it)
    BY <1>4
  <1>6. FoldLeft(Join, <<>>, seq) = it[DOMAIN seq]
    BY DEF FoldLeft, MapThenFoldSet
  <1> HIDE DEF it
  <1> DEFINE h == [k \in 0 .. n |-> it[1 .. k]]
  <1>7. h[0] = <<>>
    <2>1. 1 .. 0 = {}
      OBVIOUS
    <2> QED BY <1>1, <1>5, <2>1
  <1>8. ASSUME NEW k \in 1 .. n PROVE h[k] = Join(h[k - 1], seq[k])
    <2>1. Max(1 .. k) = k /\ (1 .. k) \ {k} = 1 .. k - 1 /\ 1 .. k # {}
      BY <1>1, MaxOf
    <2>2. 1 .. k \in SUBSET (DOMAIN seq) /\ k - 1 \in 0 .. n /\ k \in 0 .. n
      BY <1>1
    <2>3. it[1 .. k] = Join(it[(1 .. k) \ {Max(1 .. k)}], seq[Max(1 .. k)])
      BY <1>5, <2>1, <2>2
    <2> QED BY <2>1, <2>2, <2>3
  <1>9. h[n] = it[DOMAIN seq]
    BY <1>1
  <1>10. \A k \in Nat : k <= n => h[k] \in V
    <2> DEFINE T == {k \in Nat : k <= n => h[k] \in V}
    <2>1. 0 \in T
      BY <1>2, <1>7
    <2>2. ASSUME NEW k \in Nat, k \in T PROVE k + 1 \in T
      <3> SUFFICES ASSUME k + 1 <= n PROVE h[k + 1] \in V
        OBVIOUS
      <3>1. k + 1 \in 1 .. n /\ (k + 1) - 1 = k /\ h[k] \in V
        BY <1>1, <2>2
      <3> HIDE DEF h
      <3>2. h[k + 1] = Join(h[k], seq[k + 1])
        BY <1>8, <3>1
      <3> QED BY <1>1, <3>1, <3>2, JoinType
    <2>3. T = Nat
      <3> HIDE DEF T
      <3>1. T \in SUBSET Nat
        BY DEF T
      <3> QED BY <2>1, <2>2, <3>1, NatInduct
    <2> QED BY <2>3
  <1>11. h \in [0 .. n -> V]
    BY <1>1, <1>10
  <1> QED BY <1>6, <1>7, <1>8, <1>9, <1>11

Packed == [text : Seq(Nat), chunks : Seq(Seq(Nat))]
NothingPacked == [text |-> <<>>, chunks |-> <<>>]

LEMMA PackType ==
    ASSUME NEW packed \in Packed, NEW s \in Seq(Nat)
    PROVE  Pack(packed, s) \in Packed
  <1>1. packed.text \in Seq(Nat) /\ packed.chunks \in Seq(Seq(Nat))
    BY DEF Packed
  <1>2. Join(packed.text, s) \in Seq(Nat)
    BY <1>1, JoinType
  <1>3. ASSUME packed.text # <<>> PROVE packed.chunks \o HardSplit(packed.text) \in Seq(Seq(Nat))
    <2>1. HardSplit(packed.text) \in Seq(Seq(Nat))
      BY <1>1, <1>3, HardSplitPieces DEF Pieces
    <2> QED BY <1>1, <2>1, ConcatProperties
  <1> QED BY <1>1, <1>2, <1>3 DEF Pack, Packed

LEMMA PackSteps ==
    ASSUME NEW seq \in Seq(Seq(Nat))
    PROVE  \E h \in [0 .. Len(seq) -> Packed] :
              /\ h[0] = NothingPacked /\ FoldLeft(Pack, NothingPacked, seq) = h[Len(seq)]
              /\ \A k \in 1 .. Len(seq) : h[k] = Pack(h[k - 1], seq[k])
  <1> DEFINE n == Len(seq)
             V == Packed
             op == [p \in V \X Seq(Nat) |-> Pack(p[1], p[2])]
             body(g) == [P \in SUBSET (DOMAIN seq) |->
                            IF P = {} THEN NothingPacked ELSE Pack(g[P \ {Max(P)}], seq[Max(P)])]
             it == CHOOSE g : g = body(g)
  <1>1. n \in Nat /\ DOMAIN seq = 1 .. n /\ \A k \in 1 .. n : seq[k] \in Seq(Nat)
    BY LenProperties, ElementOfSeq
  <1>2. op \in [V \X Seq(Nat) -> V] /\ NothingPacked \in V
    <2>1. NothingPacked \in V
      BY DEF NothingPacked, Packed
    <2>2. \A p \in V \X Seq(Nat) : Pack(p[1], p[2]) \in V
      BY PackType
    <2> HIDE DEF V
    <2> QED BY <2>1, <2>2
  <1>3. PICK f \in [SUBSET (DOMAIN seq) -> V] :
              f = [P \in SUBSET (DOMAIN seq) |->
                     IF P = {} THEN NothingPacked ELSE op[<<f[P \ {Max(P)}], seq[Max(P)]>>]]
    <2> HIDE DEF op, V
    <2>1. seq \in Seq(Seq(Nat))
      OBVIOUS
    <2>2. \E f : FoldsTo(f, V, NothingPacked, seq, op)
      BY <1>2, <2>1, FoldExists
    <2> QED BY <2>2 DEF FoldsTo
  <1>4. f = body(f)
    <2>1. ASSUME NEW P \in SUBSET (DOMAIN seq), P # {}
          PROVE  op[<<f[P \ {Max(P)}], seq[Max(P)]>>] = Pack(f[P \ {Max(P)}], seq[Max(P)])
      <3>1. Max(P) \in 1 .. n
        BY <1>1, <2>1, MaxOf
      <3>2. seq[Max(P)] \in Seq(Nat) /\ f[P \ {Max(P)}] \in V
        BY <1>1, <3>1
      <3> QED BY <3>2
    <2> HIDE DEF op
    <2> QED BY <1>3, <2>1
  <1>5. it = body(it)
    BY <1>4
  <1>6. FoldLeft(Pack, NothingPacked, seq) = it[DOMAIN seq]
    BY DEF FoldLeft, MapThenFoldSet
  <1> HIDE DEF it
  <1> DEFINE h == [k \in 0 .. n |-> it[1 .. k]]
  <1>7. h[0] = NothingPacked
    <2>1. 1 .. 0 = {}
      OBVIOUS
    <2> QED BY <1>1, <1>5, <2>1
  <1>8. ASSUME NEW k \in 1 .. n PROVE h[k] = Pack(h[k - 1], seq[k])
    <2>1. Max(1 .. k) = k /\ (1 .. k) \ {k} = 1 .. k - 1 /\ 1 .. k # {}
      BY <1>1, MaxOf
    <2>2. 1 .. k \in SUBSET (DOMAIN seq) /\ k - 1 \in 0 .. n /\ k \in 0 .. n
      BY <1>1
    <2>3. it[1 .. k] = Pack(it[(1 .. k) \ {Max(1 .. k)}], seq[Max(1 .. k)])
      BY <1>5, <2>1, <2>2
    <2> QED BY <2>1, <2>2, <2>3
  <1>9. h[n] = it[DOMAIN seq]
    BY <1>1
  <1>10. \A k \in Nat : k <= n => h[k] \in V
    <2> DEFINE T == {k \in Nat : k <= n => h[k] \in V}
    <2>1. 0 \in T
      BY <1>2, <1>7
    <2>2. ASSUME NEW k \in Nat, k \in T PROVE k + 1 \in T
      <3> SUFFICES ASSUME k + 1 <= n PROVE h[k + 1] \in V
        OBVIOUS
      <3>1. k + 1 \in 1 .. n /\ (k + 1) - 1 = k /\ h[k] \in V
        BY <1>1, <2>2
      <3> HIDE DEF h
      <3>2. h[k + 1] = Pack(h[k], seq[k + 1])
        BY <1>8, <3>1
      <3> QED BY <1>1, <3>1, <3>2, PackType
    <2>3. T = Nat
      <3> HIDE DEF T
      <3>1. T \in SUBSET Nat
        BY DEF T
      <3> QED BY <2>1, <2>2, <3>1, NatInduct
    <2> QED BY <2>3
  <1>11. h \in [0 .. n -> V]
    BY <1>1, <1>10
  <1> QED BY <1>6, <1>7, <1>8, <1>9, <1>11

-----------------------------------------------------------------------------
(* What is left of a paragraph's sentences.                                *)

LEMMA SentenceTypes ==
    ASSUME NEW seq \in Seq(Stripped)
    PROVE  /\ seq \in Seq(Seq(Nat)) /\ Len(seq) \in Nat /\ DOMAIN seq = 1 .. Len(seq)
           /\ \A k \in 1 .. Len(seq) : seq[k] \in Seq(Nat) /\ seq[k] # <<>>
  <1>1. Stripped \subseteq Seq(Nat)
    BY DEF Stripped
  <1>2. seq \in Seq(Seq(Nat))
    BY <1>1, SeqMonotonic
  <1>3. \A k \in 1 .. Len(seq) : seq[k] \in Stripped
    BY ElementOfSeq
  <1> QED BY <1>2, <1>3, LenProperties DEF Stripped

\* The non-space characters of the text are those of the first k sentences.
From(text, seq, k) ==
    \A i \in 1 .. Len(text) : text[i] # Space =>
        \E m \in 1 .. k : \E j \in 1 .. Len(seq[m]) : text[i] = seq[m][j]

LEMMA JoinProperties ==
    ASSUME NEW text \in Seq(Nat), NEW s \in Seq(Nat), s # <<>>
    PROVE  /\ Join(text, s) \in Seq(Nat) /\ Join(text, s) # <<>>
           /\ \A w : Short(w) /\ (InText(w, text) \/ InText(w, s)) => InText(w, Join(text, s))
  <1> DEFINE new == Join(text, s)
             left == text \o <<Space>>
  <1>1. new \in Seq(Nat)
    BY JoinType
  <1>2. CASE text = <<>>
    <2>1. new = s
      BY <1>2 DEF Join
    <2>2. ASSUME NEW w, Short(w) PROVE ~InText(w, text)
      <3>1. Len(w) \in Nat /\ 1 <= Len(w) /\ Len(text) = 0
        BY <1>2, <2>2, ShortProperties
      <3> QED BY <3>1 DEF InText, PieceAt
    <2> QED BY <1>1, <2>1, <2>2
  <1>3. CASE text # <<>>
    <2>1. <<Space>> \in Seq(Nat) /\ Len(<<Space>>) = 1
      BY DEF Space
    <2>2. left \in Seq(Nat) /\ Len(left) = Len(text) + 1
      BY <2>1, ConcatProperties
    <2>3. new = left \o s
      BY <1>3 DEF Join
    <2>4. ASSUME NEW w, Short(w), InText(w, text) \/ InText(w, s) PROVE InText(w, new)
      <3>1. w \in Seq(Nat)
        BY <2>4, ShortProperties
      <3>2. InText(w, text) => InText(w, left)
        BY <2>1, <3>1, InTextConcat
      <3> HIDE DEF left, new
      <3>3. InText(w, left) \/ InText(w, s) => InText(w, left \o s)
        BY <2>2, <3>1, InTextConcat
      <3> QED BY <2>3, <2>4, <3>2, <3>3
    <2>5. new # <<>>
      <3> HIDE DEF left, new
      <3>1. Len(new) = Len(left) + Len(s) /\ Len(s) \in Nat /\ Len(text) \in Nat
        BY <2>2, <2>3, ConcatProperties, LenProperties
      <3>2. Len(new) # 0
        BY <2>2, <3>1
      <3> QED BY <3>2
    <2> QED BY <1>1, <2>4, <2>5
  <1> QED BY <1>2, <1>3

LEMMA JoinIsDistinct ==
    ASSUME NEW seq \in Seq(Stripped), NamedByPlace(seq), NEW k \in 1 .. Len(seq),
           NEW text \in Seq(Nat), Distinct(text), From(text, seq, k - 1)
    PROVE  Distinct(Join(text, seq[k])) /\ From(Join(text, seq[k]), seq, k)
  <1> DEFINE s == seq[k]
             new == Join(text, s)
  <1>1. /\ s \in Seq(Nat) /\ Len(seq) \in Nat /\ DOMAIN seq = 1 .. Len(seq) /\ k \in DOMAIN seq
        /\ \A m \in DOMAIN seq : seq[m] \in Seq(Nat) /\ DOMAIN seq[m] = 1 .. Len(seq[m])
    BY SentenceTypes, LenProperties
  <1>2. Len(text) \in Nat /\ Len(s) \in Nat /\ k \in Nat /\ k >= 1
    BY <1>1, LenProperties
  <1>3. ASSUME NEW i \in 1 .. Len(s), NEW j \in 1 .. Len(s), s[i] = s[j], s[i] # Space PROVE i = j
    <2>1. i \in DOMAIN seq[k] /\ j \in DOMAIN seq[k]
      BY <1>1
    <2> QED BY <1>1, <1>3, <2>1 DEF NamedByPlace
  <1>4. ASSUME NEW i \in 1 .. Len(text), NEW j \in 1 .. Len(s), text[i] # Space PROVE text[i] # s[j]
    <2>1. PICK m \in 1 .. k - 1 : \E l \in 1 .. Len(seq[m]) : text[i] = seq[m][l]
      BY <1>4 DEF From
    <2>2. PICK l \in 1 .. Len(seq[m]) : text[i] = seq[m][l]
      BY <2>1
    <2>3. m \in DOMAIN seq /\ m # k
      BY <1>1, <1>2
    <2>4. l \in DOMAIN seq[m] /\ j \in DOMAIN seq[k]
      BY <1>1, <2>3
    <2> QED BY <1>1, <1>4, <2>2, <2>3, <2>4 DEF NamedByPlace
  <1> HIDE DEF s, new
  <1>5. \A j \in 1 .. Len(s) : \E m \in 1 .. k : \E l \in 1 .. Len(seq[m]) : s[j] = seq[m][l]
    <2>1. k \in 1 .. k
      BY <1>2
    <2> QED BY <2>1 DEF s
  <1>6. CASE text = <<>>
    <2>1. new = s
      BY <1>6 DEF Join, new
    <2> QED BY <1>3, <1>5, <2>1 DEF Distinct, From, new, s
  <1>7. CASE text # <<>>
    <2> DEFINE n == Len(text)
               left == text \o <<Space>>
    <2>1. <<Space>> \in Seq(Nat) /\ Len(<<Space>>) = 1 /\ <<Space>>[1] = Space
      BY DEF Space
    <2>2. /\ left \in Seq(Nat) /\ Len(left) = n + 1
          /\ \A q \in 1 .. n + 1 : left[q] = IF q <= n THEN text[q] ELSE Space
      <3>1. /\ left \in Seq(Nat) /\ Len(left) = Len(text) + Len(<<Space>>)
            /\ \A q \in 1 .. Len(text) + Len(<<Space>>) :
                  left[q] = IF q <= Len(text) THEN text[q] ELSE <<Space>>[q - Len(text)]
        BY <2>1, ConcatProperties
      <3>2. \A q \in 1 .. n + 1 : q <= n \/ q - n = 1
        BY <1>2
      <3> HIDE DEF left
      <3> QED BY <2>1, <3>1, <3>2
    <2>3. new = left \o s
      BY <1>7 DEF Join, new
    <2> HIDE DEF left
    <2>4. /\ Len(new) = (n + 1) + Len(s)
          /\ \A q \in 1 .. (n + 1) + Len(s) :
                new[q] = IF q <= n + 1 THEN left[q] ELSE s[q - (n + 1)]
      <3>1. /\ Len(new) = Len(left) + Len(s)
            /\ \A q \in 1 .. Len(left) + Len(s) :
                  new[q] = IF q <= Len(left) THEN left[q] ELSE s[q - Len(left)]
        BY <1>1, <2>2, <2>3, ConcatProperties DEF s
      <3> QED BY <2>2, <3>1
    <2>5. ASSUME NEW q \in 1 .. Len(new), new[q] # Space
          PROVE  \/ q \in 1 .. n /\ new[q] = text[q]
                 \/ q - (n + 1) \in 1 .. Len(s) /\ new[q] = s[q - (n + 1)]
      <3>1. q \in Nat /\ q >= 1 /\ q <= (n + 1) + Len(s) /\ q \in 1 .. (n + 1) + Len(s)
        BY <1>2, <2>4
      <3>2. new[q] = IF q <= n + 1 THEN left[q] ELSE s[q - (n + 1)]
        BY <2>4, <3>1
      <3>3. CASE q <= n + 1
        <4>1. q \in 1 .. n + 1
          BY <1>2, <3>1, <3>3
        <4>2. new[q] = IF q <= n THEN text[q] ELSE Space
          BY <2>2, <3>2, <3>3, <4>1
        <4>3. q <= n
          BY <2>5, <4>2
        <4> QED BY <1>2, <3>1, <4>2, <4>3
      <3>4. CASE ~(q <= n + 1)
        <4>1. q - (n + 1) \in 1 .. Len(s)
          BY <1>2, <3>1, <3>4
        <4> QED BY <3>2, <3>4, <4>1
      <3> QED BY <3>3, <3>4
    <2>6. ASSUME NEW i \in 1 .. Len(new), NEW j \in 1 .. Len(new), new[i] = new[j], new[i] # Space
          PROVE  i = j
      <3> DEFINE a == i - (n + 1)
                 b == j - (n + 1)
      <3>0. i \in Int /\ j \in Int /\ n \in Int
        BY <1>2
      <3>1. \/ i \in 1 .. n /\ new[i] = text[i]
            \/ a \in 1 .. Len(s) /\ new[i] = s[a]
        BY <2>5, <2>6
      <3>2. \/ j \in 1 .. n /\ new[j] = text[j]
            \/ b \in 1 .. Len(s) /\ new[j] = s[b]
        BY <2>5, <2>6
      <3>3. a = b => i = j
        BY <3>0
      <3> HIDE DEF a, b
      <3> QED BY <1>3, <1>4, <2>6, <3>1, <3>2, <3>3 DEF Distinct
    <2>7. ASSUME NEW i \in 1 .. Len(new), new[i] # Space
          PROVE  \E m \in 1 .. k : \E l \in 1 .. Len(seq[m]) : new[i] = seq[m][l]
      <3>1. CASE i \in 1 .. n /\ new[i] = text[i]
        <4>1. PICK m \in 1 .. k - 1 : \E l \in 1 .. Len(seq[m]) : text[i] = seq[m][l]
          BY <2>7, <3>1 DEF From
        <4>2. m \in 1 .. k
          BY <1>2
        <4> QED BY <3>1, <4>1, <4>2
      <3>2. CASE i - (n + 1) \in 1 .. Len(s) /\ new[i] = s[i - (n + 1)]
        BY <1>5, <3>2
      <3> QED BY <2>5, <2>7, <3>1, <3>2
    <2> QED BY <2>6, <2>7 DEF Distinct, From, new, s
  <1> QED BY <1>6, <1>7

\* A text in which the first k sentences are, and no more.
Holds(text, seq, k) ==
    /\ text \in Seq(Nat) /\ (k >= 1 => text # <<>>)
    /\ \A m \in 1 .. k : \A w : Short(w) /\ InText(w, seq[m]) => InText(w, text)
    /\ NamedByPlace(seq) => Distinct(text) /\ From(text, seq, k)

LEMMA WholeHolds ==
    ASSUME NEW seq \in Seq(Stripped)
    PROVE  Holds(FoldLeft(Join, <<>>, seq), seq, Len(seq))
  <1> DEFINE n == Len(seq)
  <1>1. /\ seq \in Seq(Seq(Nat)) /\ n \in Nat
        /\ \A k \in 1 .. n : seq[k] \in Seq(Nat) /\ seq[k] # <<>>
    BY SentenceTypes
  <1>2. PICK h \in [0 .. n -> Seq(Nat)] :
              /\ h[0] = <<>> /\ FoldLeft(Join, <<>>, seq) = h[n]
              /\ \A k \in 1 .. n : h[k] = Join(h[k - 1], seq[k])
    BY <1>1, JoinSteps
  <1> HIDE DEF n
  <1> DEFINE T == {k \in Nat : k <= n => Holds(h[k], seq, k)}
  <1>3. 0 \in T
    BY <1>2 DEF Holds, Distinct, From
  <1>4. ASSUME NEW k \in Nat, k \in T PROVE k + 1 \in T
    <2> SUFFICES ASSUME k + 1 <= n PROVE Holds(h[k + 1], seq, k + 1)
      OBVIOUS
    <2> DEFINE j == k + 1
               text == h[k]
    <2>1. j \in 1 .. n /\ j - 1 = k /\ j \in Nat /\ j >= 1 /\ Holds(text, seq, k)
      BY <1>1, <1>4
    <2>2. h[j] = Join(text, seq[j])
      BY <1>2, <2>1
    <2>3. text \in Seq(Nat) /\ seq[j] \in Seq(Nat) /\ seq[j] # <<>>
      BY <1>1, <2>1 DEF Holds
    <2>6. \A m \in 1 .. j : m \in 1 .. k \/ m = j
      BY <2>1
    <2> HIDE DEF j, text
    <2>4. /\ h[j] \in Seq(Nat) /\ h[j] # <<>>
          /\ \A w : Short(w) /\ (InText(w, text) \/ InText(w, seq[j])) => InText(w, h[j])
      BY <2>2, <2>3, JoinProperties
    <2>5. NamedByPlace(seq) => Distinct(h[j]) /\ From(h[j], seq, j)
      BY <2>1, <2>2, <2>3, JoinIsDistinct DEF Holds, n
    <2>7. \A m \in 1 .. j : \A w : Short(w) /\ InText(w, seq[m]) => InText(w, h[j])
      BY <2>1, <2>4, <2>6 DEF Holds
    <2> QED BY <2>4, <2>5, <2>7 DEF Holds, j
  <1>5. T = Nat
    <2>1. T \in SUBSET Nat
      OBVIOUS
    <2> HIDE DEF T
    <2> QED BY <1>3, <1>4, <2>1, NatInduct
  <1> QED BY <1>1, <1>2, <1>5 DEF n

\* Chunks and a text in which the first k sentences are.
PackHolds(p, seq, k) ==
    /\ p \in Packed /\ (k >= 1 => p.text # <<>>)
    /\ \A c \in 1 .. Len(p.chunks) : Fits(p.chunks[c])
    /\ \A m \in 1 .. k : \A w : Short(w) /\ InText(w, seq[m]) =>
          InText(w, p.text) \/ \E c \in 1 .. Len(p.chunks) : InText(w, p.chunks[c])
    /\ NamedByPlace(seq) =>
          /\ Distinct(p.text) /\ From(p.text, seq, k)
          /\ \A c \in 1 .. Len(p.chunks) : Distinct(p.chunks[c])

\* What is packed, with the text at its end cut into chunks.
LEMMA CutHolds ==
    ASSUME NEW seq, NEW k \in Nat, NEW p, PackHolds(p, seq, k), p.text # <<>>
    PROVE  LET cut == p.chunks \o HardSplit(p.text)
           IN  /\ cut \in Seq(Seq(Nat))
               /\ \A c \in 1 .. Len(cut) : Fits(cut[c])
               /\ \A m \in 1 .. k : \A w : Short(w) /\ InText(w, seq[m]) =>
                     \E c \in 1 .. Len(cut) : InText(w, cut[c])
               /\ NamedByPlace(seq) => \A c \in 1 .. Len(cut) : Distinct(cut[c])
  <1> DEFINE r == p.chunks
             s == HardSplit(p.text)
             cut == r \o s
  <1>1. r \in Seq(Seq(Nat)) /\ p.text \in Seq(Nat)
    BY DEF PackHolds, Packed
  <1>2. Pieces(s, p.text, 0, Len(p.text))
    BY <1>1, HardSplitPieces
  <1> HIDE DEF r, s
  <1>3. s \in Seq(Seq(Nat)) /\ \A c \in 1 .. Len(s) : Fits(s[c]) /\ InText(s[c], p.text)
    BY <1>2 DEF Pieces
  <1>4. Len(r) \in Nat /\ Len(s) \in Nat /\ Len(p.text) \in Nat
    BY <1>1, <1>3, LenProperties
  <1>5. /\ cut \in Seq(Seq(Nat)) /\ Len(cut) = Len(r) + Len(s)
        /\ \A c \in 1 .. Len(r) + Len(s) : cut[c] = IF c <= Len(r) THEN r[c] ELSE s[c - Len(r)]
    BY <1>1, <1>3, ConcatProperties
  <1> HIDE DEF cut
  <1>6. ASSUME NEW c \in 1 .. Len(cut)
        PROVE  \/ c \in 1 .. Len(r) /\ cut[c] = r[c]
               \/ c - Len(r) \in 1 .. Len(s) /\ cut[c] = s[c - Len(r)]
    BY <1>4, <1>5
  <1>7. ASSUME NEW c \in 1 .. Len(r) PROVE c \in 1 .. Len(cut) /\ cut[c] = r[c]
    BY <1>4, <1>5
  <1>8. ASSUME NEW c \in 1 .. Len(s) PROVE Len(r) + c \in 1 .. Len(cut) /\ cut[Len(r) + c] = s[c]
    <2> DEFINE q == Len(r) + c
    <2>1. q \in 1 .. Len(r) + Len(s) /\ ~(q <= Len(r)) /\ q - Len(r) = c
      BY <1>4
    <2> HIDE DEF q
    <2>2. cut[q] = s[q - Len(r)]
      BY <1>5, <2>1
    <2> QED BY <1>5, <2>1, <2>2 DEF q
  <1>9. \A c \in 1 .. Len(cut) : Fits(cut[c])
    BY <1>3, <1>6 DEF PackHolds, r
  <1>10. ASSUME NEW m \in 1 .. k, NEW w, Short(w), InText(w, seq[m])
         PROVE  \E c \in 1 .. Len(cut) : InText(w, cut[c])
    <2>1. CASE InText(w, p.text)
      <3>1. PICK a \in Nat : PieceAt(w, p.text, a)
        BY <2>1 DEF InText
      <3>2. 0 <= a /\ a + Len(w) <= Len(p.text)
        BY <3>1 DEF PieceAt
      <3>3. PICK c \in 1 .. Len(s) : InText(w, s[c])
        BY <1>2, <1>10, <3>1, <3>2 DEF Pieces
      <3> QED BY <1>8, <3>3
    <2>2. CASE \E c \in 1 .. Len(r) : InText(w, r[c])
      BY <1>7, <2>2
    <2> QED BY <1>10, <2>1, <2>2 DEF PackHolds, r
  <1>11. ASSUME NamedByPlace(seq), NEW c \in 1 .. Len(cut) PROVE Distinct(cut[c])
    <2>1. CASE c \in 1 .. Len(r) /\ cut[c] = r[c]
      BY <1>11, <2>1 DEF PackHolds, r
    <2>2. CASE c - Len(r) \in 1 .. Len(s) /\ cut[c] = s[c - Len(r)]
      <3>1. InText(cut[c], p.text) /\ cut[c] \in Seq(Nat)
        BY <1>3, <1>5, <2>2, ElementOfSeq
      <3>2. Distinct(p.text)
        BY <1>11 DEF PackHolds
      <3> QED BY <1>1, <3>1, <3>2, PieceIsDistinct
    <2> QED BY <1>6, <1>11, <2>1, <2>2
  <1> QED BY <1>5, <1>9, <1>10, <1>11 DEF cut, r, s

LEMMA PackKeepsHolding ==
    ASSUME NEW seq \in Seq(Stripped), NEW k \in 1 .. Len(seq), NEW p, PackHolds(p, seq, k - 1)
    PROVE  PackHolds(Pack(p, seq[k]), seq, k)
  <1> DEFINE s == seq[k]
             new == Pack(p, s)
  <1>1. s \in Seq(Nat) /\ s # <<>> /\ k \in Nat /\ k - 1 \in Nat /\ k >= 1 /\ Len(seq) \in Nat
    BY SentenceTypes
  <1>2. p.text \in Seq(Nat) /\ p.chunks \in Seq(Seq(Nat)) /\ p \in Packed
    BY DEF PackHolds, Packed
  <1>3. new \in Packed
    BY <1>1, <1>2, PackType
  <1>4. \A m \in 1 .. k : m \in 1 .. k - 1 \/ m = k
    BY <1>1
  <1>5. CASE p.text = <<>> \/ Len(p.text) + 1 + Len(s) <= MaxChars
    <2>1. new.text = Join(p.text, s) /\ new.chunks = p.chunks
      BY <1>2, <1>5 DEF Pack, Packed
    <2> HIDE DEF new
    <2>2. /\ new.text # <<>>
          /\ \A w : Short(w) /\ (InText(w, p.text) \/ InText(w, s)) => InText(w, new.text)
      BY <1>1, <1>2, <2>1, JoinProperties
    <2>3. NamedByPlace(seq) => Distinct(new.text) /\ From(new.text, seq, k)
      BY <1>2, <2>1, JoinIsDistinct DEF PackHolds
    <2>4. \A m \in 1 .. k : \A w : Short(w) /\ InText(w, seq[m]) =>
             InText(w, new.text) \/ \E c \in 1 .. Len(new.chunks) : InText(w, new.chunks[c])
      BY <1>4, <2>1, <2>2 DEF PackHolds
    <2> QED BY <1>3, <2>1, <2>2, <2>3, <2>4 DEF PackHolds, new
  <1>6. CASE p.text # <<>> /\ ~(Len(p.text) + 1 + Len(s) <= MaxChars)
    <2> DEFINE cut == p.chunks \o HardSplit(p.text)
    <2>1. new.text = s /\ new.chunks = cut
      BY <1>6 DEF Pack
    <2>2. /\ \A c \in 1 .. Len(cut) : Fits(cut[c])
          /\ \A m \in 1 .. k - 1 : \A w : Short(w) /\ InText(w, seq[m]) =>
                \E c \in 1 .. Len(cut) : InText(w, cut[c])
          /\ NamedByPlace(seq) => \A c \in 1 .. Len(cut) : Distinct(cut[c])
      <3> DEFINE j == k - 1
      <3>1. j \in Nat /\ PackHolds(p, seq, j) /\ p.text # <<>>
        BY <1>1, <1>6
      <3> HIDE DEF j
      <3>2. /\ \A c \in 1 .. Len(cut) : Fits(cut[c])
            /\ \A m \in 1 .. j : \A w : Short(w) /\ InText(w, seq[m]) =>
                  \E c \in 1 .. Len(cut) : InText(w, cut[c])
            /\ NamedByPlace(seq) => \A c \in 1 .. Len(cut) : Distinct(cut[c])
        <4>1. LET all == p.chunks \o HardSplit(p.text)
              IN  /\ all \in Seq(Seq(Nat))
                  /\ \A c \in 1 .. Len(all) : Fits(all[c])
                  /\ \A m \in 1 .. j : \A w : Short(w) /\ InText(w, seq[m]) =>
                        \E c \in 1 .. Len(all) : InText(w, all[c])
                  /\ NamedByPlace(seq) => \A c \in 1 .. Len(all) : Distinct(all[c])
          <5> HIDE DEF new, cut, s
          <5> QED BY <3>1, CutHolds, Zenon
        <4> QED BY <4>1, Zenon
      <3> QED BY <3>2 DEF j
    <2> HIDE DEF cut, new
    <2>3. NamedByPlace(seq) => Distinct(s) /\ From(s, seq, k)
      <3>1. Join(<<>>, s) = s
        BY DEF Join
      <3>2. <<>> \in Seq(Nat) /\ Distinct(<<>>) /\ From(<<>>, seq, k - 1)
        BY DEF Distinct, From
      <3> QED BY <3>1, <3>2, JoinIsDistinct
    <2>4. \A m \in 1 .. k : \A w : Short(w) /\ InText(w, seq[m]) =>
             InText(w, new.text) \/ \E c \in 1 .. Len(new.chunks) : InText(w, new.chunks[c])
      BY <1>4, <2>1, <2>2
    <2> HIDE DEF s
    <2> QED BY <1>1, <1>3, <2>1, <2>2, <2>3, <2>4 DEF PackHolds, new, s
  <1> QED BY <1>5, <1>6

LEMMA AllArePacked ==
    ASSUME NEW seq \in Seq(Stripped)
    PROVE  PackHolds(FoldLeft(Pack, NothingPacked, seq), seq, Len(seq))
  <1> DEFINE n == Len(seq)
  <1>1. seq \in Seq(Seq(Nat)) /\ n \in Nat
    BY SentenceTypes
  <1>2. PICK h \in [0 .. n -> Packed] :
              /\ h[0] = NothingPacked /\ FoldLeft(Pack, NothingPacked, seq) = h[n]
              /\ \A k \in 1 .. n : h[k] = Pack(h[k - 1], seq[k])
    BY <1>1, PackSteps
  <1> HIDE DEF n
  <1> DEFINE T == {k \in Nat : k <= n => PackHolds(h[k], seq, k)}
  <1>3. 0 \in T
    <2>1. NothingPacked \in Packed
      BY DEF NothingPacked, Packed
    <2> QED BY <1>2, <2>1 DEF PackHolds, Distinct, From, NothingPacked
  <1>4. ASSUME NEW k \in Nat, k \in T PROVE k + 1 \in T
    <2> SUFFICES ASSUME k + 1 <= n PROVE PackHolds(h[k + 1], seq, k + 1)
      OBVIOUS
    <2> DEFINE j == k + 1
    <2>1. j \in 1 .. n /\ j - 1 = k
      BY <1>1
    <2> HIDE DEF j
    <2>2. PackHolds(h[j - 1], seq, j - 1)
      <3>1. PackHolds(h[k], seq, k)
        BY <1>1, <1>4
      <3> QED BY <2>1, <3>1
    <2>4. h[j] = Pack(h[j - 1], seq[j])
      BY <1>2, <2>1
    <2>3. PackHolds(h[j], seq, j)
      BY <2>1, <2>2, <2>4, PackKeepsHolding DEF n
    <2> QED BY <2>3 DEF j
  <1>5. T = Nat
    <2>1. T \in SUBSET Nat
      OBVIOUS
    <2> HIDE DEF T
    <2> QED BY <1>3, <1>4, <2>1, NatInduct
  <1> QED BY <1>1, <1>2, <1>5 DEF n

\* Chunks of a paragraph that lose nothing short.
ChunksOf(chunks, sentences) ==
    /\ chunks \in Seq(Seq(Nat))
    /\ \A c \in 1 .. Len(chunks) : Fits(chunks[c])
    /\ \A m \in 1 .. Len(sentences) : \A w : Short(w) /\ InText(w, sentences[m]) =>
          \E c \in 1 .. Len(chunks) : InText(w, chunks[c])
    /\ NamedByPlace(sentences) => \A c \in 1 .. Len(chunks) : Distinct(chunks[c])

LEMMA ParagraphChunks ==
    ASSUME NEW sentences \in Seq(Stripped), sentences # <<>>
    PROVE  ChunksOf(ChunkParagraph(sentences), sentences)
  <1> DEFINE n == Len(sentences)
             whole == FoldLeft(Join, <<>>, sentences)
             packed == FoldLeft(Pack, NothingPacked, sentences)
             cut == packed.chunks \o HardSplit(packed.text)
  <1>1. n \in Nat /\ n >= 1 /\ n # 0
    BY EmptySeq, LenProperties
  <1>2. Holds(whole, sentences, n) /\ PackHolds(packed, sentences, n)
    BY WholeHolds, AllArePacked
  <1>3. ChunkParagraph(sentences) = IF Len(whole) <= MaxChars THEN <<whole>> ELSE cut
    BY DEF ChunkParagraph, NothingPacked
  <1> HIDE DEF whole, packed
  <1>4. whole \in Seq(Nat) /\ whole # <<>> /\ packed.text # <<>>
    BY <1>1, <1>2 DEF Holds, PackHolds
  <1>5. ChunksOf(cut, sentences)
    BY <1>1, <1>2, <1>4, CutHolds DEF ChunksOf
  <1>6. ASSUME Len(whole) <= MaxChars PROVE ChunksOf(<<whole>>, sentences)
    <2>1. Len(whole) \in Nat /\ Len(whole) # 0
      BY <1>4, LenProperties, EmptySeq
    <2>2. Fits(whole)
      BY <1>6, <2>1, ChunkerAssumption DEF Fits, ChunkerAssumption
    <2> DEFINE one == <<whole>>
    <2>3. one \in Seq(Seq(Nat)) /\ Len(one) = 1 /\ one[1] = whole /\ \A c \in 1 .. Len(one) : c = 1
      BY <1>4
    <2> HIDE DEF one
    <2>4. 1 \in 1 .. Len(one)
      BY <2>3
    <2>5. ChunksOf(one, sentences)
      BY <1>2, <2>2, <2>3, <2>4 DEF ChunksOf, Holds
    <2> QED BY <2>5 DEF one
  <1> QED BY <1>3, <1>5, <1>6

\* The members of the parts are the members of the whole.
Flat(all, seqs, E, n) ==
    /\ all \in Seq(E)
    /\ \A i \in 1 .. n : \A j \in 1 .. Len(seqs[i]) : \E q \in 1 .. Len(all) : all[q] = seqs[i][j]
    /\ \A q \in 1 .. Len(all) : \E i \in 1 .. n : \E j \in 1 .. Len(seqs[i]) : all[q] = seqs[i][j]

LEMMA FlatStep ==
    ASSUME NEW E, NEW seqs \in Seq(Seq(E)), NEW n \in Nat, n + 1 <= Len(seqs),
           NEW all, Flat(all, seqs, E, n)
    PROVE  Flat(all \o seqs[n + 1], seqs, E, n + 1)
  <1> DEFINE k == n + 1
             s == seqs[k]
             new == all \o s
  <1>1. k \in 1 .. Len(seqs) /\ k \in 1 .. k /\ \A i \in 1 .. k : i \in 1 .. n \/ i = k
    BY LenProperties
  <1>2. \A i \in 1 .. n : i \in 1 .. k
    OBVIOUS
  <1>3. s \in Seq(E) /\ all \in Seq(E)
    BY <1>1, ElementOfSeq DEF Flat
  <1> HIDE DEF k, s
  <1>4. Len(all) \in Nat /\ Len(s) \in Nat
    BY <1>3, LenProperties
  <1>5. /\ new \in Seq(E) /\ Len(new) = Len(all) + Len(s)
        /\ \A q \in 1 .. Len(all) + Len(s) :
              new[q] = IF q <= Len(all) THEN all[q] ELSE s[q - Len(all)]
    BY <1>3, ConcatProperties
  <1> HIDE DEF new
  <1>6. ASSUME NEW q \in 1 .. Len(new)
        PROVE  \/ q \in 1 .. Len(all) /\ new[q] = all[q]
               \/ q - Len(all) \in 1 .. Len(s) /\ new[q] = s[q - Len(all)]
    BY <1>4, <1>5
  <1>7. ASSUME NEW q \in 1 .. Len(all) PROVE q \in 1 .. Len(new) /\ new[q] = all[q]
    BY <1>4, <1>5
  <1>8. ASSUME NEW j \in 1 .. Len(s) PROVE Len(all) + j \in 1 .. Len(new) /\ new[Len(all) + j] = s[j]
    <2> DEFINE q == Len(all) + j
    <2>1. q \in 1 .. Len(all) + Len(s) /\ ~(q <= Len(all)) /\ q - Len(all) = j
      BY <1>4
    <2> HIDE DEF q
    <2>2. new[q] = s[q - Len(all)]
      BY <1>5, <2>1
    <2> QED BY <1>5, <2>1, <2>2 DEF q
  <1>9. ASSUME NEW i \in 1 .. k, NEW j \in 1 .. Len(seqs[i])
        PROVE  \E q \in 1 .. Len(new) : new[q] = seqs[i][j]
    <2>1. CASE i = k
      BY <1>8, <2>1 DEF s
    <2>2. CASE i \in 1 .. n
      <3>1. PICK q \in 1 .. Len(all) : all[q] = seqs[i][j]
        BY <2>2 DEF Flat
      <3> QED BY <1>7, <3>1
    <2> QED BY <1>1, <2>1, <2>2
  <1>10. ASSUME NEW q \in 1 .. Len(new)
         PROVE  \E i \in 1 .. k : \E j \in 1 .. Len(seqs[i]) : new[q] = seqs[i][j]
    <2>1. CASE q \in 1 .. Len(all) /\ new[q] = all[q]
      <3>1. PICK i \in 1 .. n : \E j \in 1 .. Len(seqs[i]) : all[q] = seqs[i][j]
        BY <2>1 DEF Flat
      <3> QED BY <1>2, <2>1, <3>1
    <2>2. CASE q - Len(all) \in 1 .. Len(s) /\ new[q] = s[q - Len(all)]
      BY <1>1, <2>2 DEF s
    <2> QED BY <1>6, <2>1, <2>2
  <1> QED BY <1>5, <1>9, <1>10 DEF Flat, k, s, new

LEMMA FlattenProperties ==
    ASSUME NEW E, NEW seqs \in Seq(Seq(E))
    PROVE  Flat(FlattenSeq(seqs), seqs, E, Len(seqs))
  <1> DEFINE n == Len(seqs)
  <1>1. n \in Nat /\ \A i \in 1 .. n : seqs[i] \in Seq(E)
    BY LenProperties, ElementOfSeq
  <1>2. Flat(<<>>, seqs, E, 0)
    BY DEF Flat
  <1>3. CASE n = 0
    <2>1. FlattenSeq(seqs) = <<>>
      BY <1>3, EmptySeq DEF FlattenSeq
    <2> QED BY <1>2, <1>3, <2>1
  <1>4. CASE n # 0
    <2> DEFINE D == 1 .. n
               V == Seq(E)
               Stop == {1}
               base == [i \in D |-> seqs[i]]
               next == [i \in D |-> IF i = 1 THEN 1 ELSE i - 1]
               op == [p \in D \X V |-> p[2] \o seqs[p[1]]]
               rank == [i \in D |-> i]
               bound == n + 1
               body(g) == [i \in 1 .. Len(seqs) |-> IF i = 1 THEN seqs[i] ELSE g[i - 1] \o seqs[i]]
               flatten == CHOOSE g : g = body(g)
    <2>1. \E f : Solves(f, D, V, Stop, base, next, op)
      <3>1. Stop \in SUBSET D /\ base \in [D -> V] /\ next \in [D -> D]
        BY <1>1, <1>4
      <3>2. op \in [D \X V -> V]
        BY <1>1, ConcatProperties
      <3>3. rank \in [D -> Nat] /\ bound \in Nat /\ \A i \in D : rank[i] < bound
        BY <1>1
      <3>4. \A i \in D \ Stop : rank[next[i]] < rank[i]
        BY <1>1
      <3> HIDE DEF D, V, Stop, base, next, op, rank, bound
      <3>5. Recursion(D, V, Stop, base, next, op, rank, bound)
        BY <3>1, <3>2, <3>3, <3>4 DEF Recursion
      <3> QED BY <3>5, RecursionExists
    <2>2. PICK f : Solves(f, D, V, Stop, base, next, op)
      BY <2>1
    <2>3. f = body(f)
      <3>1. f = [i \in D |-> f[i]] /\ f \in [D -> V]
        BY <2>2 DEF Solves
      <3>2. ASSUME NEW i \in Stop PROVE f[i] = seqs[i]
        BY <1>1, <1>4, <2>2 DEF Solves
      <3>3. ASSUME NEW i \in D \ Stop PROVE f[i] = f[i - 1] \o seqs[i]
        <4>1. f[i] = op[<<i, f[next[i]]>>] /\ next[i] = i - 1
          BY <2>2 DEF Solves
        <4>2. i - 1 \in D
          BY <1>1
        <4>3. f[i - 1] \in V
          BY <3>1, <4>2
        <4> QED BY <4>1, <4>3
      <3> QED BY <3>1, <3>2, <3>3
    <2>4. flatten = body(flatten)
      BY <2>3
    <2>5. FlattenSeq(seqs) = flatten[n]
      BY <1>4 DEF FlattenSeq
    <2> HIDE DEF flatten
    <2> DEFINE T == {k \in Nat : k <= n /\ k # 0 => Flat(flatten[k], seqs, E, k)}
    <2>6. 0 \in T
      OBVIOUS
    <2>7. ASSUME NEW k \in Nat, k \in T PROVE k + 1 \in T
      <3> SUFFICES ASSUME k + 1 <= n PROVE Flat(flatten[k + 1], seqs, E, k + 1)
        OBVIOUS
      <3>1. k + 1 \in D /\ (k + 1) - 1 = k
        BY <1>1
      <3>2. CASE k = 0
        <4>1. Flat(<<>> \o seqs[k + 1], seqs, E, k + 1)
          BY <1>2, <3>2, FlatStep
        <4>2. flatten[k + 1] = seqs[k + 1] /\ seqs[k + 1] \in Seq(E)
          BY <1>1, <2>4, <3>1, <3>2
        <4>3. <<>> \o seqs[k + 1] = seqs[k + 1]
          BY <4>2, ConcatEmptySeq
        <4> QED BY <4>1, <4>2, <4>3
      <3>3. CASE k # 0
        <4>1. Flat(flatten[k], seqs, E, k)
          BY <1>1, <2>7, <3>3
        <4>2. flatten[k + 1] = flatten[k] \o seqs[k + 1]
          <5>1. \A i \in 1 .. Len(seqs) : i # 1 => flatten[i] = flatten[i - 1] \o seqs[i]
            BY <2>4
          <5>2. k + 1 \in 1 .. Len(seqs) /\ k + 1 # 1
            BY <3>1, <3>3
          <5> QED BY <3>1, <5>1, <5>2
        <4> HIDE DEF T
        <4> QED BY <4>1, <4>2, FlatStep
      <3> QED BY <3>2, <3>3
    <2>8. T = Nat
      <3>1. T \in SUBSET Nat
        OBVIOUS
      <3> HIDE DEF T
      <3> QED BY <2>6, <2>7, <3>1, NatInduct
    <2> QED BY <1>1, <1>4, <2>5, <2>8
  <1> QED BY <1>3, <1>4

-----------------------------------------------------------------------------
(* The chunks of a document.                                               *)

LEMMA DocumentTypes ==
    ASSUME NEW d \in Documents
    PROVE  /\ d.paragraphs \in Seq(Seq(Stripped)) /\ d.findings \in SUBSET Stripped
           /\ d.findings \in SUBSET Seq(Nat)
           /\ Len(d.paragraphs) \in Nat /\ DOMAIN d.paragraphs = 1 .. Len(d.paragraphs)
           /\ \A i \in 1 .. Len(d.paragraphs) :
                 d.paragraphs[i] \in Seq(Stripped) /\ d.paragraphs[i] # <<>> /\ NamedByPlace(d.paragraphs[i])
  <1>1. d \in [paragraphs : Seq(Seq(Stripped) \ {<<>>}), findings : SUBSET Stripped]
    BY DocumentsAssumption DEF DocumentsAssumption
  <1>2. \A p \in Range(d.paragraphs) : NamedByPlace(p)
    BY DocumentsAssumption DEF DocumentsAssumption
  <1>3. d.paragraphs \in Seq(Seq(Stripped) \ {<<>>}) /\ d.findings \in SUBSET Stripped
    BY <1>1
  <1> DEFINE E == Seq(Stripped)
             ps == d.paragraphs
  <1>4. ps \in Seq(E \ {<<>>})
    BY <1>3
  <1> HIDE DEF E, ps
  <1>5. /\ ps \in Seq(E) /\ Len(ps) \in Nat /\ DOMAIN ps = 1 .. Len(ps)
        /\ \A i \in 1 .. Len(ps) : ps[i] \in E \ {<<>>}
    BY <1>4, SeqMonotonic, LenProperties, ElementOfSeq
  <1>6. \A i \in 1 .. Len(ps) : NamedByPlace(ps[i])
    BY <1>2, <1>5 DEF Range, ps
  <1>7. d.findings \in SUBSET Seq(Nat)
    BY <1>3 DEF Stripped
  <1> QED BY <1>3, <1>5, <1>6, <1>7 DEF E, ps

\* What ChunkText makes of a document: texts that fit, in which no character
\* stands twice, and everything short that stands in one of its sentences.
LEMMA DocumentChunks ==
    ASSUME NEW d \in Documents
    PROVE  LET chunks == ChunkText(d.paragraphs)
           IN  /\ chunks \in Seq(Seq(Nat)) /\ Len(chunks) \in Nat /\ DOMAIN chunks = 1 .. Len(chunks)
               /\ \A c \in 1 .. Len(chunks) :
                     chunks[c] \in Seq(Nat) /\ Fits(chunks[c]) /\ Distinct(chunks[c])
               /\ \A p \in Range(d.paragraphs) : \A s \in Range(p) : \A w :
                     Short(w) /\ InText(w, s) => \E c \in 1 .. Len(chunks) : InText(w, chunks[c])
  <1> DEFINE ps == d.paragraphs
             parts == [i \in DOMAIN ps |-> ChunkParagraph(ps[i])]
             chunks == ChunkText(ps)
  <1>1. /\ Len(ps) \in Nat /\ DOMAIN ps = 1 .. Len(ps)
        /\ \A i \in 1 .. Len(ps) : ps[i] \in Seq(Stripped) /\ ps[i] # <<>> /\ NamedByPlace(ps[i])
    BY DocumentTypes
  <1>2. chunks = FlattenSeq(parts)
    BY DEF ChunkText
  <1> HIDE DEF ps, chunks
  <1>3. ASSUME NEW i \in 1 .. Len(ps) PROVE ChunksOf(parts[i], ps[i]) /\ parts[i] \in Seq(Seq(Nat))
    <2>1. ChunksOf(ChunkParagraph(ps[i]), ps[i])
      BY <1>1, ParagraphChunks
    <2> QED BY <1>1, <2>1 DEF ChunksOf
  <1>4. parts \in Seq(Seq(Seq(Nat))) /\ Len(parts) = Len(ps)
    <2>1. parts = [i \in 1 .. Len(ps) |-> ChunkParagraph(ps[i])]
      BY <1>1
    <2>2. \A i \in 1 .. Len(ps) : ChunkParagraph(ps[i]) \in Seq(Seq(Nat))
      BY <1>1, <1>3
    <2>3. [i \in 1 .. Len(ps) |-> ChunkParagraph(ps[i])] \in Seq(Seq(Seq(Nat)))
      BY <1>1, <2>2, IsASeq
    <2> HIDE DEF parts
    <2>4. parts \in Seq(Seq(Seq(Nat))) /\ DOMAIN parts = 1 .. Len(ps)
      BY <2>1, <2>3
    <2> QED BY <1>1, <2>4, LenProperties
  <1> HIDE DEF parts
  <1>5. Flat(chunks, parts, Seq(Nat), Len(ps))
    BY <1>2, <1>4, FlattenProperties
  <1>6. /\ chunks \in Seq(Seq(Nat)) /\ Len(chunks) \in Nat /\ DOMAIN chunks = 1 .. Len(chunks)
        /\ \A c \in 1 .. Len(chunks) : chunks[c] \in Seq(Nat)
    BY <1>5, LenProperties, ElementOfSeq DEF Flat
  <1>7. ASSUME NEW c \in 1 .. Len(chunks) PROVE Fits(chunks[c]) /\ Distinct(chunks[c])
    <2>1. PICK i \in 1 .. Len(ps) : \E j \in 1 .. Len(parts[i]) : chunks[c] = parts[i][j]
      BY <1>5 DEF Flat
    <2>2. PICK j \in 1 .. Len(parts[i]) : chunks[c] = parts[i][j]
      BY <2>1
    <2> QED BY <1>1, <1>3, <2>2 DEF ChunksOf
  <1>8. ASSUME NEW p \in Range(ps), NEW s \in Range(p), NEW w, Short(w), InText(w, s)
        PROVE  \E c \in 1 .. Len(chunks) : InText(w, chunks[c])
    <2>1. PICK i \in 1 .. Len(ps) : p = ps[i]
      BY <1>1 DEF Range
    <2>2. p \in Seq(Stripped)
      BY <1>1, <2>1
    <2>3. PICK m \in 1 .. Len(p) : s = p[m]
      BY <2>2, LenProperties DEF Range
    <2>4. PICK j \in 1 .. Len(parts[i]) : InText(w, parts[i][j])
      BY <1>3, <1>8, <2>1, <2>3 DEF ChunksOf
    <2>5. PICK q \in 1 .. Len(chunks) : chunks[q] = parts[i][j]
      BY <1>5 DEF Flat
    <2> QED BY <2>4, <2>5
  <1> QED BY <1>6, <1>7, <1>8 DEF chunks, ps

-----------------------------------------------------------------------------
(* The inductive invariant.                                                *)

ChunksIn(d) == ChunkText(d.paragraphs)

\* What is stored was made of a chunk of its document.
Made(chunk) ==
    /\ chunk.of \in Documents /\ chunk.number \in Nat
    /\ chunk.number + 1 \in 1 .. Len(ChunksIn(chunk.of))
    /\ chunk = StoredChunk(chunk.of, chunk.number, Source(chunk))

\* The first n chunks of a document are in the store.
Present(d, n) ==
    \A k \in 1 .. n : \E i \in DOMAIN store : store[i].of = d /\ store[i].number = k - 1

\* The job that has stored the first n chunks of a document.
JobAt(d, n) == [rest |-> SubSeq(ChunksIn(d), n + 1, Len(ChunksIn(d))), next |-> n, of |-> d]

StoreInv == store \in Seq(Chunk) /\ \A i \in DOMAIN store : Made(store[i])

JobInv ==
    job # NoJob =>
        \E d \in Documents : \E n \in 0 .. Len(ChunksIn(d)) :
            job = JobAt(d, n) /\ Present(d, n) /\ latest = NoDocument

LatestInv ==
    latest # NoDocument => latest \in Documents /\ Present(latest, Len(ChunksIn(latest)))

OneOfEach ==
    kind = "sqlite" => \A i, j \in DOMAIN store : store[i].number = store[j].number => i = j

Allowed(hits, all) == {i \in hits : all \/ ~Sensitive(store[i])}

Answers(all, shown) ==
    \E hits \in Hits :
        shown \in kSubset(Smaller(TopK, Cardinality(Allowed(hits, all))), Allowed(hits, all))

AnswerInv ==
    answer # NoAnswer =>
        \E all \in BOOLEAN : \E shown \in SUBSET DOMAIN store :
            answer = [all |-> all, shown |-> shown] /\ Answers(all, shown)

IInv ==
    /\ kind \in {"memory", "sqlite"} /\ jobs \in 0 .. MaxJobs
    /\ StoreInv /\ JobInv /\ LatestInv /\ OneOfEach /\ AnswerInv

LEMMA ChunksType ==
    ASSUME NEW d \in Documents
    PROVE  /\ ChunksIn(d) \in Seq(Seq(Nat)) /\ Len(ChunksIn(d)) \in Nat
           /\ DOMAIN ChunksIn(d) = 1 .. Len(ChunksIn(d))
           /\ \A c \in 1 .. Len(ChunksIn(d)) :
                 ChunksIn(d)[c] \in Seq(Nat) /\ Fits(ChunksIn(d)[c]) /\ Distinct(ChunksIn(d)[c])
  BY DocumentChunks DEF ChunksIn

LEMMA StoredChunkIsMade ==
    ASSUME NEW d \in Documents, NEW n \in 1 .. Len(ChunksIn(d))
    PROVE  LET chunk == StoredChunk(d, n - 1, ChunksIn(d)[n])
           IN  chunk \in Chunk /\ Made(chunk) /\ chunk.of = d /\ chunk.number = n - 1
  <1> DEFINE text == ChunksIn(d)[n]
             chunk == StoredChunk(d, n - 1, text)
             F == FoundIn(text, d.findings)
  <1>1. n - 1 \in Nat /\ (n - 1) + 1 = n /\ text \in Seq(Nat)
    BY ChunksType
  <1> HIDE DEF text
  <1>2. F \in SUBSET d.findings
    BY DEF FoundIn
  <1>3. F \in SUBSET Seq(Int) /\ text \in Seq(Int)
    BY <1>1, <1>2, DocumentTypes, SeqMonotonic
  <1>4. chunk = [number |-> n - 1, of |-> d, text |-> MaskText(text, F), found |-> F]
    BY DEF StoredChunk, ScanText
  <1> HIDE DEF F
  <1>5. MaskText(text, F) \in Seq(Int)
    BY <1>3, MaskType
  <1>6. F \in SUBSET UNION {e.findings : e \in Documents}
    BY <1>2
  <1>7. chunk \in Chunk /\ chunk.of = d /\ chunk.number = n - 1
    BY <1>1, <1>4, <1>5, <1>6 DEF Chunk
  <1> HIDE DEF chunk
  <1>8. Source(chunk) = text
    BY <1>1, <1>7 DEF Source, Cut, ChunksIn, text
  <1>9. chunk = StoredChunk(chunk.of, chunk.number, Source(chunk))
    BY <1>7, <1>8 DEF chunk
  <1>10. Made(chunk)
    BY <1>1, <1>7, <1>9 DEF Made
  <1> QED BY <1>7, <1>10 DEF chunk, text

\* What a stored chunk says of itself.
LEMMA MadeProperties ==
    ASSUME NEW chunk, Made(chunk)
    PROVE  /\ chunk.of \in Documents
           /\ Source(chunk) \in Seq(Nat) /\ Distinct(Source(chunk))
           /\ Source(chunk) = ChunksIn(chunk.of)[chunk.number + 1]
           /\ chunk.found = FoundIn(Source(chunk), chunk.of.findings)
           /\ chunk.text = ScanText(Source(chunk), chunk.of.findings).masked
  <1>1. /\ chunk.of \in Documents /\ chunk.number + 1 \in 1 .. Len(ChunksIn(chunk.of))
        /\ chunk = StoredChunk(chunk.of, chunk.number, Source(chunk))
    BY DEF Made
  <1>2. Source(chunk) = ChunksIn(chunk.of)[chunk.number + 1]
    BY <1>1 DEF Source, Cut, ChunksIn
  <1>3. Source(chunk) \in Seq(Nat) /\ Distinct(Source(chunk))
    BY <1>1, <1>2, ChunksType
  <1>4. /\ chunk.found = FoundIn(Source(chunk), chunk.of.findings)
        /\ chunk.text = ScanText(Source(chunk), chunk.of.findings).masked
    <2> DEFINE d == chunk.of
               n == chunk.number
               s == Source(chunk)
    <2>1. chunk = StoredChunk(d, n, s)
      BY <1>1
    <2> HIDE DEF d, n, s
    <2>2. chunk.found = ScanText(s, d.findings).found /\ chunk.text = ScanText(s, d.findings).masked
      BY <2>1 DEF StoredChunk
    <2> QED BY <2>2 DEF ScanText, d, s
  <1> QED BY <1>1, <1>2, <1>3, <1>4

\* Add keeps what is not replaced, and has the chunk itself.
LEMMA AddProperties ==
    ASSUME StoreInv, NEW chunk \in Chunk, Made(chunk)
    PROVE  LET new == Add(chunk)
           IN  /\ new \in Seq(Chunk)
               /\ \A i \in DOMAIN new : Made(new[i])
               /\ \E i \in DOMAIN new : new[i] = chunk
               /\ \A i \in DOMAIN store : i \in DOMAIN new
                     /\ (new[i] = store[i] \/ (store[i].number = chunk.number /\ new[i] = chunk))
               /\ OneOfEach /\ kind = "sqlite" =>
                     \A i, j \in DOMAIN new : new[i].number = new[j].number => i = j
  <1> DEFINE known == kind = "sqlite" /\ \E i \in DOMAIN store : store[i].number = chunk.number
             new == Add(chunk)
             n == Len(store)
  <1>1. /\ store \in Seq(Chunk) /\ n \in Nat /\ DOMAIN store = 1 .. n
        /\ \A i \in 1 .. n : store[i] \in Chunk /\ Made(store[i])
    BY LenProperties, ElementOfSeq DEF StoreInv
  <1>2. CASE known
    <2> DEFINE value(i) == IF store[i].number = chunk.number THEN chunk ELSE store[i]
    <2>1. new = [i \in 1 .. n |-> value(i)]
      BY <1>1, <1>2 DEF Add
    <2>2. \A i \in 1 .. n : value(i) \in Chunk
      BY <1>1
    <2>3. [i \in 1 .. n |-> value(i)] \in Seq(Chunk)
      <3> HIDE DEF value
      <3> QED BY <1>1, <2>2, IsASeq
    <2> HIDE DEF new, known
    <2>4. new \in Seq(Chunk) /\ DOMAIN new = 1 .. n /\ \A i \in 1 .. n : new[i] = value(i)
      BY <2>1, <2>3
    <2>5. \A i \in 1 .. n : new[i].number = store[i].number
      BY <2>4
    <2>6. \E i \in 1 .. n : new[i] = chunk
      BY <1>1, <1>2, <2>4 DEF known
    <2>7. \A i \in 1 .. n : Made(new[i])
      BY <1>1, <2>4
    <2>8. OneOfEach /\ kind = "sqlite" =>
             \A i, j \in 1 .. n : new[i].number = new[j].number => i = j
      BY <1>1, <2>5 DEF OneOfEach
    <2>9. \A i \in 1 .. n : new[i] = store[i] \/ (store[i].number = chunk.number /\ new[i] = chunk)
      BY <2>4
    <2> HIDE DEF value
    <2> QED BY <1>1, <2>4, <2>6, <2>7, <2>8, <2>9 DEF new
  <1>3. CASE ~known
    <2>1. new = Append(store, chunk)
      BY <1>3 DEF Add
    <2>2. /\ new \in Seq(Chunk) /\ DOMAIN new = 1 .. n + 1 /\ new[n + 1] = chunk
          /\ \A i \in 1 .. n : new[i] = store[i]
      BY <1>1, <2>1, AppendProperties, LenProperties
    <2>3. n + 1 \in 1 .. n + 1 /\ \A i \in 1 .. n + 1 : i \in 1 .. n \/ i = n + 1
      BY <1>1
    <2>4. \A i \in 1 .. n : i \in 1 .. n + 1
      BY <1>1
    <2> HIDE DEF new, known
    <2>5. \A i \in 1 .. n + 1 : Made(new[i])
      BY <1>1, <2>2, <2>3
    <2>6. ASSUME OneOfEach, kind = "sqlite", NEW i \in 1 .. n + 1, NEW j \in 1 .. n + 1,
                 new[i].number = new[j].number
          PROVE  i = j
      <3>1. \A k \in 1 .. n : new[k].number # chunk.number
        BY <1>1, <1>3, <2>2, <2>6 DEF known
      <3>2. i \in 1 .. n /\ j \in 1 .. n => i = j
        BY <1>1, <2>2, <2>6 DEF OneOfEach
      <3> QED BY <2>2, <2>3, <2>6, <3>1, <3>2
    <2> QED BY <1>1, <2>2, <2>3, <2>4, <2>5, <2>6 DEF new
  <1> QED BY <1>2, <1>3

LEMMA JobProperties ==
    ASSUME NEW d \in Documents, NEW n \in 0 .. Len(ChunksIn(d))
    PROVE  /\ n \in Nat /\ JobAt(d, n) # NoJob
           /\ JobAt(d, n).of = d /\ JobAt(d, n).next = n
           /\ n = 0 => JobAt(d, n).rest = ChunksIn(d)
           /\ \A i \in DOMAIN JobAt(d, n).rest : Fits(JobAt(d, n).rest[i])
           /\ JobAt(d, n).rest = <<>> => n = Len(ChunksIn(d))
           /\ JobAt(d, n).rest # <<>> =>
                 /\ n + 1 \in 1 .. Len(ChunksIn(d)) /\ n + 1 \in 0 .. Len(ChunksIn(d))
                 /\ Head(JobAt(d, n).rest) = ChunksIn(d)[n + 1]
                 /\ JobAt(d, n + 1) = [rest |-> Tail(JobAt(d, n).rest), next |-> n + 1, of |-> d]
  <1> DEFINE cs == ChunksIn(d)
             rest == SubSeq(cs, n + 1, Len(cs))
  <1>1. cs \in Seq(Seq(Nat)) /\ Len(cs) \in Nat /\ \A c \in 1 .. Len(cs) : Fits(cs[c])
    BY ChunksType
  <1>2. n \in Nat /\ n <= Len(cs)
    BY <1>1
  <1>3. JobAt(d, n) = [rest |-> rest, next |-> n, of |-> d]
    BY DEF JobAt
  <1>4. JobAt(d, n + 1) = [rest |-> SubSeq(cs, (n + 1) + 1, Len(cs)), next |-> n + 1, of |-> d]
    BY DEF JobAt
  <1> HIDE DEF cs
  <1>5. /\ rest \in Seq(Seq(Nat)) /\ Len(rest) = Len(cs) - n
        /\ \A i \in 1 .. Len(cs) - n : rest[i] = cs[i + n]
    BY <1>1, <1>2, SuffixOf
  <1>6. n = 0 => rest = cs
    BY <1>1, SubSeqFull
  <1>7. rest = <<>> => n = Len(cs)
    <2>1. rest = <<>> => Len(rest) = 0
      BY EmptySeq
    <2> HIDE DEF rest
    <2> QED BY <1>1, <1>2, <1>5, <2>1
  <1>8. ASSUME rest # <<>>
        PROVE  /\ n + 1 \in 1 .. Len(cs) /\ n + 1 \in 0 .. Len(cs)
               /\ Head(rest) = cs[n + 1] /\ Tail(rest) = SubSeq(cs, (n + 1) + 1, Len(cs))
    <2>1. Len(rest) # 0
      <3> HIDE DEF rest
      <3> QED BY <1>5, <1>8, EmptySeq
    <2>2. n < Len(cs)
      <3> HIDE DEF rest
      <3> QED BY <1>1, <1>2, <1>5, <2>1
    <2>3. n + 1 \in 1 .. Len(cs) /\ n + 1 \in 0 .. Len(cs) /\ Len(cs) \in n + 1 .. Len(cs)
      BY <1>1, <1>2, <2>2
    <2>4. Head(rest) = cs[n + 1] /\ Tail(rest) = SubSeq(cs, (n + 1) + 1, Len(cs))
      BY <1>1, <2>3, HeadTailOfSubSeq
    <2> QED BY <2>3, <2>4
  <1> HIDE DEF rest
  <1>9. ASSUME NEW i \in DOMAIN rest PROVE Fits(rest[i])
    <2>1. i \in 1 .. Len(cs) - n
      BY <1>5, LenProperties
    <2>2. i + n \in 1 .. Len(cs)
      BY <1>1, <1>2, <2>1
    <2> QED BY <1>1, <1>5, <2>1, <2>2
  <1>10. JobAt(d, n) # NoJob
    BY <1>2, <1>3 DEF NoJob
  <1>11. ASSUME rest # <<>>
         PROVE  JobAt(d, n + 1) = [rest |-> Tail(JobAt(d, n).rest), next |-> n + 1, of |-> d]
    <2>1. Tail(rest) = SubSeq(cs, (n + 1) + 1, Len(cs))
      BY <1>8, <1>11
    <2>2. JobAt(d, n).rest = rest
      BY <1>3
    <2> QED BY <1>4, <2>1, <2>2
  <1>12. JobAt(d, n).of = d /\ JobAt(d, n).next = n /\ JobAt(d, n).rest = rest
    BY <1>3
  <1> HIDE DEF JobAt
  <1> QED BY <1>2, <1>6, <1>7, <1>8, <1>9, <1>10, <1>11, <1>12 DEF cs

LEMMA InitIInv == Init => IInv
  <1> SUFFICES ASSUME Init PROVE IInv
    OBVIOUS
  <1>1. kind \in {"memory", "sqlite"} /\ jobs \in 0 .. MaxJobs
    BY RagAssumption DEF Init, RagAssumption
  <1>2. store = <<>> /\ DOMAIN store = {} /\ job = NoJob /\ latest = NoDocument /\ answer = NoAnswer
    BY DEF Init
  <1> QED BY <1>1, <1>2 DEF IInv, StoreInv, JobInv, LatestInv, OneOfEach, AnswerInv

LEMMA BeginKeepsIInv ==
    ASSUME IInv, NEW d \in Documents, Begin(d)
    PROVE  IInv'
  <1>1. /\ jobs < MaxJobs /\ jobs' = jobs + 1 /\ latest' = NoDocument /\ answer' = NoAnswer
        /\ job' = [rest |-> ChunkText(d.paragraphs), next |-> 0, of |-> d]
        /\ kind' = kind /\ store' = store
    BY DEF Begin
  <1>2. jobs' \in 0 .. MaxJobs
    BY <1>1, RagAssumption DEF IInv, RagAssumption
  <1>3. 0 \in 0 .. Len(ChunksIn(d))
    BY ChunksType
  <1>4. job' = JobAt(d, 0)
    <2>1. JobAt(d, 0).rest = ChunksIn(d)
      BY <1>3, JobProperties
    <2> QED BY <1>1, <2>1 DEF JobAt, ChunksIn
  <1>5. Present(d, 0)'
    BY DEF Present
  <1>6. JobInv'
    BY <1>1, <1>3, <1>4, <1>5 DEF JobInv
  <1>7. StoreInv' /\ LatestInv' /\ OneOfEach' /\ AnswerInv'
    BY <1>1 DEF IInv, StoreInv, LatestInv, OneOfEach, AnswerInv
  <1> QED BY <1>1, <1>2, <1>6, <1>7 DEF IInv

LEMMA AddChunkKeepsIInv ==
    ASSUME IInv, AddChunk
    PROVE  IInv'
  <1>1. job.rest # <<>> /\ job # NoJob
    BY DEF AddChunk, NoJob
  <1>2. PICK d \in Documents : \E n \in 0 .. Len(ChunksIn(d)) :
            job = JobAt(d, n) /\ Present(d, n) /\ latest = NoDocument
    BY <1>1 DEF IInv, JobInv
  <1>3. PICK n \in 0 .. Len(ChunksIn(d)) : job = JobAt(d, n) /\ Present(d, n) /\ latest = NoDocument
    BY <1>2
  <1> DEFINE k == n + 1
             chunk == StoredChunk(d, n, ChunksIn(d)[k])
  <1>4. /\ n \in Nat /\ job.of = d /\ job.next = n /\ k \in 1 .. Len(ChunksIn(d))
        /\ k \in 0 .. Len(ChunksIn(d)) /\ Head(job.rest) = ChunksIn(d)[k]
        /\ [rest |-> Tail(job.rest), next |-> n + 1, of |-> d] = JobAt(d, k)
    <2>1. JobAt(d, n).rest # <<>>
      BY <1>1, <1>3
    <2>2. /\ n \in Nat /\ JobAt(d, n).of = d /\ JobAt(d, n).next = n
          /\ n + 1 \in 1 .. Len(ChunksIn(d)) /\ n + 1 \in 0 .. Len(ChunksIn(d))
          /\ Head(JobAt(d, n).rest) = ChunksIn(d)[n + 1]
          /\ JobAt(d, n + 1) = [rest |-> Tail(JobAt(d, n).rest), next |-> n + 1, of |-> d]
      BY <2>1, JobProperties
    <2> QED BY <1>3, <2>2
  <1>5. k - 1 = n
    BY <1>4
  <1> HIDE DEF k
  <1>6. chunk \in Chunk /\ Made(chunk) /\ chunk.of = d /\ chunk.number = n
    BY <1>4, <1>5, StoredChunkIsMade
  <1>7. /\ store' = Add(chunk) /\ job' = JobAt(d, k) /\ answer' = NoAnswer
        /\ kind' = kind /\ jobs' = jobs /\ latest' = NoDocument
    BY <1>3, <1>4 DEF AddChunk
  <1> HIDE DEF chunk
  <1>8. StoreInv
    BY DEF IInv
  <1>9. /\ store' \in Seq(Chunk)
        /\ \A i \in DOMAIN store' : Made(store'[i])
        /\ \E i \in DOMAIN store' : store'[i] = chunk
        /\ \A i \in DOMAIN store : i \in DOMAIN store'
              /\ (store'[i] = store[i] \/ (store[i].number = chunk.number /\ store'[i] = chunk))
        /\ OneOfEach /\ kind = "sqlite" =>
              \A i, j \in DOMAIN store' : store'[i].number = store'[j].number => i = j
    BY <1>6, <1>7, <1>8, AddProperties
  <1>10. StoreInv' /\ OneOfEach'
    BY <1>7, <1>9 DEF StoreInv, OneOfEach, IInv
  <1>11. ASSUME NEW m \in 1 .. k
         PROVE  \E i \in DOMAIN store' : store'[i].of = d /\ store'[i].number = m - 1
    <2>1. CASE m = k
      BY <1>5, <1>6, <1>9, <2>1
    <2>2. CASE m # k
      <3>1. m \in 1 .. n /\ m - 1 # n
        BY <1>4, <1>5, <2>2
      <3>2. PICK i \in DOMAIN store : store[i].of = d /\ store[i].number = m - 1
        BY <1>3, <3>1 DEF Present
      <3>3. store'[i] = store[i] /\ i \in DOMAIN store'
        BY <1>6, <1>9, <3>1, <3>2
      <3> QED BY <3>2, <3>3
    <2> QED BY <2>1, <2>2
  <1>12. Present(d, k)'
    BY <1>11 DEF Present
  <1>13. JobInv'
    BY <1>4, <1>7, <1>12 DEF JobInv
  <1>14. LatestInv' /\ AnswerInv'
    BY <1>7 DEF LatestInv, AnswerInv
  <1> QED BY <1>7, <1>10, <1>13, <1>14 DEF IInv

LEMMA FinishKeepsIInv ==
    ASSUME IInv, Finish
    PROVE  IInv'
  <1>1. /\ job # NoJob /\ job.rest = <<>> /\ latest' = job.of /\ job' = NoJob /\ answer' = NoAnswer
        /\ kind' = kind /\ store' = store /\ jobs' = jobs
    BY DEF Finish
  <1>2. PICK d \in Documents : \E n \in 0 .. Len(ChunksIn(d)) :
            job = JobAt(d, n) /\ Present(d, n) /\ latest = NoDocument
    BY <1>1 DEF IInv, JobInv
  <1>3. PICK n \in 0 .. Len(ChunksIn(d)) : job = JobAt(d, n) /\ Present(d, n)
    BY <1>2
  <1>4. job.of = d /\ n = Len(ChunksIn(d))
    BY <1>1, <1>3, JobProperties
  <1>5. Present(d, Len(ChunksIn(d)))'
    BY <1>1, <1>3, <1>4 DEF Present
  <1>6. LatestInv'
    BY <1>1, <1>4, <1>5 DEF LatestInv
  <1>7. StoreInv' /\ JobInv' /\ OneOfEach' /\ AnswerInv'
    BY <1>1 DEF IInv, StoreInv, JobInv, OneOfEach, AnswerInv
  <1> QED BY <1>1, <1>6, <1>7 DEF IInv

LEMMA RestartKeepsIInv ==
    ASSUME IInv, Restart
    PROVE  IInv'
  <1>1. job' = NoJob /\ answer' = NoAnswer /\ kind' = kind /\ jobs' = jobs
    BY DEF Restart
  <1>2. JobInv' /\ AnswerInv'
    BY <1>1 DEF JobInv, AnswerInv
  <1>3. CASE kind = "memory"
    <2>1. store' = <<>> /\ DOMAIN store' = {} /\ latest' = NoDocument
      BY <1>3 DEF Restart
    <2>2. StoreInv' /\ LatestInv' /\ OneOfEach'
      BY <2>1 DEF StoreInv, LatestInv, OneOfEach
    <2> QED BY <1>1, <1>2, <2>2 DEF IInv
  <1>4. CASE kind # "memory"
    <2>1. store' = store /\ latest' = latest
      BY <1>4 DEF Restart
    <2>2. StoreInv' /\ LatestInv' /\ OneOfEach'
      BY <1>1, <2>1 DEF IInv, StoreInv, LatestInv, OneOfEach, Present
    <2> QED BY <1>1, <1>2, <2>2 DEF IInv
  <1> QED BY <1>3, <1>4

LEMMA QueryKeepsIInv ==
    ASSUME IInv, NEW all \in BOOLEAN, Query(all)
    PROVE  IInv'
  <1>1. PICK hits \in Hits :
            \E shown \in kSubset(Smaller(TopK, Cardinality(Allowed(hits, all))), Allowed(hits, all)) :
                answer' = [all |-> all, shown |-> shown]
    BY DEF Query, Allowed
  <1>2. PICK shown \in kSubset(Smaller(TopK, Cardinality(Allowed(hits, all))), Allowed(hits, all)) :
            answer' = [all |-> all, shown |-> shown]
    BY <1>1
  <1>3. kind' = kind /\ store' = store /\ job' = job /\ jobs' = jobs /\ latest' = latest
    BY DEF Query
  <1>4. shown \in SUBSET DOMAIN store
    BY <1>2 DEF kSubset, Allowed, Hits
  <1>5. Answers(all, shown)'
    <2>1. Answers(all, shown)
      BY <1>2 DEF Answers
    <2> QED BY <1>3, <2>1 DEF Answers, Hits, Allowed
  <1>6. AnswerInv'
    BY <1>2, <1>3, <1>4, <1>5 DEF AnswerInv
  <1>7. StoreInv' /\ JobInv' /\ LatestInv' /\ OneOfEach'
    BY <1>3 DEF IInv, StoreInv, JobInv, LatestInv, OneOfEach, Present
  <1> QED BY <1>3, <1>6, <1>7 DEF IInv

\* The invariant holds of every behaviour.
LEMMA SpecIInv == Spec => []IInv
  <1>1. IInv /\ [Next]_vars => IInv'
    <2> SUFFICES ASSUME IInv, [Next]_vars PROVE IInv'
      OBVIOUS
    <2>1. ASSUME NEW d \in Documents, Begin(d) PROVE IInv'
      BY <2>1, BeginKeepsIInv
    <2>2. CASE AddChunk
      BY <2>2, AddChunkKeepsIInv
    <2>3. CASE Finish
      BY <2>3, FinishKeepsIInv
    <2>4. CASE Restart
      BY <2>4, RestartKeepsIInv
    <2>5. ASSUME NEW all \in BOOLEAN, Query(all) PROVE IInv'
      BY <2>5, QueryKeepsIInv
    <2>6. CASE UNCHANGED vars
      <3>1. /\ kind' = kind /\ store' = store /\ job' = job /\ jobs' = jobs
            /\ latest' = latest /\ answer' = answer
        BY <2>6 DEF vars
      <3>2. StoreInv' /\ JobInv' /\ LatestInv' /\ OneOfEach'
        BY <3>1 DEF IInv, StoreInv, JobInv, LatestInv, OneOfEach, Present
      <3>3. AnswerInv'
        BY <3>1 DEF IInv, AnswerInv, Answers, Hits, Allowed
      <3> QED BY <3>1, <3>2, <3>3 DEF IInv
    <2> QED BY <2>1, <2>2, <2>3, <2>4, <2>5, <2>6 DEF Next
  <1> QED BY <1>1, InitIInv, PTL DEF Spec

-----------------------------------------------------------------------------
(* The properties.                                                         *)

\* Every variable keeps its type, and what an index job still has to store are
\* texts that are neither empty nor too long: the boundaries of _hard_split,
\* for any text and any two sizes the constructor takes.
THEOREM TypeCorrect == Spec => []TypeOK
  <1>1. IInv => TypeOK
    <2> SUFFICES ASSUME IInv PROVE TypeOK
      OBVIOUS
    <2>1. job.of \in Documents \cup {NoDocument} /\ \A i \in DOMAIN job.rest : Fits(job.rest[i])
      <3>1. CASE job = NoJob
        BY <3>1 DEF NoJob
      <3>2. CASE job # NoJob
        <4>1. PICK d \in Documents : \E n \in 0 .. Len(ChunksIn(d)) : job = JobAt(d, n)
          BY <3>2 DEF IInv, JobInv
        <4>2. PICK n \in 0 .. Len(ChunksIn(d)) : job = JobAt(d, n)
          BY <4>1
        <4>3. JobAt(d, n).of = d /\ \A i \in DOMAIN JobAt(d, n).rest : Fits(JobAt(d, n).rest[i])
          BY <4>2, JobProperties
        <4> QED BY <4>2, <4>3
      <3> QED BY <3>1, <3>2
    <2>2. latest \in Documents \cup {NoDocument}
      BY DEF IInv, LatestInv
    <2>3. answer \in {NoAnswer} \cup [all : BOOLEAN, shown : SUBSET DOMAIN store]
      BY DEF IInv, AnswerInv
    <2> QED BY <2>1, <2>2, <2>3 DEF IInv, StoreInv, TypeOK
  <1> QED BY <1>1, SpecIInv, PTL

\* What scan_text found in a chunk cannot be read in its text, whatever was
\* found, as long as no mask was wider than what it hides.
THEOREM FindingsAreMasked == Spec => []FoundIsMasked
  <1>1. IInv => FoundIsMasked
    <2> SUFFICES ASSUME IInv, NEW chunk \in Range(store), NEW f \in chunk.found,
                        ~Shifts(Source(chunk), chunk.found)
                 PROVE  Range(f) \cap Range(chunk.text) \subseteq {Space}
      BY DEF FoundIsMasked
    <2>1. Made(chunk)
      BY DEF IInv, StoreInv, Range
    <2> DEFINE text == Source(chunk)
               F == chunk.of.findings
    <2>2. /\ text \in Seq(Nat) /\ Distinct(text) /\ F \in SUBSET Seq(Nat)
          /\ chunk.found = FoundIn(text, F) /\ chunk.text = ScanText(text, F).masked
      BY <2>1, MadeProperties, DocumentTypes
    <2> HIDE DEF F
    <2>3. ~Shifts(text, FoundIn(text, F)) /\ f \in FoundIn(text, F)
      BY <2>2
    <2> HIDE DEF text
    <2> QED BY <2>2, <2>3, ScanMasksFindings
  <1> QED BY <1>1, SpecIInv, PTL

\* In the store of an indexed document is everything short that is in it.
LEMMA ShortIsStored ==
    ASSUME IInv, latest # NoDocument, NEW p \in Range(latest.paragraphs), NEW s \in Range(p),
           NEW w, Short(w), InText(w, s)
    PROVE  \E chunk \in Range(store) :
              Made(chunk) /\ chunk.of = latest /\ InText(w, Source(chunk))
  <1> DEFINE d == latest
  <1>1. d \in Documents /\ Present(d, Len(ChunksIn(d)))
    BY DEF IInv, LatestInv
  <1>2. PICK c \in 1 .. Len(ChunksIn(d)) : InText(w, ChunksIn(d)[c])
    BY <1>1, DocumentChunks DEF ChunksIn
  <1>3. PICK i \in DOMAIN store : store[i].of = d /\ store[i].number = c - 1
    BY <1>1, <1>2 DEF Present
  <1>4. Made(store[i]) /\ store[i] \in Range(store)
    BY <1>3 DEF IInv, StoreInv, Range
  <1>5. (c - 1) + 1 = c
    OBVIOUS
  <1>6. Source(store[i]) = ChunksIn(d)[c]
    BY <1>1, <1>3, <1>5 DEF Source, Cut, ChunksIn
  <1> QED BY <1>2, <1>3, <1>4, <1>6

\* Masking takes no more than what was found, cutting and packing nothing.
THEOREM TheRestIsKept == Spec => []NothingElseIsLost
  <1>1. ASSUME IInv, NEW chunk \in Range(store), ~Shifts(Source(chunk), chunk.found),
               NEW c \in Range(Source(chunk)), \A f \in chunk.found : c \notin Range(f)
        PROVE  c \in Range(chunk.text)
    <2> DEFINE text == Source(chunk)
               F == chunk.of.findings
    <2>1. Made(chunk)
      BY <1>1 DEF IInv, StoreInv, Range
    <2>2. /\ text \in Seq(Nat) /\ F \in SUBSET Seq(Nat)
          /\ chunk.found = FoundIn(text, F) /\ chunk.text = ScanText(text, F).masked
      BY <2>1, MadeProperties, DocumentTypes
    <2> HIDE DEF F
    <2>3. /\ ~Shifts(text, FoundIn(text, F)) /\ c \in Range(text)
          /\ \A f \in FoundIn(text, F) : c \notin Range(f)
      BY <1>1, <2>2
    <2> HIDE DEF text
    <2>4. PICK q \in 1 .. Len(text) : c = text[q]
      BY <2>2, <2>3, LenProperties DEF Range
    <2> QED BY <2>2, <2>3, <2>4, ScanKeepsTheRest
  <1>2. ASSUME IInv, latest # NoDocument, NEW c \in Characters(latest)
        PROVE  \E chunk \in Range(store) : chunk.of = latest /\ c \in Range(Source(chunk))
    <2>1. latest \in Documents
      BY <1>2 DEF IInv, LatestInv
    <2>2. PICK p \in Range(latest.paragraphs) : \E s \in Range(p) : c \in Range(s) /\ c # Space
      BY DEF Characters
    <2>3. PICK s \in Range(p) : c \in Range(s) /\ c # Space
      BY <2>2
    <2>4. s \in Seq(Nat)
      <3>1. p \in Seq(Stripped)
        BY <2>1, <2>2, DocumentTypes DEF Range
      <3>2. PICK m \in 1 .. Len(p) : s = p[m]
        BY <2>3, <3>1, LenProperties DEF Range
      <3> QED BY <3>1, <3>2, SentenceTypes
    <2>5. PICK j \in 1 .. Len(s) : c = s[j]
      BY <2>3, <2>4, LenProperties DEF Range
    <2>6. c \in Nat
      BY <2>4, <2>5, ElementOfSeq
    <2> DEFINE w == <<c>>
    <2>7. w \in Seq(Nat) /\ Len(w) = 1 /\ w[1] = c /\ w # <<>>
      BY <2>6
    <2> HIDE DEF w
    <2>8. Short(w)
      <3>1. OverlapChars \in Nat
        BY ChunkerAssumption DEF ChunkerAssumption
      <3>2. w[1] # Space /\ w[Len(w)] # Space
        BY <2>3, <2>7
      <3>3. w \in Stripped
        BY <2>7, <3>2 DEF Stripped
      <3>4. Len(w) <= OverlapChars + 1
        BY <2>7, <3>1
      <3> QED BY <3>3, <3>4 DEF Short
    <2>9. InText(w, s)
      <3>1. j - 1 \in Nat /\ (j - 1) + 1 = j /\ (j - 1) + 1 <= Len(s)
        BY <2>4, LenProperties
      <3>2. \A k \in 1 .. 1 : k = 1
        OBVIOUS
      <3>3. PieceAt(w, s, j - 1)
        BY <2>5, <2>7, <3>1, <3>2 DEF PieceAt
      <3> QED BY <3>1, <3>3 DEF InText
    <2>10. PICK chunk \in Range(store) :
              Made(chunk) /\ chunk.of = latest /\ InText(w, Source(chunk))
      BY <1>2, <2>2, <2>3, <2>8, <2>9, ShortIsStored
    <2> DEFINE text == Source(chunk)
    <2>11. text \in Seq(Nat)
      BY <2>10, MadeProperties
    <2> HIDE DEF text
    <2>12. c \in Range(text)
      <3>1. PICK a \in Nat : PieceAt(w, text, a)
        BY <2>10 DEF InText, text
      <3>2. w[1] = text[a + 1] /\ a + 1 \in 1 .. Len(text)
        BY <2>7, <2>11, <3>1, LenProperties DEF PieceAt
      <3>3. a + 1 \in DOMAIN text
        BY <2>11, <3>2, LenProperties
      <3> QED BY <2>7, <3>2, <3>3 DEF Range
    <2> QED BY <2>10, <2>12 DEF text
  <1>3. IInv => NothingElseIsLost
    BY <1>1, <1>2 DEF NothingElseIsLost
  <1> QED BY <1>3, SpecIInv, PTL

\* A finding within a paragraph, no wider than the overlap and one character, is
\* found in a chunk, wherever the paragraph was cut.
THEOREM ShortFindingsAreSeen == Spec => []ShortFindingsAreFound
  <1>1. IInv => ShortFindingsAreFound
    <2> SUFFICES ASSUME IInv, latest # NoDocument, NEW f \in latest.findings,
                        WithinSentence(latest, f), Len(f) <= OverlapChars + 1
                 PROVE  \E chunk \in Range(store) : chunk.of = latest /\ f \in chunk.found
      BY DEF ShortFindingsAreFound
    <2>1. latest \in Documents
      BY DEF IInv, LatestInv
    <2>2. f \in Stripped /\ f \in Seq(Nat) /\ Short(f)
      BY <2>1, DocumentTypes DEF Short
    <2>3. PICK p \in Range(latest.paragraphs) : \E s \in Range(p) : Spans(s, f) # {}
      BY DEF WithinSentence
    <2>4. PICK s \in Range(p) : Spans(s, f) # {}
      BY <2>3
    <2>5. s \in Seq(Nat)
      <3>1. p \in Seq(Stripped)
        BY <2>1, <2>3, DocumentTypes DEF Range
      <3>2. PICK m \in 1 .. Len(p) : s = p[m]
        BY <2>4, <3>1, LenProperties DEF Range
      <3> QED BY <3>1, <3>2, SentenceTypes
    <2>6. InText(f, s)
      BY <2>2, <2>4, <2>5, SpanIsInText
    <2>7. PICK chunk \in Range(store) :
              Made(chunk) /\ chunk.of = latest /\ InText(f, Source(chunk))
      BY <2>2, <2>3, <2>4, <2>6, ShortIsStored
    <2>8. Source(chunk) \in Seq(Nat) /\ chunk.found = FoundIn(Source(chunk), chunk.of.findings)
      BY <2>7, MadeProperties
    <2>9. Spans(Source(chunk), f) # {}
      BY <2>2, <2>7, <2>8, SpanIsInText
    <2>10. f \in chunk.found
      BY <2>7, <2>8, <2>9 DEF FoundIn
    <2> QED BY <2>7, <2>10
  <1> QED BY <1>1, SpecIInv, PTL

\* Once a document is indexed SQLite has each of its chunks, once, whatever
\* was in the store before and whichever indexing was cut short by a restart.
THEOREM LatestReplaces == Spec => []LatestIsStored
  <1>1. IInv => LatestIsStored
    <2> SUFFICES ASSUME IInv, latest # NoDocument, kind = "sqlite",
                        NEW n \in 1 .. Len(ChunkText(latest.paragraphs))
                 PROVE  LET here == {i \in DOMAIN store : store[i].number = n - 1}
                        IN  Cardinality(here) = 1 /\ \A i \in here : store[i].of = latest
      BY DEF LatestIsStored
    <2> DEFINE here == {i \in DOMAIN store : store[i].number = n - 1}
    <2>1. Present(latest, Len(ChunksIn(latest))) /\ n \in 1 .. Len(ChunksIn(latest))
      BY DEF IInv, LatestInv, ChunksIn
    <2>2. PICK i \in DOMAIN store : store[i].of = latest /\ store[i].number = n - 1
      BY <2>1 DEF Present
    <2>3. here = {i}
      BY <2>2 DEF IInv, OneOfEach
    <2> HIDE DEF here
    <2>4. Cardinality(here) = 1 /\ \A j \in here : store[j].of = latest
      BY <2>2, <2>3, FS_Singleton
    <2> QED BY <2>4 DEF here
  <1> QED BY <1>1, SpecIInv, PTL

\* No context of a query without include_sensitive was made of a text with a
\* finding in it: what is filtered by the masked chunks is clean in the source.
THEOREM ContextsStayClean == Spec => []ContextsAreClean
  <1>1. IInv => ContextsAreClean
    <2> SUFFICES ASSUME IInv, answer # NoAnswer, ~answer.all, NEW i \in answer.shown
                 PROVE  FoundIn(Source(store[i]), store[i].of.findings) = {}
      BY DEF ContextsAreClean
    <2>1. PICK all \in BOOLEAN : \E shown \in SUBSET DOMAIN store :
             answer = [all |-> all, shown |-> shown] /\ Answers(all, shown)
      BY DEF IInv, AnswerInv
    <2>2. PICK shown \in SUBSET DOMAIN store :
             answer = [all |-> all, shown |-> shown] /\ Answers(all, shown)
      BY <2>1
    <2>3. ~all /\ i \in shown /\ i \in DOMAIN store
      BY <2>2
    <2>4. PICK hits \in Hits : shown \in SUBSET Allowed(hits, all)
      BY <2>2 DEF Answers, kSubset
    <2>5. store[i].found = {}
      BY <2>3, <2>4 DEF Allowed, Sensitive
    <2>6. store[i].found = FoundIn(Source(store[i]), store[i].of.findings)
      BY <2>3, MadeProperties DEF IInv, StoreInv
    <2> QED BY <2>5, <2>6
  <1> QED BY <1>1, SpecIInv, PTL

\* As long as there are no more sensitive chunks than the slack of the search,
\* a query gets as many contexts as there are to get.
THEOREM AnswersAreFull == Spec => []AnswerIsFull
  <1>1. IInv => AnswerIsFull
    <2> DEFINE S == DOMAIN store
               clean == {i \in DOMAIN store : ~Sensitive(store[i])}
               n == Len(store)
               h == Smaller(TopK + Slack, n)
    <2> SUFFICES ASSUME IInv, answer # NoAnswer, Cardinality(S \ clean) <= Slack
                 PROVE  Cardinality(answer.shown) =
                           Smaller(TopK, IF answer.all THEN Len(store) ELSE Cardinality(clean))
      BY DEF AnswerIsFull
    <2>1. PICK all \in BOOLEAN : \E shown \in SUBSET DOMAIN store :
             answer = [all |-> all, shown |-> shown] /\ Answers(all, shown)
      BY DEF IInv, AnswerInv
    <2>2. PICK shown \in SUBSET DOMAIN store :
             answer = [all |-> all, shown |-> shown] /\ Answers(all, shown)
      BY <2>1
    <2>3. answer.all = all /\ answer.shown = shown
      BY <2>2
    <2>4. PICK hits \in Hits :
             shown \in kSubset(Smaller(TopK, Cardinality(Allowed(hits, all))), Allowed(hits, all))
      BY <2>2 DEF Answers
    <2> DEFINE allowed == Allowed(hits, all)
    <2>5. Cardinality(shown) = Smaller(TopK, Cardinality(allowed))
      BY <2>4 DEF kSubset
    <2>6. hits \in SUBSET S /\ Cardinality(hits) = h
      BY <2>4 DEF Hits, kSubset
    <2>7. n \in Nat /\ S = 1 .. n /\ IsFiniteSet(S) /\ Cardinality(S) = n
      <3>1. n \in Nat /\ S = 1 .. n
        BY LenProperties DEF IInv, StoreInv
      <3> HIDE DEF n, S
      <3> QED BY <3>1, FS_Interval
    <2>8. TopK \in Nat /\ Slack \in Nat
      BY RagAssumption DEF RagAssumption
    <2> HIDE DEF S, n, clean
    <2>9. clean \in SUBSET S
      BY DEF clean, S
    <2>10. allowed = IF all THEN hits ELSE hits \cap clean
      BY <2>6 DEF Allowed, clean, S
    <2> HIDE DEF allowed
    <2>11. h \in Nat /\ h <= n /\ (h = n \/ h = TopK + Slack)
      BY <2>7, <2>8 DEF Smaller
    <2> HIDE DEF h
    <2>12. CASE all
      <3>1. Cardinality(allowed) = h
        BY <2>6, <2>10, <2>12
      <3>2. Smaller(TopK, h) = Smaller(TopK, n)
        BY <2>7, <2>8, <2>11 DEF Smaller
      <3> QED BY <2>3, <2>5, <2>12, <3>1, <3>2 DEF n
    <2>13. CASE ~all
      <3> DEFINE dirty == S \ clean
                 out == hits \ allowed
      <3>1. allowed = hits \cap clean /\ allowed \in SUBSET clean /\ allowed \in SUBSET hits
            /\ out \in SUBSET dirty /\ hits = allowed \cup out /\ allowed \cap out = {}
            /\ dirty \in SUBSET S /\ allowed \in SUBSET S /\ out \in SUBSET S
        BY <2>6, <2>9, <2>10, <2>13
      <3> HIDE DEF dirty, out
      <3>2. /\ IsFiniteSet(clean) /\ Cardinality(clean) \in Nat
            /\ IsFiniteSet(dirty) /\ Cardinality(dirty) \in Nat
            /\ IsFiniteSet(allowed) /\ Cardinality(allowed) \in Nat
            /\ IsFiniteSet(out) /\ Cardinality(out) \in Nat
        BY <2>7, <2>9, <3>1, FS_Subset, FS_CardinalityType
      <3>3. Cardinality(allowed) <= Cardinality(clean) /\ Cardinality(out) <= Cardinality(dirty)
        BY <3>1, <3>2, FS_Subset
      <3>4. h = Cardinality(allowed) + Cardinality(out)
        <4>1. Cardinality(allowed \cup out) =
                 Cardinality(allowed) + Cardinality(out) - Cardinality(allowed \cap out)
          BY <3>2, FS_Union
        <4>2. Cardinality(allowed \cap out) = 0
          BY <3>1, FS_EmptySet
        <4>3. Cardinality(hits) = Cardinality(allowed \cup out) /\ Cardinality(hits) = h
          BY <2>6, <3>1
        <4> HIDE DEF allowed, out
        <4> QED BY <3>2, <4>1, <4>2, <4>3
      <3>5. Cardinality(dirty) <= Slack
        BY DEF dirty, S
      <3>6. h = n => Cardinality(allowed) = Cardinality(clean)
        <4> SUFFICES ASSUME h = n PROVE allowed = clean
          OBVIOUS
        <4>1. hits = S
          BY <2>6, <2>7, FS_Subset
        <4> QED BY <2>9, <3>1, <4>1
      <3>7. h = TopK + Slack => TopK <= Cardinality(allowed)
        BY <2>8, <3>2, <3>3, <3>4, <3>5
      <3>8. Smaller(TopK, Cardinality(allowed)) = Smaller(TopK, Cardinality(clean))
        BY <2>8, <2>11, <3>2, <3>3, <3>6, <3>7 DEF Smaller
      <3> QED BY <2>3, <2>5, <2>13, <3>8
    <2> QED BY <2>12, <2>13
  <1> QED BY <1>1, SpecIInv, PTL
=============================================================================
