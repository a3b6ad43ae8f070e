---------------------------- MODULE SequenceFacts ----------------------------
(***************************************************************************)
(* What the operators on sequences that model the kernel's linked lists    *)
(* return, element by element, and what they do to the set of the elements *)
(* and to a list in which nothing occurs twice.                            *)
(***************************************************************************)
EXTENDS Integers, Sequences, SequencesExt, SequenceTheorems, NaturalsInduction,
        WellFoundedInduction, FiniteSetTheorems, TLAPS

\* Nothing occurs twice in s.
Distinct(s) == \A i, j \in 1 .. Len(s) : s[i] = s[j] => i = j

\* Elements of a stretch of s.
LEMMA SubSeqFacts ==
    ASSUME NEW S, NEW s \in Seq(S), NEW a \in 1 .. Len(s) + 1, NEW b \in a - 1 .. Len(s)
    PROVE  /\ SubSeq(s, a, b) \in Seq(S)
           /\ Len(SubSeq(s, a, b)) = b - a + 1
           /\ \A k \in 1 .. b - a + 1 : SubSeq(s, a, b)[k] = s[a + k - 1]
  BY SMT

\* Elements of s with e put at place i.
LEMMA InsertFacts ==
    ASSUME NEW S, NEW s \in Seq(S), NEW e \in S, NEW i \in 1 .. Len(s) + 1
    PROVE  /\ InsertAt(s, i, e) \in Seq(S)
           /\ Len(InsertAt(s, i, e)) = Len(s) + 1
           /\ \A k \in 1 .. Len(s) + 1 :
                 InsertAt(s, i, e)[k] = IF k < i THEN s[k] ELSE IF k = i THEN e ELSE s[k - 1]
  <1> DEFINE l == SubSeq(s, 1, i - 1)
             r == SubSeq(s, i, Len(s))
             m == l \o <<e>>
  <1>1. l \in Seq(S) /\ Len(l) = i - 1 /\ \A k \in 1 .. i - 1 : l[k] = s[k]
    BY SubSeqFacts
  <1>2. /\ r \in Seq(S) /\ Len(r) = Len(s) - i + 1
        /\ \A k \in 1 .. Len(s) - i + 1 : r[k] = s[i + k - 1]
    BY SubSeqFacts
  <1> HIDE DEF l, r
  <1>3. <<e>> \in Seq(S) /\ Len(<<e>>) = 1 /\ <<e>>[1] = e
    OBVIOUS
  <1>4. m \in Seq(S) /\ Len(m) = i /\ \A k \in 1 .. i : m[k] = IF k < i THEN s[k] ELSE e
    BY <1>1, <1>3, ConcatProperties
  <1> HIDE DEF m
  <1>5. /\ m \o r \in Seq(S) /\ Len(m \o r) = Len(s) + 1
        /\ \A k \in 1 .. Len(s) + 1 : (m \o r)[k] = IF k <= i THEN m[k] ELSE r[k - i]
    BY <1>2, <1>4, ConcatProperties
  <1>6. InsertAt(s, i, e) = m \o r
    BY Zenon DEF InsertAt, l, r, m
  <1>7. \A k \in 1 .. Len(s) + 1 :
           (m \o r)[k] = IF k < i THEN s[k] ELSE IF k = i THEN e ELSE s[k - 1]
    <2> TAKE k \in 1 .. Len(s) + 1
    <2>1. CASE k <= i
      BY <2>1, <1>4, <1>5
    <2>2. CASE k > i
      <3>1. k - i \in 1 .. Len(s) - i + 1
        BY <2>2
      <3> QED
        BY <2>2, <3>1, <1>2, <1>5
    <2>3. k <= i \/ k > i
      OBVIOUS
    <2> QED
      BY <2>1, <2>2, <2>3, Zenon
  <1> QED
    BY <1>5, <1>6, <1>7, Zenon

\* Elements of s without the one at place i.
LEMMA RemoveFacts ==
    ASSUME NEW S, NEW s \in Seq(S), NEW i \in 1 .. Len(s)
    PROVE  /\ RemoveAt(s, i) \in Seq(S)
           /\ Len(RemoveAt(s, i)) = Len(s) - 1
           /\ \A k \in 1 .. Len(s) - 1 : RemoveAt(s, i)[k] = IF k < i THEN s[k] ELSE s[k + 1]
  <1> DEFINE l == SubSeq(s, 1, i - 1)
             r == SubSeq(s, i + 1, Len(s))
  <1>1. l \in Seq(S) /\ Len(l) = i - 1 /\ \A k \in 1 .. i - 1 : l[k] = s[k]
    BY SubSeqFacts
  <1>2. r \in Seq(S) /\ Len(r) = Len(s) - i /\ \A k \in 1 .. Len(s) - i : r[k] = s[i + k]
    BY SubSeqFacts
  <1> HIDE DEF l, r
  <1>3. /\ l \o r \in Seq(S) /\ Len(l \o r) = Len(s) - 1
        /\ \A k \in 1 .. Len(s) - 1 : (l \o r)[k] = IF k < i THEN l[k] ELSE r[k - (i - 1)]
    <2>1. /\ l \o r \in Seq(S) /\ Len(l \o r) = Len(l) + Len(r)
          /\ \A k \in 1 .. Len(l) + Len(r) :
                (l \o r)[k] = IF k <= Len(l) THEN l[k] ELSE r[k - Len(l)]
      BY <1>1, <1>2, ConcatProperties, Zenon
    <2>2. Len(l) + Len(r) = Len(s) - 1
      BY <1>1, <1>2
    <2> QED
      BY <2>1, <2>2, <1>1
  <1>4. RemoveAt(s, i) = l \o r
    BY Zenon DEF RemoveAt, l, r
  <1>5. \A k \in 1 .. Len(s) - 1 : (l \o r)[k] = IF k < i THEN s[k] ELSE s[k + 1]
    <2> TAKE k \in 1 .. Len(s) - 1
    <2>1. CASE k < i
      BY <2>1, <1>1, <1>3
    <2>2. CASE k >= i
      <3>1. k - (i - 1) \in 1 .. Len(s) - i /\ i + (k - (i - 1)) = k + 1
        BY <2>2
      <3> QED
        BY <2>2, <3>1, <1>2, <1>3
    <2>3. k < i \/ k >= i
      OBVIOUS
    <2> QED
      BY <2>1, <2>2, <2>3, Zenon
  <1> QED
    BY <1>3, <1>4, <1>5, Zenon

\* Inserting adds e to the elements.
LEMMA InsertElements ==
    ASSUME NEW S, NEW s \in Seq(S), NEW e \in S, NEW i \in 1 .. Len(s) + 1
    PROVE  /\ InsertAt(s, i, e) \in Seq(S)
           /\ InsertAt(s, i, e) # <<>>
           /\ ToSet(InsertAt(s, i, e)) = ToSet(s) \cup {e}
           /\ Distinct(s) /\ e \notin ToSet(s) => Distinct(InsertAt(s, i, e))
  <1> DEFINE r == InsertAt(s, i, e)
  <1>1. /\ r \in Seq(S) /\ Len(r) = Len(s) + 1
        /\ \A k \in 1 .. Len(s) + 1 : r[k] = IF k < i THEN s[k] ELSE IF k = i THEN e ELSE s[k - 1]
    BY InsertFacts
  <1> HIDE DEF r
  <1>2. DOMAIN r = 1 .. Len(s) + 1 /\ DOMAIN s = 1 .. Len(s)
    BY <1>1
  <1>3. ASSUME NEW x \in ToSet(r) PROVE x \in ToSet(s) \cup {e}
    <2> PICK k \in 1 .. Len(s) + 1 : x = r[k]
      BY <1>2 DEF ToSet
    <2>1. x = e \/ \E j \in 1 .. Len(s) : x = s[j]
      BY <1>1
    <2> QED
      BY <2>1, <1>2 DEF ToSet
  <1>4. ASSUME NEW x \in ToSet(s) PROVE x \in ToSet(r)
    <2> PICK k \in 1 .. Len(s) : x = s[k]
      BY <1>2 DEF ToSet
    <2>1. x = r[IF k < i THEN k ELSE k + 1]
      BY <1>1
    <2> QED
      BY <2>1, <1>2 DEF ToSet
  <1>5. e \in ToSet(r)
    BY <1>1, <1>2 DEF ToSet
  <1>6. ASSUME Distinct(s), e \notin ToSet(s) PROVE Distinct(r)
    <2>1. \A k \in 1 .. Len(s) : s[k] # e
      BY <1>2, <1>6 DEF ToSet
    <2> SUFFICES ASSUME NEW j \in 1 .. Len(r), NEW k \in 1 .. Len(r), r[j] = r[k] PROVE j = k
      BY DEF Distinct
    <2> DEFINE old(n) == IF n < i THEN n ELSE n - 1
    <2>2. \A n \in 1 .. Len(r) : n # i => old(n) \in 1 .. Len(s) /\ r[n] = s[old(n)]
      BY <1>1
    <2>3. r[i] = e
      BY <1>1
    <2>4. CASE j = i \/ k = i
      BY <2>1, <2>2, <2>3, <2>4
    <2>5. CASE j # i /\ k # i
      <3>1. old(j) = old(k)
        BY <1>6, <2>2, <2>5 DEF Distinct
      <3> QED
        BY <3>1, <2>5, <1>1
    <2> QED
      BY <2>4, <2>5
  <1> QED
    BY <1>1, <1>3, <1>4, <1>5, <1>6 DEF r

\* Removing takes one element away.
LEMMA RemoveElements ==
    ASSUME NEW S, NEW s \in Seq(S), NEW i \in 1 .. Len(s), Distinct(s)
    PROVE  /\ RemoveAt(s, i) \in Seq(S)
           /\ ToSet(RemoveAt(s, i)) = ToSet(s) \ {s[i]}
           /\ Distinct(RemoveAt(s, i))
  <1> DEFINE r == RemoveAt(s, i)
  <1>1. /\ r \in Seq(S) /\ Len(r) = Len(s) - 1
        /\ \A k \in 1 .. Len(s) - 1 : r[k] = IF k < i THEN s[k] ELSE s[k + 1]
    BY RemoveFacts
  <1> HIDE DEF r
  <1>2. DOMAIN r = 1 .. Len(s) - 1 /\ DOMAIN s = 1 .. Len(s)
    BY <1>1
  <1>3. ASSUME NEW x \in ToSet(r) PROVE x \in ToSet(s) \ {s[i]}
    <2> PICK k \in 1 .. Len(s) - 1 : x = r[k]
      BY <1>2 DEF ToSet
    <2> PICK j \in 1 .. Len(s) : x = s[j] /\ j # i
      BY <1>1
    <2> QED
      BY <1>2 DEF ToSet, Distinct
  <1>4. ASSUME NEW x \in ToSet(s), x # s[i] PROVE x \in ToSet(r)
    <2> PICK k \in 1 .. Len(s) : x = s[k]
      BY <1>2 DEF ToSet
    <2>1. k # i
      BY <1>4
    <2>2. CASE k < i
      BY <2>2, <1>1, <1>2 DEF ToSet
    <2>3. CASE k > i
      <3>1. k - 1 \in 1 .. Len(s) - 1 /\ r[k - 1] = s[k]
        BY <2>3, <1>1
      <3> QED
        BY <3>1, <1>2 DEF ToSet
    <2> QED
      BY <2>1, <2>2, <2>3
  <1>5. Distinct(r)
    <2> SUFFICES ASSUME NEW j \in 1 .. Len(r), NEW k \in 1 .. Len(r), r[j] = r[k] PROVE j = k
      BY DEF Distinct
    <2> QED
      BY <1>1, SMTT(30) DEF Distinct
  <1> QED
    BY <1>1, <1>3, <1>4, <1>5 DEF r

\* Dropping the first n elements.
LEMMA SuffixElements ==
    ASSUME NEW S, NEW s \in Seq(S), NEW n \in Nat, Distinct(s)
    PROVE  LET r == SubSeq(s, n + 1, Len(s))
           IN  /\ r \in Seq(S)
               /\ Distinct(r)
               /\ ToSet(r) = {s[i] : i \in n + 1 .. Len(s)}
               /\ Len(r) = IF n < Len(s) THEN Len(s) - n ELSE 0
  <1> DEFINE r == SubSeq(s, n + 1, Len(s))
  <1>1. /\ r \in Seq(S) /\ Len(r) = IF n < Len(s) THEN Len(s) - n ELSE 0
        /\ \A k \in 1 .. Len(r) : r[k] = s[n + k]
    BY SMT
  <1> HIDE DEF r
  <1>2. DOMAIN r = 1 .. Len(r)
    BY <1>1
  <1>3. Distinct(r)
    <2> SUFFICES ASSUME NEW j \in 1 .. Len(r), NEW k \in 1 .. Len(r), r[j] = r[k] PROVE j = k
      BY DEF Distinct
    <2> QED
      BY <1>1 DEF Distinct
  <1>4. ASSUME NEW x \in ToSet(r) PROVE x \in {s[i] : i \in n + 1 .. Len(s)}
    <2> PICK k \in 1 .. Len(r) : x = r[k]
      BY <1>2 DEF ToSet
    <2>1. n + k \in n + 1 .. Len(s) /\ x = s[n + k]
      BY <1>1
    <2> QED
      BY <2>1
  <1>5. ASSUME NEW i \in n + 1 .. Len(s) PROVE s[i] \in ToSet(r)
    <2>1. i - n \in 1 .. Len(r) /\ r[i - n] = s[i]
      BY <1>1
    <2> QED
      BY <2>1, <1>2 DEF ToSet
  <1> QED
    BY <1>1, <1>3, <1>4, <1>5 DEF r

\* s with the stretch between p and n replaced by c.
Splice(s, p, c, n) == SubSeq(s, 1, p) \o <<c>> \o SubSeq(s, n, Len(s))

\* Its elements.
LEMMA SpliceFacts ==
    ASSUME NEW S, NEW s \in Seq(S), NEW c \in S, NEW p \in 0 .. Len(s), NEW n \in p + 1 .. Len(s) + 1
    PROVE  /\ Splice(s, p, c, n) \in Seq(S)
           /\ Len(Splice(s, p, c, n)) = p + 1 + (Len(s) - n + 1)
           /\ \A k \in 1 .. Len(Splice(s, p, c, n)) :
                 Splice(s, p, c, n)[k] = IF k <= p THEN s[k] ELSE IF k = p + 1 THEN c ELSE s[k - p - 2 + n]
  <1> DEFINE l == SubSeq(s, 1, p)
             t == SubSeq(s, n, Len(s))
             m == l \o <<c>>
             r == m \o t
  <1>1. l \in Seq(S) /\ Len(l) = p /\ \A k \in 1 .. p : l[k] = s[k]
    BY SubSeqFacts
  <1>2. /\ t \in Seq(S) /\ Len(t) = Len(s) - n + 1
        /\ \A k \in 1 .. Len(s) - n + 1 : t[k] = s[n + k - 1]
    BY SubSeqFacts
  <1> HIDE DEF l, t
  <1>3. <<c>> \in Seq(S) /\ Len(<<c>>) = 1 /\ <<c>>[1] = c
    OBVIOUS
  <1>4. m \in Seq(S) /\ Len(m) = p + 1 /\ \A k \in 1 .. p + 1 : m[k] = IF k <= p THEN s[k] ELSE c
    BY <1>1, <1>3, ConcatProperties
  <1> HIDE DEF m
  <1>5. /\ r \in Seq(S) /\ Len(r) = p + 1 + (Len(s) - n + 1)
        /\ \A k \in 1 .. p + 1 + (Len(s) - n + 1) : r[k] = IF k <= p + 1 THEN m[k] ELSE t[k - (p + 1)]
    <2>1. /\ r \in Seq(S) /\ Len(r) = Len(m) + Len(t)
          /\ \A k \in 1 .. Len(m) + Len(t) : r[k] = IF k <= Len(m) THEN m[k] ELSE t[k - Len(m)]
      BY <1>2, <1>4, ConcatProperties, Zenon
    <2> HIDE DEF r
    <2> QED
      BY <2>1, <1>2, <1>4
  <1> HIDE DEF r
  <1>6. ASSUME NEW k \in 1 .. Len(r)
        PROVE  r[k] = IF k <= p THEN s[k] ELSE IF k = p + 1 THEN c ELSE s[k - p - 2 + n]
    <2>1. CASE k <= p + 1
      BY <2>1, <1>4, <1>5
    <2>2. CASE k > p + 1
      <3>1. k - (p + 1) \in 1 .. Len(s) - n + 1 /\ n + (k - (p + 1)) - 1 = k - p - 2 + n
        BY <2>2, <1>5
      <3>2. r[k] = t[k - (p + 1)]
        BY <2>2, <1>5
      <3> QED
        BY <2>2, <3>1, <3>2, <1>2, SMTT(30)
    <2>3. k <= p + 1 \/ k > p + 1
      OBVIOUS
    <2> QED
      BY <2>1, <2>2, <2>3, Zenon
  <1>7. Splice(s, p, c, n) = r
    BY DEF Splice, l, t, m, r
  <1> QED
    BY <1>5, <1>6, <1>7, Zenon

\* The first n elements of a list in which nothing occurs twice are n elements.
LEMMA PrefixCount ==
    ASSUME NEW S, NEW list \in Seq(S), Distinct(list), NEW n \in 0 .. Len(list)
    PROVE  /\ IsFiniteSet({list[i] : i \in 1 .. n})
           /\ Cardinality({list[i] : i \in 1 .. n}) = n
  <1> DEFINE W == {list[i] : i \in 1 .. n}
             f == [i \in 1 .. n |-> list[i]]
  <1>1. n \in Nat /\ 1 .. n \subseteq 1 .. Len(list)
    OBVIOUS
  <1>2. f \in [1 .. n -> W] /\ \A w \in W : \E i \in 1 .. n : f[i] = w
    OBVIOUS
  <1>3. \A i, j \in 1 .. n : f[i] = f[j] => i = j
    BY <1>1 DEF Distinct
  <1> HIDE DEF f, W
  <1>4. ExistsBijection(1 .. n, W)
    BY <1>2, <1>3 DEF ExistsBijection, Bijection, Injection, Surjection, IsInjective
  <1> QED
    BY <1>1, <1>4, FS_NatBijection, FS_CountingElements DEF W

\* Every set of natural numbers that is not empty has a least element.
LEMMA LeastElement ==
    ASSUME NEW T \in SUBSET Nat, T # {}
    PROVE  \E x \in T : \A y \in T : x <= y
  <1> DEFINE R == OpToRel(<, Nat)
  <1>1. IsWellFoundedOn(R, Nat)
    BY NatLessThanWellFounded
  <1>2. \A x, y \in Nat : y < x => <<y, x>> \in R
    BY DEF OpToRel
  <1> HIDE DEF R
  <1>3. PICK x \in T : \A y \in T : ~(<<y, x>> \in R)
    BY <1>1, WFMin
  <1>4. \A y \in T : ~(y < x)
    BY <1>2, <1>3, Zenon
  <1> QED
    BY <1>4

\* Counting up to n.
LEMMA CountUp ==
    ASSUME NEW n \in Nat, NEW G \in SUBSET (0..n), 0 \in G, \A k \in 1..n : k - 1 \in G => k \in G
    PROVE  G = 0..n
  <1> DEFINE T == (0..n) \ G
  <1> SUFFICES ASSUME T # {} PROVE FALSE
    OBVIOUS
  <1>1. T \in SUBSET Nat
    OBVIOUS
  <1>2. PICK x \in T : \A y \in T : x <= y
    BY <1>1, LeastElement
  <1>3. x \in 1..n
    BY <1>2
  <1>4. x - 1 \in 0..n /\ ~(x <= x - 1)
    BY <1>3
  <1> QED
    BY <1>2, <1>3, <1>4

\* Appending adds e to the elements.
LEMMA AppendElements ==
    ASSUME NEW S, NEW s \in Seq(S), NEW e \in S
    PROVE  /\ Append(s, e) \in Seq(S)
           /\ ToSet(Append(s, e)) = ToSet(s) \cup {e}
           /\ Distinct(s) /\ e \notin ToSet(s) => Distinct(Append(s, e))
  <1> DEFINE r == Append(s, e)
  <1>1. /\ r \in Seq(S) /\ Len(s) \in Nat /\ Len(r) = Len(s) + 1
        /\ r[Len(s) + 1] = e /\ \A k \in 1..Len(s) : r[k] = s[k]
    OBVIOUS
  <1>2. DOMAIN s = 1..Len(s) /\ DOMAIN r = 1..(Len(s) + 1)
    BY <1>1
  <1> HIDE DEF r
  <1>3. \A k : k \in DOMAIN r <=> k \in DOMAIN s \/ k = Len(s) + 1
    BY <1>1, <1>2
  <1>4. ToSet(r) = ToSet(s) \cup {e}
    BY <1>1, <1>2, <1>3 DEF ToSet
  <1>5. Distinct(s) /\ e \notin ToSet(s) => Distinct(r)
    <2> SUFFICES ASSUME Distinct(s), e \notin ToSet(s),
                        NEW i \in 1..Len(r), NEW j \in 1..Len(r), r[i] = r[j]
                 PROVE  i = j
      BY DEF Distinct
    <2>1. \A k \in 1..Len(s) : s[k] # e
      BY <1>2 DEF ToSet
    <2> QED
      BY <1>1, <2>1 DEF Distinct
  <1> QED
    BY <1>1, <1>4, <1>5 DEF r

\* Putting e before s adds it to the elements.
LEMMA PushElements ==
    ASSUME NEW S, NEW s \in Seq(S), NEW e \in S, Distinct(s), e \notin ToSet(s)
    PROVE  /\ <<e>> \o s \in Seq(S)
           /\ ToSet(<<e>> \o s) = ToSet(s) \cup {e}
           /\ Distinct(<<e>> \o s)
  <1> DEFINE r == <<e>> \o s
  <1>1. /\ r \in Seq(S) /\ Len(s) \in Nat /\ Len(r) = Len(s) + 1
        /\ r[1] = e /\ \A k \in 2..Len(r) : r[k] = s[k - 1]
    OBVIOUS
  <1>2. DOMAIN s = 1..Len(s) /\ DOMAIN r = 1..(Len(s) + 1)
    BY <1>1
  <1> HIDE DEF r
  <1>3. \A k \in 1..Len(s) : s[k] = r[k + 1] /\ s[k] # e /\ k + 1 \in DOMAIN r
    <2> TAKE k \in 1..Len(s)
    <2>1. k + 1 \in 2..Len(r) /\ (k + 1) - 1 = k
      BY <1>1
    <2>2. s[k] # e
      BY <1>2 DEF ToSet
    <2> QED
      BY <1>1, <1>2, <2>1, <2>2
  <1>4. \A k \in DOMAIN r : k = 1 \/ (k - 1 \in DOMAIN s /\ r[k] = s[k - 1])
    BY <1>1, <1>2
  <1>5. ToSet(r) = ToSet(s) \cup {e}
    <2>1. \A x \in ToSet(s) : x \in ToSet(r)
      BY <1>2, <1>3 DEF ToSet
    <2>2. e \in ToSet(r)
      BY <1>1, <1>2 DEF ToSet
    <2>3. \A x \in ToSet(r) : x = e \/ x \in ToSet(s)
      BY <1>1, <1>4 DEF ToSet
    <2> QED
      BY <2>1, <2>2, <2>3
  <1>6. Distinct(r)
    <2> SUFFICES ASSUME NEW i \in 1..Len(r), NEW j \in 1..Len(r), r[i] = r[j] PROVE i = j
      BY DEF Distinct
    <2>1. CASE i = 1 \/ j = 1
      BY <2>1, <1>1, <1>2, <1>3, <1>4
    <2>2. CASE i # 1 /\ j # 1
      BY <2>2, <1>1, <1>2, <1>4 DEF Distinct
    <2> QED
      BY <2>1, <2>2
  <1> QED
    BY <1>1, <1>5, <1>6 DEF r

\* g has a value for each place up to n, which step gives from the one before; the first is v.
Steps(g, V, v, n, step) == /\ g \in [0..n -> V]
                           /\ g[0] = v
                           /\ \A k \in 1..n : g[k] = step[k][g[k - 1]]

\* There is such a g: what a recursion over the places of a list defines.
LEMMA Stepwise ==
    ASSUME NEW V, NEW v \in V, NEW n \in Nat, NEW step \in [1..n -> [V -> V]]
    PROVE  \E g : Steps(g, V, v, n, step)
  <1> DEFINE Good(m, g) == /\ g \in [0..m -> V]
                           /\ g[0] = v
                           /\ \A k \in 1..m : g[k] = step[k][g[k - 1]]
             G == {m \in 0..n : \E g : Good(m, g)}
  <1>1. 0 \in G
    <2>1. Good(0, [k \in 0..0 |-> v]) /\ 0 \in 0..n
      OBVIOUS
    <2> HIDE DEF Good
    <2> QED
      BY <2>1
  <1>2. ASSUME NEW x \in 1..n, x - 1 \in G PROVE x \in G
    <2>1. PICK g : Good(x - 1, g)
      BY <1>2
    <2> DEFINE h == [k \in 0..x |-> IF k = x THEN step[x][g[x - 1]] ELSE g[k]]
    <2>2. step[x][g[x - 1]] \in V
      BY <2>1
    <2>3. h \in [0..x -> V]
      BY <2>1, <2>2
    <2>4. h[0] = v
      BY <2>1
    <2>5. ASSUME NEW k \in 1..x PROVE h[k] = step[k][h[k - 1]]
      <3>1. k - 1 \in 0..x /\ k - 1 # x /\ k \in 0..x
        OBVIOUS
      <3>2. h[k - 1] = g[k - 1]
        BY <3>1
      <3>3. CASE k = x
        BY <3>1, <3>2, <3>3
      <3>4. CASE k # x
        <4>1. k \in 1..(x - 1) /\ h[k] = g[k]
          BY <3>1, <3>4
        <4> QED
          BY <4>1, <3>2, <2>1
      <3> QED
        BY <3>3, <3>4
    <2> HIDE DEF h
    <2>6. Good(x, h) /\ x \in 0..n
      BY <2>3, <2>4, <2>5
    <2> HIDE DEF Good
    <2> QED
      BY <2>6
  <1>3. G = 0..n
    <2> HIDE DEF G
    <2>1. G \in SUBSET (0..n)
      BY DEF G
    <2> QED
      BY <1>1, <1>2, <2>1, CountUp
  <1>4. PICK g : Good(n, g)
    <2>1. n \in G
      BY <1>3
    <2> QED
      BY <2>1
  <1> QED
    BY <1>4 DEF Steps
=============================================================================
