----------------------------- MODULE DataLemmas -----------------------------
(***************************************************************************)
(* Facts about the operators of the community modules from which the       *)
(* modules of this project are built, stated once for their proofs.        *)
(***************************************************************************)
EXTENDS Integers, SequencesExt, SequenceTheorems, FiniteSetTheorems,
        WellFoundedInduction, TLAPS

-----------------------------------------------------------------------------
(* Sequences.                                                              *)

\* A function on 1..n is a sequence of length n: what the rows and header maps
\* built with [k \in 1..n |-> ...] are.
LEMMA TupleIsSeq ==
  ASSUME NEW S, NEW n \in Nat, NEW f \in [1..n -> S]
  PROVE  f \in Seq(S) /\ Len(f) = n /\ DOMAIN f = 1..n
BY SMT, SeqDef

\* InsertAt makes the sequence one longer and keeps it over S.
LEMMA InsertAtProperties ==
  ASSUME NEW S, NEW s \in Seq(S), NEW i \in 1..(Len(s) + 1), NEW e \in S
  PROVE  /\ InsertAt(s, i, e) \in Seq(S)
         /\ Len(InsertAt(s, i, e)) = Len(s) + 1
         /\ \A j \in 1..(Len(s) + 1) :
              InsertAt(s, i, e)[j] = IF j < i THEN s[j]
                                     ELSE IF j = i THEN e ELSE s[j - 1]
<1> DEFINE before == SubSeq(s, 1, i - 1)
           after  == SubSeq(s, i, Len(s))
<1>1. Len(s) \in Nat /\ \A j \in 1..Len(s) : s[j] \in S
  BY LenProperties, ElementOfSeq
<1>2. /\ before \in Seq(S) /\ Len(before) = i - 1
      /\ \A j \in 1..(i - 1) : before[j] = s[j]
  <2>1. \A j \in 1..(i - 1) : s[j] \in S
    BY <1>1
  <2>2. 1 \in Int /\ i - 1 \in Int
    BY <1>1
  <2>3. /\ SubSeq(s, 1, i - 1) \in Seq(S)
        /\ Len(SubSeq(s, 1, i - 1)) = IF 1 <= i - 1 THEN (i - 1) - 1 + 1 ELSE 0
        /\ \A j \in 1..((i - 1) - 1 + 1) : SubSeq(s, 1, i - 1)[j] = s[1 + j - 1]
    BY <2>1, <2>2, SubSeqProperties
  <2> QED BY <2>3, <1>1
<1>3. /\ after \in Seq(S) /\ Len(after) = Len(s) - i + 1
      /\ \A j \in 1..(Len(s) - i + 1) : after[j] = s[i + j - 1]
  <2>1. \A j \in i..Len(s) : s[j] \in S
    BY <1>1
  <2>2. i \in Int /\ Len(s) \in Int
    BY <1>1
  <2>3. /\ SubSeq(s, i, Len(s)) \in Seq(S)
        /\ Len(SubSeq(s, i, Len(s))) = IF i <= Len(s) THEN Len(s) - i + 1 ELSE 0
        /\ \A j \in 1..(Len(s) - i + 1) : SubSeq(s, i, Len(s))[j] = s[i + j - 1]
    BY <2>1, <2>2, SubSeqProperties
  <2> QED BY <2>3, <1>1
<1>4. <<e>> \in Seq(S) /\ Len(<<e>>) = 1 /\ <<e>>[1] = e
  OBVIOUS
<1> HIDE DEF before, after
<1>5. /\ before \o <<e>> \in Seq(S)
      /\ Len(before \o <<e>>) = i
      /\ \A j \in 1..i : (before \o <<e>>)[j] = IF j < i THEN s[j] ELSE e
  <2>1. /\ before \o <<e>> \in Seq(S)
        /\ Len(before \o <<e>>) = Len(before) + Len(<<e>>)
        /\ \A j \in 1..(Len(before) + Len(<<e>>)) : (before \o <<e>>)[j] =
              IF j <= Len(before) THEN before[j] ELSE <<e>>[j - Len(before)]
    BY <1>2, <1>4, ConcatProperties
  <2>2. Len(before) \in Nat /\ i \in Nat /\ Len(before) + Len(<<e>>) = i
    BY <1>1, <1>2, <1>4
  <2>3. \A j \in 1..i :
              (before \o <<e>>)[j] = IF j < i THEN s[j] ELSE e
    <3> SUFFICES ASSUME NEW j \in 1..i
                 PROVE  (before \o <<e>>)[j] = IF j < i THEN s[j] ELSE e
      OBVIOUS
    <3>1. CASE j < i
      <4>1. j \in 1..(i - 1) /\ j <= Len(before)
        BY <3>1, <1>2, <2>2
      <4> QED BY <4>1, <3>1, <2>1, <2>2, <1>2
    <3>2. CASE ~ (j < i)
      <4>1. j = i /\ ~ (j <= Len(before)) /\ j - Len(before) = 1
        BY <3>2, <1>2, <2>2
      <4> QED BY <4>1, <3>2, <2>1, <2>2, <1>4
    <3> QED BY <3>1, <3>2
  <2> QED BY <2>1, <2>2, <2>3
<1> DEFINE head == before \o <<e>>
<1> HIDE DEF head
<1>6. /\ head \o after \in Seq(S)
      /\ Len(head \o after) = i + (Len(s) - i + 1)
      /\ \A j \in 1..(i + (Len(s) - i + 1)) : (head \o after)[j] =
            IF j <= i THEN head[j] ELSE after[j - i]
  <2>1. head \in Seq(S) /\ Len(head) = i
    BY <1>5 DEF head
  <2>2. /\ head \o after \in Seq(S)
        /\ Len(head \o after) = Len(head) + Len(after)
        /\ \A j \in 1..(Len(head) + Len(after)) : (head \o after)[j] =
              IF j <= Len(head) THEN head[j] ELSE after[j - Len(head)]
    BY <2>1, <1>3, ConcatProperties
  <2> QED BY <2>1, <2>2, <1>3
<1>7. InsertAt(s, i, e) = head \o after
  BY DEF InsertAt, before, after, head
<1>8. Len(InsertAt(s, i, e)) = Len(s) + 1 /\ InsertAt(s, i, e) \in Seq(S)
  BY <1>1, <1>6, <1>7
<1>9. ASSUME NEW j \in 1..(Len(s) + 1)
      PROVE  InsertAt(s, i, e)[j] = IF j < i THEN s[j]
                                    ELSE IF j = i THEN e ELSE s[j - 1]
  <2>1. j \in 1..(i + (Len(s) - i + 1))
    BY <1>1
  <2>2. CASE j <= i
    <3>1. j \in 1..i
      BY <1>1, <2>2
    <3> QED BY <2>1, <3>1, <2>2, <1>5, <1>6, <1>7 DEF head
  <2>3. CASE j > i
    <3>1. j - i \in 1..(Len(s) - i + 1) /\ i + (j - i) - 1 = j - 1 /\ ~(j <= i)
      BY <1>1, <2>3
    <3>2. InsertAt(s, i, e)[j] = after[j - i]
      BY <2>1, <3>1, <1>6, <1>7
    <3>3. after[j - i] = s[j - 1]
      BY <1>3, <3>1
    <3> QED BY <3>2, <3>3, <3>1, <1>1
  <2> QED BY <2>2, <2>3, <1>1
<1> QED BY <1>8, <1>9

\* All but the last element.
LEMMA FrontProperties ==
  ASSUME NEW S, NEW s \in Seq(S), s # <<>>
  PROVE  \E front \in Seq(S) :
           /\ front = Front(s) /\ front = SubSeq(s, 1, Len(s) - 1)
           /\ Len(front) = Len(s) - 1
           /\ \A k \in 1..(Len(s) - 1) : front[k] = s[k]
<1>1. PICK n \in Nat : n = Len(s) - 1 /\ Len(s) = n + 1
  <2>1. Len(s) \in Nat /\ Len(s) # 0
    BY LenProperties, EmptySeq
  <2> QED BY <2>1
<1>2. PICK front : front = SubSeq(s, 1, n)
  OBVIOUS
<1>3. \A k \in 1..n : s[k] \in S
  <2>1. \A k \in 1..n : k \in 1..Len(s)
    BY <1>1
  <2> QED BY <2>1, ElementOfSeq
<1>4. /\ front \in Seq(S)
      /\ Len(front) = IF 1 <= n THEN n - 1 + 1 ELSE 0
      /\ \A k \in 1..(n - 1 + 1) : front[k] = s[1 + k - 1]
  BY <1>2, <1>3, SubSeqProperties
<1>5. Len(front) = n
  BY <1>4
<1>6. \A k \in 1..n : front[k] = s[k]
  <2>1. ASSUME NEW k \in 1..n PROVE front[k] = s[k]
    <3>1. k \in 1..(n - 1 + 1) /\ 1 + k - 1 = k
      OBVIOUS
    <3> QED BY <1>4, <3>1
  <2> QED BY <2>1
<1> QED BY <1>1, <1>2, <1>4, <1>5, <1>6 DEF Front

\* RemoveAt makes the sequence one shorter and keeps it over S.
LEMMA RemoveAtProperties ==
  ASSUME NEW S, NEW s \in Seq(S), NEW i \in 1..Len(s)
  PROVE  /\ RemoveAt(s, i) \in Seq(S)
         /\ Len(RemoveAt(s, i)) = Len(s) - 1
         /\ \A j \in 1..(Len(s) - 1) :
              RemoveAt(s, i)[j] = IF j < i THEN s[j] ELSE s[j + 1]
<1> DEFINE before == SubSeq(s, 1, i - 1)
           after  == SubSeq(s, i + 1, Len(s))
<1>1. Len(s) \in Nat /\ \A j \in 1..Len(s) : s[j] \in S
  BY LenProperties, ElementOfSeq
<1>2. /\ before \in Seq(S) /\ Len(before) = i - 1
      /\ \A j \in 1..(i - 1) : before[j] = s[j]
  <2>1. \A j \in 1..(i - 1) : s[j] \in S
    BY <1>1
  <2>2. 1 \in Int /\ i - 1 \in Int
    BY <1>1
  <2>3. /\ SubSeq(s, 1, i - 1) \in Seq(S)
        /\ Len(SubSeq(s, 1, i - 1)) = IF 1 <= i - 1 THEN (i - 1) - 1 + 1 ELSE 0
        /\ \A j \in 1..((i - 1) - 1 + 1) : SubSeq(s, 1, i - 1)[j] = s[1 + j - 1]
    BY <2>1, <2>2, SubSeqProperties
  <2> QED BY <2>3, <1>1
<1>3. /\ after \in Seq(S) /\ Len(after) = Len(s) - i
      /\ \A j \in 1..(Len(s) - i) : after[j] = s[i + j]
  <2>1. \A j \in (i + 1)..Len(s) : s[j] \in S
    BY <1>1
  <2>2. i + 1 \in Int /\ Len(s) \in Int
    BY <1>1
  <2>3. /\ SubSeq(s, i + 1, Len(s)) \in Seq(S)
        /\ Len(SubSeq(s, i + 1, Len(s))) =
             IF i + 1 <= Len(s) THEN Len(s) - (i + 1) + 1 ELSE 0
        /\ \A j \in 1..(Len(s) - (i + 1) + 1) :
             SubSeq(s, i + 1, Len(s))[j] = s[(i + 1) + j - 1]
    BY <2>1, <2>2, SubSeqProperties
  <2> QED BY <2>3, <1>1
<1> HIDE DEF before, after
<1>4. /\ before \o after \in Seq(S)
      /\ Len(before \o after) = Len(before) + Len(after)
      /\ \A j \in 1..(Len(before) + Len(after)) : (before \o after)[j] =
            IF j <= Len(before) THEN before[j] ELSE after[j - Len(before)]
  BY <1>2, <1>3, ConcatProperties
<1>5. RemoveAt(s, i) = before \o after
  BY DEF RemoveAt, before, after
<1>6. Len(RemoveAt(s, i)) = Len(s) - 1 /\ RemoveAt(s, i) \in Seq(S)
  <2>1. Len(before) + Len(after) = Len(s) - 1
    BY <1>1, <1>2, <1>3
  <2> QED BY <2>1, <1>4, <1>5
<1>7. ASSUME NEW j \in 1..(Len(s) - 1)
      PROVE  RemoveAt(s, i)[j] = IF j < i THEN s[j] ELSE s[j + 1]
  <2>1. j \in 1..(Len(before) + Len(after))
    BY <1>1, <1>2, <1>3
  <2>2. CASE j < i
    <3>1. j \in 1..(i - 1) /\ j <= Len(before)
      BY <1>1, <1>2, <2>2
    <3> QED BY <2>1, <2>2, <3>1, <1>2, <1>4, <1>5
  <2>3. CASE j >= i
    <3>1. j - (i - 1) \in 1..(Len(s) - i) /\ i + (j - (i - 1)) = j + 1
          /\ ~(j <= i - 1) /\ ~(j < i)
      BY <1>1, <2>3
    <3>2. RemoveAt(s, i)[j] = after[j - (i - 1)]
      BY <2>1, <3>1, <1>2, <1>4, <1>5
    <3> QED BY <3>1, <3>2, <1>3
  <2> QED BY <2>2, <2>3, <1>1
<1> QED BY <1>6, <1>7

\* A finite set can be listed, so SetToSeq gives a sequence over it that has no
\* member twice.
LEMMA SetToSeqProperties ==
  ASSUME NEW S, IsFiniteSet(S)
  PROVE  /\ SetToSeq(S) \in Seq(S) /\ Len(SetToSeq(S)) = Cardinality(S)
         /\ \A j, k \in DOMAIN SetToSeq(S) : SetToSeq(S)[j] = SetToSeq(S)[k] => j = k
<1>1. Cardinality(S) \in Nat /\ ExistsBijection(1..Cardinality(S), S)
  BY FS_CardinalityType
<1>2. PICK f \in [1..Cardinality(S) -> S] : IsInjective(f)
  BY <1>1 DEF ExistsBijection, Bijection, Injection, Surjection, IsInjective
<1>3. SetToSeq(S) \in [1..Cardinality(S) -> S] /\ IsInjective(SetToSeq(S))
  BY <1>2 DEF SetToSeq
<1>4. \A j, k \in DOMAIN SetToSeq(S) : SetToSeq(S)[j] = SetToSeq(S)[k] => j = k
  BY <1>3 DEF IsInjective
<1> QED BY <1>1, <1>3, <1>4, TupleIsSeq

-----------------------------------------------------------------------------
(* Minima and maxima.                                                      *)

\* The finite subsets f[x] of S, one for each x of the nonempty I.
FiniteFamily(f, I, S) ==
    I # {} /\ f \in [I -> SUBSET S] /\ \A x \in I : IsFiniteSet(f[x])

\* f[x] contains no other member of the family.
IsMinimalMember(f, I, x) == \A y \in I : f[y] \subseteq f[x] => f[y] = f[x]

\* Of a nonempty family of finite sets some member contains no other.
LEMMA MinimalMember ==
  ASSUME NEW I, NEW S, NEW f, FiniteFamily(f, I, S)
  PROVE  \E x \in I : IsMinimalMember(f, I, x)
<1> DEFINE F == {f[x] : x \in I}
<1>1. F \subseteq FiniteSubsetsOf(S) /\ F # {}
  BY DEF FiniteSubsetsOf, FiniteFamily
<1>2. \E T \in F : \A U \in F : ~ (<<U, T>> \in StrictSubsetOrdering(S))
  <2> HIDE DEF F
  <2> QED BY <1>1, FS_StrictSubsetOrderingWellFounded, WFMin
<1>3. PICK x \in I : \A y \in I : ~ (<<f[y], f[x]>> \in StrictSubsetOrdering(S))
  BY <1>2
<1>4. \A y \in I : f[y] \subseteq f[x] => f[y] = f[x]
  BY <1>3 DEF StrictSubsetOrdering, FiniteFamily
<1> QED BY <1>4 DEF IsMinimalMember

\* A nonempty set of naturals has a smallest element: the one with the fewest
\* elements below it.
LEMMA MinProperties ==
  ASSUME NEW S \in SUBSET Nat, S # {}
  PROVE  Min(S) \in S /\ \A y \in S : Min(S) <= y
<1>0. PICK below : below = [x \in S |-> {z \in S : z < x}]
  OBVIOUS
<1>1. \A x \in S : x \in Nat
  OBVIOUS
<1>2. below \in [S -> SUBSET S]
  BY <1>0
<1>3. ASSUME NEW x \in S PROVE IsFiniteSet(below[x])
  <2>1. x \in Int /\ 0 \in Int
    BY <1>1
  <2>2. IsFiniteSet(0..x)
    BY <2>1, FS_Interval
  <2>3. \A z \in S : z < x => z \in 0..x
    BY <1>1
  <2>4. below[x] \in SUBSET (0..x)
    BY <1>0, <2>3
  <2> QED BY <2>2, <2>4, FS_Subset
<1>4. PICK x \in S : IsMinimalMember(below, S, x)
  <2>1. FiniteFamily(below, S, S)
    BY <1>2, <1>3 DEF FiniteFamily
  <2> QED BY <2>1, MinimalMember
<1>5. ASSUME NEW y \in S PROVE x <= y
  <2>1. CASE y < x
    <3>1. \A z \in S : z < y => z < x
      BY <1>1, <2>1
    <3>2. ~(y < y)
      BY <1>1
    <3>3. below[y] \subseteq below[x] /\ y \in below[x] /\ y \notin below[y]
      BY <1>0, <2>1, <3>1, <3>2
    <3> QED BY <1>4, <3>3 DEF IsMinimalMember
  <2> QED BY <1>1, <2>1
<1> QED BY <1>5 DEF Min

\* A nonempty finite set of naturals has a largest element: the one with the
\* fewest elements above it.
LEMMA MaxProperties ==
  ASSUME NEW S \in SUBSET Nat, S # {}, IsFiniteSet(S)
  PROVE  Max(S) \in S /\ \A y \in S : Max(S) >= y
<1>0. PICK above : above = [x \in S |-> {z \in S : z > x}]
  OBVIOUS
<1>1. \A x \in S : x \in Nat
  OBVIOUS
<1>2. above \in [S -> SUBSET S]
  BY <1>0
<1>3. ASSUME NEW x \in S PROVE IsFiniteSet(above[x])
  BY <1>2, FS_Subset
<1>4. PICK x \in S : IsMinimalMember(above, S, x)
  <2>1. FiniteFamily(above, S, S)
    BY <1>2, <1>3 DEF FiniteFamily
  <2> QED BY <2>1, MinimalMember
<1>5. ASSUME NEW y \in S PROVE x >= y
  <2>1. CASE y > x
    <3>1. \A z \in S : z > y => z > x
      BY <1>1, <2>1
    <3>2. ~(y > y)
      BY <1>1
    <3>3. above[y] \subseteq above[x] /\ y \in above[x] /\ y \notin above[y]
      BY <1>0, <2>1, <3>1, <3>2
    <3> QED BY <1>4, <3>3 DEF IsMinimalMember
  <2> QED BY <1>1, <2>1
<1> QED BY <1>5 DEF Max

\* The smaller and the larger of two numbers.
LEMMA MinOfTwo ==
  ASSUME NEW x \in Nat, NEW y \in Nat
  PROVE  Min({x, y}) \in {x, y} /\ Min({x, y}) <= x /\ Min({x, y}) <= y
<1>1. {x, y} \in SUBSET Nat /\ {x, y} # {}
  OBVIOUS
<1>2. Min({x, y}) \in {x, y} /\ \A z \in {x, y} : Min({x, y}) <= z
  BY <1>1, MinProperties
<1> QED BY <1>2

LEMMA MaxOfTwo ==
  ASSUME NEW x \in Nat, NEW y \in Nat
  PROVE  Max({x, y}) \in {x, y} /\ Max({x, y}) >= x /\ Max({x, y}) >= y
<1>1. {x, y} \in SUBSET Nat /\ {x, y} # {}
  OBVIOUS
<1>2. IsFiniteSet({x, y})
  <2>1. IsFiniteSet({x} \union {y})
    BY FS_Singleton, FS_Union
  <2>2. {x} \union {y} = {x, y}
    OBVIOUS
  <2> QED BY <2>1, <2>2
<1>3. Max({x, y}) \in {x, y} /\ \A z \in {x, y} : Max({x, y}) >= z
  BY <1>1, <1>2, MaxProperties
<1> QED BY <1>3

\* The first of some offsets, or the end if there is none.
LEMMA MinOrEnd ==
  ASSUME NEW n \in Nat, NEW p \in 0..n, NEW U \in SUBSET (p..(n - 1))
  PROVE  Min(U \union {n}) \in p..n
<1>1. \A x \in U \union {n} : x \in Nat /\ x \in p..n
  OBVIOUS
<1>2. U \union {n} \in SUBSET Nat /\ U \union {n} # {}
  BY <1>1
<1>3. Min(U \union {n}) \in U \union {n}
  BY <1>2, MinProperties
<1> QED BY <1>1, <1>3

\* The lengths of the members of a nonempty sequence of sequences have a
\* largest and a smallest element.
LEMMA LengthsProperties ==
  ASSUME NEW S, NEW s \in Seq(Seq(S)), s # <<>>
  PROVE  LET L == {Len(s[i]) : i \in DOMAIN s} IN
         /\ Max(L) \in L /\ \A n \in L : Max(L) >= n
         /\ Min(L) \in L /\ \A n \in L : Min(L) <= n
         /\ L \subseteq Nat
<1> DEFINE L == {Len(s[i]) : i \in DOMAIN s}
           f == [i \in DOMAIN s |-> Len(s[i])]
<1>1. Len(s) \in Nat \ {0} /\ DOMAIN s = 1..Len(s)
  BY EmptySeq, LenProperties
<1>2. L \in SUBSET Nat /\ L # {}
  <2>1. \A i \in DOMAIN s : s[i] \in Seq(S)
    BY <1>1, ElementOfSeq
  <2>2. \A i \in DOMAIN s : Len(s[i]) \in Nat
    BY <2>1, LenProperties
  <2>3. 1 \in DOMAIN s
    BY <1>1
  <2> QED BY <2>2, <2>3
<1>3. f \in Surjection(DOMAIN s, L)
  BY DEF Surjection
<1>4. IsFiniteSet(DOMAIN s)
  BY <1>1, FS_Interval
<1>5. IsFiniteSet(L)
  <2> HIDE DEF f, L
  <2> QED BY <1>3, <1>4, FS_Surjection
<1> HIDE DEF L
<1>6. /\ Max(L) \in L /\ \A n \in L : Max(L) >= n
      /\ Min(L) \in L /\ \A n \in L : Min(L) <= n
  BY <1>2, <1>5, MinProperties, MaxProperties
<1> QED BY <1>2, <1>6 DEF L
-----------------------------------------------------------------------------
(* Induction.                                                              *)

\* Induction over the naturals for a property given as a set: a property that
\* failed would fail at some number for the first time.
LEMMA NatSetInduction ==
  ASSUME NEW T, 0 \in T, \A n \in Nat : n \in T => n + 1 \in T
  PROVE  Nat \subseteq T
<1> DEFINE F == Nat \ T
<1>1. ASSUME F # {} PROVE FALSE
  <2>1. F \in SUBSET Nat
    OBVIOUS
  <2>2. Min(F) \in F /\ \A y \in F : Min(F) <= y
    <3> HIDE DEF F
    <3> QED BY <1>1, <2>1, MinProperties
  <2> DEFINE m == Min(F)
  <2>3. m \in Nat /\ m \notin T /\ m # 0 /\ \A y \in Nat : y \notin T => m <= y
    BY <2>2
  <2> HIDE DEF m
  <2>4. m - 1 \in Nat /\ ~(m <= m - 1) /\ (m - 1) + 1 = m
    BY <2>3
  <2>5. m - 1 \in T
    BY <2>3, <2>4
  <2> QED BY <2>3, <2>4, <2>5
<1> QED BY <1>1

\* The largest element of a set of numbers up to n that contains n.
LEMMA MaxIsTop ==
  ASSUME NEW n \in Nat, NEW T \in SUBSET (1..n), n \in T
  PROVE  Max(T) = n
<1>1. T \in SUBSET Nat /\ T # {}
  OBVIOUS
<1>0. IsFiniteSet(T)
  <2>1. 1 \in Int /\ n \in Int
    OBVIOUS
  <2>2. IsFiniteSet(1..n)
    BY <2>1, FS_Interval
  <2> QED BY <2>2, FS_Subset
<1>2. Max(T) \in T /\ \A y \in T : Max(T) >= y
  BY <1>1, <1>0, MaxProperties
<1>3. Max(T) \in 1..n /\ Max(T) >= n
  BY <1>2
<1> QED BY <1>3

\* The largest element of a nonempty set of numbers up to n is one of them.
LEMMA MaxIsIn ==
  ASSUME NEW n \in Nat, NEW T \in SUBSET (1..n), T # {}
  PROVE  Max(T) \in T
<1>1. 1 \in Int /\ n \in Int /\ T \in SUBSET Nat
  OBVIOUS
<1>2. IsFiniteSet(1..n)
  BY <1>1, FS_Interval
<1>3. IsFiniteSet(T)
  BY <1>2, FS_Subset
<1> QED BY <1>1, <1>3, MaxProperties

-----------------------------------------------------------------------------
(* Recursive functions.                                                    *)

\* The function by which FoldLeft is defined exists, for a step that is a
\* function on states and elements.
FoldIs(g, f, base, seq) ==
    g = [T \in SUBSET (1..Len(seq)) |->
            IF T = {} THEN base ELSE f[<<g[T \ {Max(T)}], seq[Max(T)]>>]]

LEMMA FoldExists ==
  ASSUME NEW A, NEW S, NEW base \in A, NEW seq \in Seq(S), NEW f \in [A \X S -> A]
  PROVE  \E g : FoldIs(g, f, base, seq) /\ \A T \in SUBSET (1..Len(seq)) : g[T] \in A
<1> DEFINE Fold(g, n) == g = [T \in SUBSET (1..n) |->
                                IF T = {} THEN base ELSE f[<<g[T \ {Max(T)}], seq[Max(T)]>>]]
           Folds == {n \in Nat : \E g : Fold(g, n)}
<1>1. Len(seq) \in Nat
  BY LenProperties
<1>2. 0 \in Folds
  <2>1. SUBSET (1..0) = {{}}
    OBVIOUS
  <2>2. Fold([T \in SUBSET (1..0) |-> base], 0)
    BY <2>1
  <2> QED BY <2>2
<1>3. ASSUME NEW n \in Nat, n \in Folds PROVE n + 1 \in Folds
  <2>1. PICK g : Fold(g, n)
    BY <1>3
  <2> HIDE DEF Folds
  <2> DEFINE m == n + 1
             h == [T \in SUBSET (1..m) |-> IF m \in T THEN f[<<g[T \ {m}], seq[m]>>] ELSE g[T]]
  <2>2. m \in Nat /\ 1..m = (1..n) \union {m}
    OBVIOUS
  <2> HIDE DEF m
  <2>3. ASSUME NEW T \in SUBSET (1..m)
        PROVE  h[T] = IF T = {} THEN base ELSE f[<<h[T \ {Max(T)}], seq[Max(T)]>>]
    <3>1. CASE m \in T
      <4>1. Max(T) = m
        BY <2>2, <3>1, MaxIsTop
      <4>2. T \ {m} \in SUBSET (1..m) /\ m \notin T \ {m}
        OBVIOUS
      <4>3. h[T \ {m}] = g[T \ {m}]
        BY <4>2
      <4>4. h[T] = f[<<g[T \ {m}], seq[m]>>]
        BY <3>1
      <4> QED BY <3>1, <4>1, <4>3, <4>4
    <3>2. CASE m \notin T
      <4>1. T \in SUBSET (1..n) /\ h[T] = g[T]
        BY <2>2, <3>2
      <4>2. T \ {Max(T)} \in SUBSET (1..m) /\ m \notin T \ {Max(T)}
        BY <3>2
      <4>3. h[T \ {Max(T)}] = g[T \ {Max(T)}]
        BY <4>2
      <4>4. g[T] = IF T = {} THEN base ELSE f[<<g[T \ {Max(T)}], seq[Max(T)]>>]
        BY <2>1, <4>1
      <4> QED BY <4>1, <4>3, <4>4
    <3> QED BY <3>1, <3>2
  <2>4. Fold(h, m)
    <3> DEFINE e(T) == IF T = {} THEN base ELSE f[<<h[T \ {Max(T)}], seq[Max(T)]>>]
    <3>1. h = [T \in SUBSET (1..m) |-> h[T]]
      OBVIOUS
    <3>2. \A T \in SUBSET (1..m) : h[T] = e(T)
      BY <2>3
    <3> HIDE DEF h, e
    <3>3. h = [T \in SUBSET (1..m) |-> e(T)]
      BY <3>1, <3>2
    <3> QED BY <3>3 DEF e
  <2> QED BY <2>2, <2>4 DEF Folds, m
<1>4. Len(seq) \in Folds
  <2> HIDE DEF Folds
  <2> QED BY <1>1, <1>2, <1>3, NatSetInduction
<1>5. PICK g : Fold(g, Len(seq))
  BY <1>4
<1> DEFINE Typed == {n \in Nat : n <= Len(seq) => \A T \in SUBSET (1..n) : g[T] \in A}
<1>6. 0 \in Typed
  <2>1. SUBSET (1..0) = {{}} /\ {} \in SUBSET (1..Len(seq))
    OBVIOUS
  <2>2. g[{}] = base
    BY <1>5, <2>1
  <2> QED BY <2>1, <2>2
<1>7. ASSUME NEW n \in Nat, n \in Typed PROVE n + 1 \in Typed
  <2>1. ASSUME n + 1 <= Len(seq), NEW T \in SUBSET (1..(n + 1)) PROVE g[T] \in A
    <3>1. PICK m \in Nat : m = n + 1 /\ m \in 1..Len(seq)
      BY <1>1, <2>1
    <3>2. \A x \in 1..m : x = m \/ x \in 1..n
      BY <3>1
    <3>3. \A U \in SUBSET (1..n) : g[U] \in A
      BY <1>1, <1>7, <2>1
    <3>4. CASE m \in T
      <4>1. Max(T) = m
        BY <2>1, <3>1, <3>4, MaxIsTop
      <4>2. T \ {m} \in SUBSET (1..n) /\ T \in SUBSET (1..Len(seq)) /\ T # {}
        BY <1>1, <2>1, <3>1, <3>2, <3>4
      <4>3. g[T] = f[<<g[T \ {m}], seq[m]>>]
        BY <1>5, <4>1, <4>2
      <4>4. seq[m] \in S /\ g[T \ {m}] \in A
        BY <3>1, <3>3, <4>2, ElementOfSeq
      <4> QED BY <4>3, <4>4
    <3>5. CASE m \notin T
      <4>1. T \in SUBSET (1..n)
        BY <2>1, <3>1, <3>2, <3>5
      <4> QED BY <3>3, <4>1
    <3> QED BY <3>4, <3>5
  <2> QED BY <2>1
<1>8. \A T \in SUBSET (1..Len(seq)) : g[T] \in A
  <2>1. Len(seq) \in Typed
    <3> HIDE DEF Typed
    <3> QED BY <1>1, <1>6, <1>7, NatSetInduction
  <2> QED BY <1>1, <2>1
<1> QED BY <1>5, <1>8 DEF FoldIs

\* Folding element after element: r is what the step f makes of seq.
IsPath(v, A, f, base, seq) ==
    /\ v \in [0..Len(seq) -> A] /\ v[0] = base
    /\ \A k \in 1..Len(seq) : v[k] = f[<<v[k - 1], seq[k]>>]
Folded(A, f, base, seq, r) == \E v : IsPath(v, A, f, base, seq) /\ r = v[Len(seq)]

\* A function that folds on the sets of positions, as the one of FoldLeft does.
LEMMA FoldedBySets ==
  ASSUME NEW A, NEW S, NEW base \in A, NEW seq \in Seq(S), NEW f \in [A \X S -> A],
         NEW g, g[{}] = base,
         \A T \in SUBSET (1..Len(seq)) : T # {} /\ g[T \ {Max(T)}] \in A =>
            g[T] = f[<<g[T \ {Max(T)}], seq[Max(T)]>>]
  PROVE  Folded(A, f, base, seq, g[1..Len(seq)])
<1> DEFINE N == Len(seq)
           In == {k \in Nat : k <= N => g[1..k] \in A}
           v == [k \in 0..N |-> g[1..k]]
<1>1. N \in Nat /\ \A k \in 1..N : seq[k] \in S
  BY LenProperties, ElementOfSeq
<1>2. g[1..0] = base
  <2>1. 1..0 = {}
    OBVIOUS
  <2> QED BY <2>1
<1>3. ASSUME NEW m \in 1..N, g[1..(m - 1)] \in A
      PROVE  g[1..m] = f[<<g[1..(m - 1)], seq[m]>>] /\ g[1..m] \in A
  <2>0. m \in Nat /\ m <= N /\ m \in 1..m
    BY <1>1
  <2>1. m \in Nat /\ 1..m \in SUBSET (1..N) /\ m \in 1..m /\ 1..m # {}
    <3>1. \A x \in 1..m : x \in 1..N
      BY <1>1, <2>0
    <3> HIDE DEF N
    <3> QED BY <2>0, <3>1
  <2>2. Max(1..m) = m
    BY <2>1, MaxIsTop
  <2>3. (1..m) \ {m} = 1..(m - 1)
    <3>1. \A x : x \in 1..m /\ x # m <=> x \in 1..(m - 1)
      BY <2>1
    <3> QED BY <3>1
  <2>4. g[1..m] = f[<<g[1..(m - 1)], seq[m]>>]
    BY <1>3, <2>1, <2>2, <2>3
  <2> QED BY <1>1, <1>3, <2>4
<1>4. Nat \subseteq In
  <2>1. 0 \in In
    BY <1>2
  <2>2. ASSUME NEW k \in Nat, k \in In PROVE k + 1 \in In
    <3>1. CASE k + 1 <= N
      <4>1. PICK m \in 1..N : m = k + 1 /\ m - 1 = k
        BY <1>1, <3>1
      <4>2. g[1..(m - 1)] \in A
        BY <1>1, <2>2, <3>1, <4>1
      <4>3. g[1..m] \in A
        BY <1>3, <4>2
      <4> QED BY <4>1, <4>3
    <3>2. CASE ~(k + 1 <= N)
      BY <3>2
    <3> QED BY <3>1, <3>2
  <2> HIDE DEF In
  <2> QED BY <2>1, <2>2, NatSetInduction
<1>5. \A k \in 0..N : g[1..k] \in A
  BY <1>1, <1>4
<1>6. v \in [0..N -> A] /\ v[0] = base /\ v[N] = g[1..N]
  BY <1>1, <1>2, <1>5
<1>7. ASSUME NEW k \in 1..N PROVE v[k] = f[<<v[k - 1], seq[k]>>]
  <2>1. k \in 0..N /\ k - 1 \in 0..N
    BY <1>1
  <2>2. v[k] = g[1..k] /\ v[k - 1] = g[1..(k - 1)]
    BY <2>1
  <2> HIDE DEF v
  <2> QED BY <1>3, <1>5, <2>1, <2>2
<1> HIDE DEF v
<1> QED BY <1>6, <1>7 DEF Folded, IsPath

\* Nothing more, and one element more.
LEMMA FoldedNothing ==
  ASSUME NEW A, NEW f, NEW base, NEW r, Folded(A, f, base, <<>>, r)
  PROVE  r = base
<1>1. Len(<<>>) = 0
  BY EmptySeq
<1> QED BY <1>1 DEF Folded, IsPath

LEMMA FoldedOneMore ==
  ASSUME NEW A, NEW S, NEW f, NEW base, NEW seq \in Seq(S), NEW x \in S,
         NEW r, Folded(A, f, base, seq, r), NEW q, Folded(A, f, base, Append(seq, x), q)
  PROVE  r \in A /\ q = f[<<r, x>>]
<1> DEFINE n == Len(seq)
           more == Append(seq, x)
<1>1. n \in Nat
  BY LenProperties
<1>2. Len(more) = n + 1 /\ (\A k \in 1..n : more[k] = seq[k]) /\ more[n + 1] = x
  BY <1>1, AppendProperties
<1> HIDE DEF n, more
<1>3. PICK v : IsPath(v, A, f, base, seq) /\ r = v[n]
  BY DEF Folded, n
<1>4. PICK w : IsPath(w, A, f, base, more) /\ q = w[n + 1]
  BY <1>2 DEF Folded, more
<1> DEFINE Same == {k \in Nat : k <= n => v[k] = w[k]}
<1>5. 0 \in Same
  BY <1>3, <1>4 DEF IsPath
<1>6. ASSUME NEW k \in Nat, k \in Same PROVE k + 1 \in Same
  <2>1. CASE k + 1 <= n
    <3>1. PICK m : m = k + 1 /\ m \in 1..n /\ m \in 1..(n + 1) /\ m - 1 = k
      BY <1>1, <2>1
    <3>2. v[k] = w[k]
      BY <1>1, <1>6, <2>1
    <3>3. v[m] = f[<<v[k], seq[m]>>] /\ w[m] = f[<<w[k], more[m]>>]
      BY <1>2, <1>3, <1>4, <3>1 DEF IsPath, n
    <3> QED BY <1>2, <3>1, <3>2, <3>3
  <2> QED BY <2>1
<1>7. v[n] = w[n]
  <2> HIDE DEF Same
  <2>1. n \in Same
    BY <1>1, <1>5, <1>6, NatSetInduction
  <2> QED BY <1>1, <2>1 DEF Same
<1>8. w[n + 1] = f[<<w[n], x>>] /\ v[n] \in A
  <2>1. n + 1 \in 1..(n + 1) /\ (n + 1) - 1 = n /\ n \in 0..n
    BY <1>1
  <2> QED BY <1>2, <1>3, <1>4, <2>1 DEF IsPath, n
<1> QED BY <1>3, <1>4, <1>7, <1>8

\* The first elements of a sequence, as a sequence.
LEMMA PrefixType ==
  ASSUME NEW S, NEW s \in Seq(S), NEW k \in Nat, k <= Len(s)
  PROVE  SubSeq(s, 1, k) \in Seq(S) /\ Len(SubSeq(s, 1, k)) = k
<1>1. Len(s) \in Nat /\ \A i \in 1..k : i \in 1..Len(s)
  BY LenProperties
<1>2. \A i \in 1..k : s[i] \in S
  BY <1>1, ElementOfSeq
<1> QED BY <1>2, SubSeqProperties

LEMMA OneIsSeq == \A S : \A x \in S : <<x>> \in Seq(S)
OBVIOUS

\* An element more on the right side.
LEMMA ConcatAppend ==
  ASSUME NEW S, NEW s \in Seq(S), NEW t \in Seq(S), NEW x \in S
  PROVE  s \o Append(t, x) = Append(s \o t, x)
<1>1. PICK last \in Seq(S) : last = <<x>>
  BY OneIsSeq
<1>2. s \o t \in Seq(S)
  BY ConcatProperties
<1>3. Append(t, x) = t \o last /\ Append(s \o t, x) = (s \o t) \o last
  BY <1>1, <1>2, AppendIsConcat
<1>4. (s \o t) \o last = s \o (t \o last)
  BY ConcatAssociative
<1> QED BY <1>3, <1>4

\* The first k + 1 elements are the first k and one more.
LEMMA SubSeqOneMore ==
  ASSUME NEW S, NEW s \in Seq(S), NEW k \in Nat, k + 1 <= Len(s)
  PROVE  SubSeq(s, 1, k + 1) = Append(SubSeq(s, 1, k), s[k + 1])
<1>1. Len(s) \in Nat
  BY LenProperties
<1>2. PICK m : m = k + 1
  OBVIOUS
<1>3. m \in 1..(Len(s) + 1) /\ m \in Int /\ m <= Len(s) /\ m - 1 = k /\ m \in 1..Len(s) /\ 1 <= m
  BY <1>1, <1>2
<1>4. SubSeq(s, 1, m) = SubSeq(s, 1, m - 1) \o <<s[m]>>
  BY <1>1, <1>3, SubSeqRecursiveSecond
<1>5. PICK t \in Seq(S) : t = SubSeq(s, 1, k)
  <2>1. k <= Len(s)
    BY <1>1
  <2>2. SubSeq(s, 1, k) \in Seq(S)
    BY <2>1, PrefixType
  <2> QED BY <2>2
<1>6. s[m] \in S
  BY <1>3, ElementOfSeq
<1>7. Append(t, s[m]) = t \o <<s[m]>>
  BY <1>6, AppendIsConcat
<1> QED BY <1>2, <1>3, <1>4, <1>5, <1>7

\* The function by which FlattenSeq is defined exists.
LEMMA FlattenSeqExists ==
  ASSUME NEW S, NEW seqs \in Seq(Seq(S))
  PROVE  \E f : f = [i \in 1..Len(seqs) |-> IF i = 1 THEN seqs[i] ELSE f[i - 1] \o seqs[i]]
<1> DEFINE N == Len(seqs)
           Flat(f, n) == f = [i \in 1..n |-> IF i = 1 THEN seqs[i] ELSE f[i - 1] \o seqs[i]]
           Flats == {n \in Nat : \E f : Flat(f, n)}
<1>1. N \in Nat /\ \A i \in 1..N : seqs[i] \in Seq(S)
  BY LenProperties, ElementOfSeq
<1>2. 0 \in Flats
  <2>1. Flat([i \in 1..0 |-> <<>>], 0)
    OBVIOUS
  <2>2. \E f : Flat(f, 0)
    <3> HIDE DEF Flat
    <3> QED BY <2>1
  <2> QED BY <2>2
<1>3. ASSUME NEW n \in Nat, n \in Flats PROVE n + 1 \in Flats
  <2>1. PICK f : Flat(f, n)
    BY <1>3
  <2> HIDE DEF Flats
  <2> DEFINE m == n + 1
             h == [i \in 1..m |-> IF i # m THEN f[i]
                                  ELSE IF m = 1 THEN seqs[m] ELSE f[m - 1] \o seqs[m]]
  <2>2. m \in Nat /\ (m # 1 => m - 1 \in 1..n) /\ \A i \in 1..m : i = m \/ i \in 1..n
    OBVIOUS
  <2>3. ASSUME NEW i \in 1..m PROVE h[i] = IF i = 1 THEN seqs[i] ELSE h[i - 1] \o seqs[i]
    <3>1. CASE i = m
      <4>1. m # 1 => m - 1 \in 1..m /\ m - 1 # m
        BY <2>2
      <4>2. m # 1 => h[m - 1] = f[m - 1]
        BY <4>1
      <4> QED BY <3>1, <4>2
    <3>2. CASE i # m
      <4>1. i \in 1..n /\ h[i] = f[i]
        BY <2>2, <3>2
      <4>2. i # 1 => i - 1 \in 1..m /\ i - 1 # m
        BY <4>1
      <4>3. i # 1 => h[i - 1] = f[i - 1]
        BY <4>2
      <4>4. f[i] = IF i = 1 THEN seqs[i] ELSE f[i - 1] \o seqs[i]
        BY <2>1, <4>1
      <4> QED BY <4>1, <4>3, <4>4
    <3> QED BY <3>1, <3>2
  <2>4. Flat(h, m)
    <3> DEFINE e(i) == IF i = 1 THEN seqs[i] ELSE h[i - 1] \o seqs[i]
    <3>1. h = [i \in 1..m |-> h[i]]
      OBVIOUS
    <3>2. \A i \in 1..m : h[i] = e(i)
      BY <2>3
    <3> HIDE DEF h, e
    <3>3. h = [i \in 1..m |-> e(i)]
      BY <3>1, <3>2
    <3> QED BY <3>3 DEF e
  <2> HIDE DEF Flat
  <2> QED BY <2>2, <2>4 DEF Flats
<1>4. \E f : Flat(f, N)
  <2>1. N \in Flats
    <3> HIDE DEF Flats
    <3> QED BY <1>1, <1>2, <1>3, NatSetInduction
  <2> QED BY <2>1
<1> QED BY <1>4

\* The parts of a sequence of sequences are concatenated one after the other.
IsJoin(v, S, seqs) ==
    /\ v \in [0..Len(seqs) -> Seq(S)] /\ v[0] = <<>>
    /\ \A k \in 1..Len(seqs) : v[k] = v[k - 1] \o seqs[k]

LEMMA FlattenSeqJoins ==
  ASSUME NEW S, NEW seqs \in Seq(Seq(S))
  PROVE  \E v : IsJoin(v, S, seqs) /\ FlattenSeq(seqs) = v[Len(seqs)]
<1> DEFINE N == Len(seqs)
           Flat(f, n) == f = [i \in 1..n |-> IF i = 1 THEN seqs[i] ELSE f[i - 1] \o seqs[i]]
<1>1. N \in Nat /\ \A i \in 1..N : seqs[i] \in Seq(S)
  BY LenProperties, ElementOfSeq
<1>2. \E f : Flat(f, N)
  BY FlattenSeqExists
<1>3. CASE N = 0
  <2>1. seqs = <<>> /\ FlattenSeq(seqs) = <<>> /\ <<>> \in Seq(S)
    BY <1>3, EmptySeq DEF FlattenSeq
  <2>2. PICK v : v = [k \in 0..0 |-> <<>>]
    OBVIOUS
  <2>3. IsJoin(v, S, seqs) /\ v[Len(seqs)] = <<>>
    BY <1>3, <2>1, <2>2 DEF IsJoin
  <2> QED BY <2>1, <2>3
<1>4. CASE N # 0
  <2> DEFINE f == CHOOSE f : Flat(f, N)
             v == [k \in 0..N |-> IF k = 0 THEN <<>> ELSE f[k]]
             In == {k \in Nat : k <= N => v[k] \in Seq(S)}
  <2>1. Flat(f, N)
    <3> HIDE DEF Flat
    <3> QED BY <1>2
  <2>2. FlattenSeq(seqs) = f[N]
    BY <1>4 DEF FlattenSeq
  <2> HIDE DEF f
  <2>3. v[0] = <<>> /\ <<>> \in Seq(S) /\ v[N] = f[N]
    BY <1>1, <1>4, EmptySeq
  <2>4. ASSUME NEW k \in 1..N PROVE v[k] = IF k = 1 THEN seqs[k] ELSE v[k - 1] \o seqs[k]
    <3>1. v[k] = f[k] /\ (k # 1 => k - 1 \in 1..N /\ v[k - 1] = f[k - 1])
      BY <1>1
    <3>2. f[k] = IF k = 1 THEN seqs[k] ELSE f[k - 1] \o seqs[k]
      BY <2>1
    <3> QED BY <3>1, <3>2
  <2> HIDE DEF v
  <2>5. ASSUME NEW k \in 1..N PROVE v[k] = v[k - 1] \o seqs[k]
    <3>1. CASE k = 1
      <4>1. v[k] = seqs[k] /\ k - 1 = 0 /\ seqs[k] \in Seq(S)
        BY <1>1, <2>4, <3>1
      <4>2. PICK s \in Seq(S) : s = seqs[k]
        BY <4>1
      <4>3. <<>> \o s = s
        BY ConcatEmptySeq
      <4> QED BY <2>3, <4>1, <4>2, <4>3
    <3>2. CASE k # 1
      BY <2>4, <3>2
    <3> QED BY <3>1, <3>2
  <2>6. 0 \in In
    BY <2>3
  <2>7. ASSUME NEW k \in Nat, k \in In PROVE k + 1 \in In
    <3>1. CASE k + 1 <= N
      <4>1. PICK m \in 1..N : m = k + 1 /\ m - 1 = k
        BY <1>1, <3>1
      <4>2. v[k] \in Seq(S) /\ seqs[m] \in Seq(S)
        BY <1>1, <2>7, <3>1, <4>1
      <4>3. v[m] = v[k] \o seqs[m]
        BY <2>5, <4>1
      <4>4. v[k] \o seqs[m] \in Seq(S)
        <5>1. PICK a \in Seq(S), b \in Seq(S) : a = v[k] /\ b = seqs[m]
          BY <4>2
        <5>2. a \o b \in Seq(S)
          BY ConcatProperties
        <5> QED BY <5>1, <5>2
      <4>5. m \in In
        <5>1. v[m] \in Seq(S) /\ m \in Nat
          BY <1>1, <4>3, <4>4
        <5> QED BY <5>1
      <4> HIDE DEF In
      <4> QED BY <4>1, <4>5
    <3>2. CASE ~(k + 1 <= N)
      BY <3>2
    <3> QED BY <3>1, <3>2
  <2>8. Nat \subseteq In
    <3> HIDE DEF In
    <3> QED BY <2>6, <2>7, NatSetInduction
  <2>9. \A k \in 0..N : v[k] \in Seq(S)
    BY <1>1, <2>8
  <2>10. v \in [0..N -> Seq(S)]
    BY <2>9 DEF v
  <2>11. IsJoin(v, S, seqs)
    BY <2>3, <2>5, <2>10 DEF IsJoin
  <2> QED BY <2>2, <2>3, <2>11
<1> QED BY <1>3, <1>4

\* The concatenation of a sequence of sequences.
LEMMA FlattenSeqType ==
  ASSUME NEW S, NEW seqs \in Seq(Seq(S))
  PROVE  FlattenSeq(seqs) \in Seq(S)
<1>1. PICK v : IsJoin(v, S, seqs) /\ FlattenSeq(seqs) = v[Len(seqs)]
  BY FlattenSeqJoins
<1>2. Len(seqs) \in 0..Len(seqs)
  BY LenProperties
<1> QED BY <1>1, <1>2 DEF IsJoin

\* The join is the same, however far it goes.
LEMMA JoinsAgree ==
  ASSUME NEW S, NEW seqs \in Seq(Seq(S)), NEW u, NEW v, IsJoin(u, S, seqs),
         v[0] = <<>>, \A k \in 1..Len(seqs) : v[k] = v[k - 1] \o seqs[k]
  PROVE  u[Len(seqs)] = v[Len(seqs)]
<1> DEFINE n == Len(seqs)
           Same == {k \in Nat : k <= n => u[k] = v[k]}
<1>1. Len(seqs) \in Nat
  BY LenProperties
<1>2. 0 \in Same
  BY DEF IsJoin
<1>3. ASSUME NEW k \in Nat, k \in Same PROVE k + 1 \in Same
  <2>1. CASE k + 1 <= n
    <3>1. PICK m \in 1..n : m = k + 1 /\ m - 1 = k /\ m \in 1..Len(seqs)
      BY <1>1, <2>1
    <3>2. u[k] = v[k]
      BY <1>3, <2>1
    <3>3. v[m] = v[m - 1] \o seqs[m]
      BY <3>1
    <3>4. u[m] = u[m - 1] \o seqs[m]
      BY <3>1 DEF IsJoin
    <3>5. u[m] = v[m]
      BY <3>1, <3>2, <3>3, <3>4
    <3>6. m \in Same
      BY <3>5
    <3> HIDE DEF Same
    <3> QED BY <3>1, <3>6
  <2>2. CASE ~(k + 1 <= n)
    BY <2>2
  <2> QED BY <2>1, <2>2
<1>4. n \in Same
  <2> HIDE DEF Same
  <2> QED BY <1>2, <1>3, NatSetInduction, SMTT(30)
<1> QED BY <1>4

\* One part more.
LEMMA FlattenSeqOneMore ==
  ASSUME NEW S, NEW seqs \in Seq(Seq(S)), NEW last \in Seq(S)
  PROVE  FlattenSeq(Append(seqs, last)) = FlattenSeq(seqs) \o last
<1> DEFINE N == Len(seqs)
           more == Append(seqs, last)
<1>1. N \in Nat /\ more \in Seq(Seq(S)) /\ Len(more) = N + 1
      /\ (\A k \in 1..N : more[k] = seqs[k]) /\ more[N + 1] = last
  BY LenProperties, AppendProperties
<1> HIDE DEF N, more
<1>2. PICK u : IsJoin(u, S, seqs) /\ FlattenSeq(seqs) = u[N]
  BY FlattenSeqJoins DEF N
<1>3. PICK v : IsJoin(v, S, more) /\ FlattenSeq(more) = v[N + 1]
  BY <1>1, FlattenSeqJoins
<1>4. v[0] = <<>> /\ \A k \in 1..(N + 1) : v[k] = v[k - 1] \o more[k]
  BY <1>1, <1>3 DEF IsJoin
<1>5. \A k \in 1..N : v[k] = v[k - 1] \o seqs[k]
  <2> SUFFICES ASSUME NEW k \in 1..N PROVE v[k] = v[k - 1] \o seqs[k]
    OBVIOUS
  <2>1. k \in 1..(N + 1) /\ more[k] = seqs[k]
    BY <1>1
  <2>2. v[k] = v[k - 1] \o more[k]
    BY <1>4, <2>1
  <2> QED BY <2>1, <2>2
<1>6. u[N] = v[N]
  <2>1. N <= Len(seqs) /\ Len(seqs) = N
    BY <1>1 DEF N
  <2>2. IsJoin(u, S, seqs) /\ v[0] = <<>>
    BY <1>2, <1>4
  <2>3. \A k \in 1..Len(seqs) : v[k] = v[k - 1] \o seqs[k]
    BY <1>5, <2>1
  <2>4. u[Len(seqs)] = v[Len(seqs)]
    BY <2>2, <2>3, JoinsAgree
  <2> QED BY <2>1, <2>4
<1>7. N + 1 \in 1..(N + 1) /\ (N + 1) - 1 = N
  BY <1>1
<1>8. v[N + 1] = v[N] \o last
  BY <1>1, <1>4, <1>7
<1> QED BY <1>2, <1>3, <1>6, <1>8 DEF more

LEMMA FlattenSeqEmpty == FlattenSeq(<<>>) = <<>>
BY EmptySeq DEF FlattenSeq

LEMMA FlattenSeqOne ==
  ASSUME NEW S, NEW s \in Seq(S)
  PROVE  FlattenSeq(<<s>>) = s
<1>1. PICK none \in Seq(Seq(S)) : none = <<>>
  BY EmptySeq
<1>2. Append(none, s) = <<s>>
  BY <1>1
<1>3. FlattenSeq(Append(none, s)) = FlattenSeq(none) \o s
  BY FlattenSeqOneMore
<1>4. <<>> \o s = s
  BY ConcatEmptySeq
<1> QED BY <1>1, <1>2, <1>3, <1>4, FlattenSeqEmpty

\* Both halves.
LEMMA FlattenSeqBoth ==
  ASSUME NEW S, NEW s \in Seq(Seq(S)), NEW t \in Seq(Seq(S))
  PROVE  FlattenSeq(s \o t) = FlattenSeq(s) \o FlattenSeq(t)
<1> DEFINE N == Len(t)
           P(k) == FlattenSeq(s \o SubSeq(t, 1, k)) = FlattenSeq(s) \o FlattenSeq(SubSeq(t, 1, k))
           In == {k \in Nat : k <= N => P(k)}
<1>1. N \in Nat
  BY LenProperties
<1>2. PICK fs \in Seq(S) : fs = FlattenSeq(s)
  BY FlattenSeqType
<1>7. \A x, y, z \in Seq(S) : (x \o y) \o z = x \o (y \o z)
  BY ConcatAssociative, SMTT(30)
<1>3. 0 \in In
  <2>1. SubSeq(t, 1, 0) = <<>>
    BY SubSeqEmpty
  <2>2. s \o <<>> = s /\ fs \o <<>> = fs
    BY ConcatEmptySeq
  <2> QED BY <1>2, <2>1, <2>2, FlattenSeqEmpty
<1>4. ASSUME NEW k \in Nat, k \in In PROVE k + 1 \in In
  <2>1. CASE k + 1 <= N
    <3>1. PICK m \in 1..N : m = k + 1 /\ m - 1 = k
      BY <1>1, <2>1
    <3>2. PICK a \in Seq(Seq(S)) : a = SubSeq(t, 1, k)
      <4>1. SubSeq(t, 1, k) \in Seq(Seq(S))
        BY <1>1, <2>1, PrefixType
      <4> QED BY <4>1
    <3>3. PICK b \in Seq(S) : b = t[m]
      BY <3>1, ElementOfSeq
    <3>4. SubSeq(t, 1, m) = Append(a, b)
      <4>1. SubSeq(t, 1, k + 1) = Append(SubSeq(t, 1, k), t[k + 1])
        BY <2>1, SubSeqOneMore
      <4> QED BY <3>1, <3>2, <3>3, <4>1
    <3>6. s \o a \in Seq(Seq(S))
      BY ConcatProperties
    <3>5. s \o Append(a, b) = Append(s \o a, b)
      BY ConcatAppend, SMTT(30)
    <3>7. FlattenSeq(Append(s \o a, b)) = FlattenSeq(s \o a) \o b
          /\ FlattenSeq(Append(a, b)) = FlattenSeq(a) \o b
      BY <3>6, FlattenSeqOneMore
    <3>8. FlattenSeq(s \o a) = fs \o FlattenSeq(a)
      BY <1>2, <1>4, <2>1, <3>2
    <3>9. PICK fa \in Seq(S) : fa = FlattenSeq(a)
      BY FlattenSeqType
    <3>10. (fs \o fa) \o b = fs \o (fa \o b)
      BY <1>7
    <3>11. P(m)
      BY <1>2, <3>4, <3>5, <3>7, <3>8, <3>9, <3>10
    <3> HIDE DEF P
    <3> QED BY <3>1, <3>11
  <2>2. CASE ~(k + 1 <= N)
    BY <2>2
  <2> QED BY <2>1, <2>2
<1>5. P(N)
  <2>1. N \in In
    <3> HIDE DEF In
    <3> QED BY <1>1, <1>3, <1>4, NatSetInduction
  <2> HIDE DEF P
  <2> QED BY <1>1, <2>1
<1>6. SubSeq(t, 1, N) = t
  BY SubSeqFull
<1> QED BY <1>5, <1>6

-----------------------------------------------------------------------------
(* Prefixes.                                                               *)

\* A prefix, element by element.
LEMMA PrefixPointwise ==
  ASSUME NEW S, NEW s \in Seq(S), NEW t \in Seq(S)
  PROVE  IsPrefix(s, t) <=> Len(s) <= Len(t) /\ \A i \in 1..Len(s) : s[i] = t[i]
<1>1. Len(s) \in Nat /\ Len(t) \in Nat
  BY LenProperties
<1>2. /\ SubSeq(s, 1, Len(s)) \in Seq(S) /\ Len(SubSeq(s, 1, Len(s))) = Len(s)
      /\ \A i \in 1..Len(s) : SubSeq(s, 1, Len(s))[i] = s[i]
  BY <1>1, ElementOfSeq, SubSeqProperties
<1>3. CASE Len(s) <= Len(t)
  <2>1. /\ SubSeq(t, 1, Len(s)) \in Seq(S) /\ Len(SubSeq(t, 1, Len(s))) = Len(s)
        /\ \A i \in 1..Len(s) : SubSeq(t, 1, Len(s))[i] = t[i]
    BY <1>1, <1>3, ElementOfSeq, SubSeqProperties
  <2>2. ASSUME \A i \in 1..Len(s) : s[i] = t[i]
        PROVE  SubSeq(s, 1, Len(s)) = SubSeq(t, 1, Len(s))
    BY <1>2, <2>1, <2>2, SeqEqual
  <2> QED BY <1>2, <1>3, <2>1, <2>2 DEF IsPrefix
<1> QED BY <1>3 DEF IsPrefix

\* A sequence is its own prefix.
LEMMA PrefixOfItself ==
  ASSUME NEW S, NEW s \in Seq(S)
  PROVE  IsPrefix(s, s)
BY PrefixPointwise, LenProperties

\* A sequence as long as its prefix is its prefix.
LEMMA WholePrefix ==
  ASSUME NEW S, NEW s \in Seq(S), NEW t \in Seq(S), IsPrefix(s, t), Len(t) <= Len(s)
  PROVE  s = t
<1>1. Len(s) \in Nat /\ Len(t) \in Nat
  BY LenProperties
<1>2. Len(s) <= Len(t) /\ \A i \in 1..Len(s) : s[i] = t[i]
  BY PrefixPointwise
<1> QED BY <1>1, <1>2, SeqEqual

\* A prefix stays one when the sequence grows.
LEMMA PrefixOfLonger ==
  ASSUME NEW S, NEW s \in Seq(S), NEW t \in Seq(S), NEW u \in Seq(S), IsPrefix(s, t)
  PROVE  IsPrefix(s, t \o u)
<1>1. Len(s) \in Nat /\ Len(t) \in Nat /\ Len(u) \in Nat
  BY LenProperties
<1>2. Len(s) <= Len(t) /\ \A i \in 1..Len(s) : s[i] = t[i]
  BY PrefixPointwise
<1>3. /\ t \o u \in Seq(S) /\ Len(t \o u) = Len(t) + Len(u)
      /\ \A i \in 1..(Len(t) + Len(u)) : i <= Len(t) => (t \o u)[i] = t[i]
  BY ConcatProperties
<1>4. Len(s) <= Len(t \o u) /\ \A i \in 1..Len(s) : s[i] = (t \o u)[i]
  BY <1>1, <1>2, <1>3
<1> QED BY <1>3, <1>4, PrefixPointwise

\* What fits of a write, behind the same bytes, is a prefix of all of it.
LEMMA PrefixOfPart ==
  ASSUME NEW S, NEW s \in Seq(S), NEW u \in Seq(S), NEW n \in 0..Len(u)
  PROVE  /\ s \o SubSeq(u, 1, n) \in Seq(S)
         /\ Len(s \o SubSeq(u, 1, n)) = Len(s) + n
         /\ IsPrefix(s \o SubSeq(u, 1, n), s \o u)
<1> DEFINE part == SubSeq(u, 1, n)
<1>1. Len(s) \in Nat /\ Len(u) \in Nat /\ n \in Nat /\ n <= Len(u)
  BY LenProperties
<1>2. part \in Seq(S) /\ Len(part) = n /\ \A i \in 1..n : part[i] = u[i]
  BY <1>1, ElementOfSeq, SubSeqProperties
<1> HIDE DEF part
<1>3. /\ s \o part \in Seq(S) /\ Len(s \o part) = Len(s) + n
      /\ \A i \in 1..(Len(s) + n) :
            (s \o part)[i] = IF i <= Len(s) THEN s[i] ELSE part[i - Len(s)]
  BY <1>2, ConcatProperties
<1>4. /\ s \o u \in Seq(S) /\ Len(s \o u) = Len(s) + Len(u)
      /\ \A i \in 1..(Len(s) + Len(u)) :
            (s \o u)[i] = IF i <= Len(s) THEN s[i] ELSE u[i - Len(s)]
  BY ConcatProperties
<1>5. \A i \in 1..Len(s \o part) : (s \o part)[i] = (s \o u)[i]
  <2> TAKE i \in 1..Len(s \o part)
  <2>1. i \in 1..(Len(s) + n) /\ i \in 1..(Len(s) + Len(u))
    BY <1>1, <1>3
  <2>2. CASE i <= Len(s)
    BY <1>3, <1>4, <2>1, <2>2
  <2>3. CASE ~(i <= Len(s))
    <3>1. i - Len(s) \in 1..n
      BY <1>1, <2>1, <2>3
    <3> QED BY <1>2, <1>3, <1>4, <2>1, <2>3, <3>1
  <2> QED BY <2>2, <2>3
<1>6. Len(s \o part) <= Len(s \o u)
  BY <1>1, <1>3, <1>4
<1>7. IsPrefix(s \o part, s \o u)
  BY <1>3, <1>4, <1>5, <1>6, PrefixPointwise
<1> QED BY <1>3, <1>7 DEF part

\* What was folded in two parts.
LEMMA FoldedBoth ==
  ASSUME NEW A, NEW S, NEW f, NEW base, NEW s \in Seq(S), NEW t \in Seq(S),
         NEW r, Folded(A, f, base, s, r), NEW q, Folded(A, f, r, t, q),
         NEW x, Folded(A, f, base, s \o t, x)
  PROVE  x = q
<1> DEFINE m == Len(s)
           n == Len(t)
           both == s \o t
<1>1. m \in Nat /\ n \in Nat
  BY LenProperties
<1>2. /\ Len(both) = m + n
      /\ \A k \in 1..(m + n) : both[k] = IF k <= m THEN s[k] ELSE t[k - m]
  BY ConcatProperties
<1> HIDE DEF m, n, both
<1>3. PICK u : IsPath(u, A, f, base, s) /\ r = u[m]
  BY DEF Folded, m
<1>4. PICK v : IsPath(v, A, f, r, t) /\ q = v[n]
  BY DEF Folded, n
<1>5. PICK w : IsPath(w, A, f, base, both) /\ x = w[m + n]
  BY <1>2 DEF Folded, both
<1>6. \A k \in 1..(m + n) : w[k] = f[<<w[k - 1], both[k]>>]
  BY <1>2, <1>5 DEF IsPath
<1> DEFINE Same == {k \in Nat : k <= m => w[k] = u[k]}
           Then == {k \in Nat : k <= n => w[m + k] = v[k]}
<1>7. 0 \in Same
  BY <1>3, <1>5 DEF IsPath
<1>8. ASSUME NEW k \in Nat, k \in Same PROVE k + 1 \in Same
  <2>1. CASE k + 1 <= m
    <3>1. PICK j : j = k + 1 /\ j \in 1..m /\ j \in 1..(m + n) /\ j - 1 = k /\ j <= m
      BY <1>1, <2>1
    <3>2. w[k] = u[k]
      BY <1>1, <1>8, <2>1
    <3>3. u[j] = f[<<u[k], s[j]>>]
      BY <1>3, <3>1 DEF IsPath, m
    <3>4. w[j] = f[<<w[k], s[j]>>]
      BY <1>2, <1>6, <3>1
    <3> QED BY <3>1, <3>2, <3>3, <3>4
  <2> QED BY <2>1
<1>9. w[m] = r
  <2> HIDE DEF Same
  <2>1. m \in Same
    BY <1>1, <1>7, <1>8, NatSetInduction
  <2> QED BY <1>1, <1>3, <2>1 DEF Same
<1>10. 0 \in Then
  BY <1>1, <1>4, <1>9 DEF IsPath
<1>11. ASSUME NEW k \in Nat, k \in Then PROVE k + 1 \in Then
  <2>1. CASE k + 1 <= n
    <3>1. PICK j : j = k + 1 /\ j \in 1..n /\ j - 1 = k
      BY <1>1, <2>1
    <3>2. PICK i \in 1..(m + n) : i = m + j /\ i - 1 = m + k /\ ~(i <= m) /\ i - m = j
      BY <1>1, <3>1
    <3>3. w[m + k] = v[k]
      BY <1>1, <1>11, <2>1
    <3>4. v[j] = f[<<v[k], t[j]>>]
      BY <1>4, <3>1 DEF IsPath, n
    <3>5. w[i] = f[<<w[m + k], t[j]>>]
      BY <1>2, <1>6, <3>2
    <3> QED BY <3>1, <3>2, <3>3, <3>4, <3>5
  <2> QED BY <2>1
<1>12. w[m + n] = q
  <2> HIDE DEF Then
  <2>1. n \in Then
    BY <1>1, <1>10, <1>11, NatSetInduction
  <2> QED BY <1>1, <1>4, <2>1 DEF Then
<1> QED BY <1>5, <1>12

\* What two folds over the same sequence keep.
LEMMA FoldedTogether ==
  ASSUME NEW A, NEW S, NEW f, NEW s \in Seq(S), NEW a0, NEW b0,
         NEW a, Folded(A, f, a0, s, a), NEW b, Folded(A, f, b0, s, b),
         NEW P, <<0, a0, b0>> \in P,
         \A k \in 1..Len(s) : \A x \in A, y \in A :
            <<k - 1, x, y>> \in P => <<k, f[<<x, s[k]>>], f[<<y, s[k]>>]>> \in P
  PROVE  <<Len(s), a, b>> \in P
<1>1. PICK n \in Nat : n = Len(s)
  BY LenProperties
<1>2. PICK u : IsPath(u, A, f, a0, s) /\ a = u[n]
  BY <1>1 DEF Folded
<1>3. PICK v : IsPath(v, A, f, b0, s) /\ b = v[n]
  BY <1>1 DEF Folded
<1> DEFINE In == {k \in Nat : k <= n => <<k, u[k], v[k]>> \in P}
<1>4. 0 \in In
  BY <1>2, <1>3 DEF IsPath
<1>5. ASSUME NEW k \in Nat, k \in In PROVE k + 1 \in In
  <2>1. CASE k + 1 <= n
    <3>1. PICK j \in 1..n : j = k + 1 /\ j - 1 = k /\ k \in 0..n
      BY <1>1, <2>1
    <3>2. u[k] \in A /\ v[k] \in A
      BY <1>1, <1>2, <1>3, <3>1 DEF IsPath
    <3>3. <<k, u[k], v[k]>> \in P
      BY <1>1, <1>5, <2>1
    <3>4. u[j] = f[<<u[k], s[j]>>] /\ v[j] = f[<<v[k], s[j]>>]
      BY <1>1, <1>2, <1>3, <3>1 DEF IsPath
    <3>5. <<j, f[<<u[k], s[j]>>], f[<<v[k], s[j]>>]>> \in P
      BY <1>1, <3>1, <3>2, <3>3
    <3>6. <<j, u[j], v[j]>> \in P
      BY <3>4, <3>5
    <3> QED BY <3>1, <3>6
  <2> QED BY <2>1
<1>6. n \in In
  <2> HIDE DEF In
  <2> QED BY <1>1, <1>4, <1>5, NatSetInduction
<1> QED BY <1>1, <1>2, <1>3, <1>6
=============================================================================
