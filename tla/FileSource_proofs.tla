-------------------------- MODULE FileSource_proofs --------------------------
(***************************************************************************)
(* Proofs about FileSource: what the splitting of a read into texts and    *)
(* entries does, and the safety properties of a log source, for every      *)
(* number of workers, lines and troubles.                                  *)
(***************************************************************************)
EXTENDS FileSource, FiniteSetTheorems, WellFoundedInduction, TLAPS

-----------------------------------------------------------------------------
(* Finite sets of numbers in their order.                                  *)

\* A set of natural numbers that is not empty has a least element (from the
\* order on finite sets: an induction needs no operator as a parameter).
LEMMA LeastNumber ==
    ASSUME NEW T \in SUBSET Nat, T # {}
    PROVE  \E n \in T : \A m \in T : n <= m
<1> DEFINE F == {0 .. n : n \in T}
<1>1. F \subseteq FiniteSubsetsOf(Nat)
  <2>1. \A n \in Nat : IsFiniteSet(0 .. n) /\ 0 .. n \in SUBSET Nat
    BY FS_Interval
  <2> QED
    BY <2>1 DEF FiniteSubsetsOf
<1>2. F # {}
  OBVIOUS
<1>3. \E x \in F : \A y \in F : ~ (<<y, x>> \in StrictSubsetOrdering(Nat))
  BY <1>1, <1>2, FS_StrictSubsetOrderingWellFounded, WFMin
<1>4. PICK n \in T : \A m \in T : <<0 .. m, 0 .. n>> \notin StrictSubsetOrdering(Nat)
  BY <1>3
<1>5. ASSUME NEW m \in T, m < n PROVE FALSE
  <2>1. n \in 0 .. n /\ n \notin 0 .. m
    BY <1>5
  <2>2. 0 .. m \subseteq 0 .. n /\ 0 .. m # 0 .. n
    BY <2>1, <1>5
  <2>3. <<0 .. m, 0 .. n>> \in (SUBSET Nat) \X (SUBSET Nat)
    OBVIOUS
  <2>4. <<0 .. m, 0 .. n>> \in StrictSubsetOrdering(Nat)
    BY <2>2, <2>3 DEF StrictSubsetOrdering
  <2> QED
    BY <2>4, <1>4
<1> QED
  BY <1>5

\* The elements of S, in their order.
Sorted(S, q) ==
    /\ q \in [1 .. Cardinality(S) -> S]
    /\ \A i, j \in DOMAIN q : i < j => q[i] < q[j]

\* A finite set of numbers can be sorted.
LEMMA SortedExists ==
    ASSUME NEW n \in Nat, NEW S \in SUBSET (1 .. n)
    PROVE  \E q : Sorted(S, q)
<1> DEFINE Bad == {k \in Nat : \E R \in SUBSET (1 .. k) : ~ \E q : Sorted(R, q)}
<1>1. SUFFICES ASSUME Bad # {} PROVE FALSE
  OBVIOUS
<1>2. PICK k \in Bad : \A m \in Bad : k <= m
  <2> HIDE DEF Bad
  <2>1. Bad \in SUBSET Nat
    BY DEF Bad
  <2> QED
    BY <1>1, <2>1, LeastNumber
<1>3. PICK R \in SUBSET (1 .. k) : ~ \E q : Sorted(R, q)
  BY <1>2
<1>4. k \in Nat
  BY <1>2
<1>5. CASE k \notin R
  <2>1. k # 0
    <3>1. SUFFICES ASSUME k = 0 PROVE FALSE
      OBVIOUS
    <3>2. R = {}
      BY <3>1
    <3>3. Sorted(R, [i \in 1 .. 0 |-> 0])
      BY <3>2, FS_EmptySet DEF Sorted
    <3> QED
      BY <3>3, <1>3
  <2>2. k - 1 \in Nat /\ R \in SUBSET (1 .. k - 1)
    BY <1>4, <1>5, <2>1
  <2>3. k - 1 \in Bad
    BY <2>2, <1>3
  <2> QED
    BY <2>3, <1>2, <1>4
<1>6. CASE k \in R
  <2> DEFINE R1 == R \ {k}
  <2>1. k - 1 \in Nat /\ R1 \in SUBSET (1 .. k - 1)
    BY <1>4, <1>6
  <2>2. k - 1 \notin Bad
    <3> HIDE DEF Bad
    <3> QED
      BY <1>2, <1>4
  <2>3. PICK p : Sorted(R1, p)
    BY <2>1, <2>2
  <2>4. IsFiniteSet(1 .. k) /\ IsFiniteSet(R)
    BY SMTT(90), <1>4, FS_BoundedSetOfNaturals
  <2>5. Cardinality(R1) = Cardinality(R) - 1 /\ Cardinality(R) \in Nat /\ Cardinality(R1) \in Nat
    <3>1. IsFiniteSet(R1)
      BY <2>4, FS_RemoveElement
    <3> QED
      BY <3>1, <2>4, <1>6, FS_RemoveElement, FS_CardinalityType
  <2> DEFINE c == Cardinality(R)
             q == [i \in 1 .. c |-> IF i = c THEN k ELSE p[i]]
  <2>6. p \in [1 .. c - 1 -> R1] /\ \A i, j \in 1 .. c - 1 : i < j => p[i] < p[j]
    BY <2>3, <2>5 DEF Sorted
  <2>7. \A i \in 1 .. c - 1 : p[i] \in R /\ p[i] < k
    <3> SUFFICES ASSUME NEW i \in 1 .. c - 1
                 PROVE  p[i] \in R /\ p[i] < k
      OBVIOUS
    <3>1. p[i] \in R1 /\ p[i] \in 1 .. k - 1
      BY <2>6, <2>1
    <3> QED
      BY <3>1, <2>1, <1>4
  <2>8. q \in [1 .. c -> R]
    BY <2>5, <2>7, <1>6
  <2>9. \A i, j \in 1 .. c : i < j => q[i] < q[j]
    BY <2>5, <2>6, <2>7
  <2>10. Sorted(R, q)
    BY <2>8, <2>9 DEF Sorted
  <2> QED
    BY <2>10, <1>3
<1> QED
  BY <1>5, <1>6

\* Increasing(S) has the elements of S, all of them, in their order.
LEMMA IncreasingFacts ==
    ASSUME NEW n \in Nat, NEW S \in SUBSET (1 .. n)
    PROVE  /\ Increasing(S) \in Seq(S)
           /\ \A i \in 1 .. Len(Increasing(S)) : Increasing(S)[i] \in S
           /\ \A i, j \in 1 .. Len(Increasing(S)) :
                 i < j => Increasing(S)[i] < Increasing(S)[j]
           /\ \A x \in S : \E i \in 1 .. Len(Increasing(S)) : Increasing(S)[i] = x
<1> DEFINE q == Increasing(S)
           c == Cardinality(S)
<1>1. IsFiniteSet(S) /\ c \in Nat
  <2>1. IsFiniteSet(S)
    BY FS_BoundedSetOfNaturals
  <2> QED
    BY <2>1, FS_CardinalityType
<1>2. q \in [1 .. c -> S] /\ \A i, j \in DOMAIN q : i < j => q[i] < q[j]
  <2>1. \E p \in [1 .. c -> S] : \A i, j \in DOMAIN p : i < j => p[i] < p[j]
    BY SortedExists DEF Sorted
  <2> QED
    BY <2>1 DEF Increasing
<1> HIDE DEF q
<1>3. q \in Seq(S) /\ Len(q) = c /\ DOMAIN q = 1 .. c
  BY <1>1, <1>2
<1>4. q \in Injection(1 .. c, S)
  <2>1. \A i, j \in 1 .. c : i # j => q[i] # q[j]
    <3> SUFFICES ASSUME NEW i \in 1 .. c, NEW j \in 1 .. c, i # j
                 PROVE  q[i] # q[j]
      OBVIOUS
    <3>1. q[i] \in 1 .. n /\ q[j] \in 1 .. n
      BY <1>2
    <3>2. CASE i < j
      BY <3>1, <3>2, <1>2, <1>3
    <3>3. CASE j < i
      BY <3>1, <3>3, <1>2, <1>3
    <3> QED
      BY <3>2, <3>3, <1>1
  <2> QED
    BY <2>1, <1>2 DEF Injection, IsInjective
<1>5. q \in Surjection(1 .. c, S)
  <2>1. IsFiniteSet(1 .. c) /\ Cardinality(1 .. c) = c
    BY <1>1, FS_Interval
  <2> QED
    BY <1>1, <1>4, <2>1, FS_Injection
<1>6. \A x \in S : \E i \in 1 .. c : q[i] = x
  BY <1>5 DEF Surjection
<1> QED
  BY <1>1, <1>2, <1>3, <1>6 DEF q

-----------------------------------------------------------------------------
(* Texts and entries.                                                      *)

\* The lines that end in the parts s.
EndLines(s) == {s[i][1] : i \in {j \in DOMAIN s : s[j][2] = 2}}

\* The lines of the entry e.
EntryLines(e) == {LineOf(e[j]) : j \in DOMAIN e}

\* Ends(s) gives the ends of line of s, all of them, in their order.
LEMMA EndsFacts ==
    ASSUME NEW s \in Seq(Parts)
    PROVE  /\ Ends(s) \in Seq(1 .. Len(s))
           /\ \A k \in 1 .. Len(Ends(s)) : Ends(s)[k] \in 1 .. Len(s) /\ s[Ends(s)[k]][2] = 2
           /\ \A j, k \in 1 .. Len(Ends(s)) : j < k => Ends(s)[j] < Ends(s)[k]
           /\ \A i \in 1 .. Len(s) : s[i][2] = 2 =>
                \E k \in 1 .. Len(Ends(s)) : Ends(s)[k] = i
<1> DEFINE S == {i \in DOMAIN s : s[i][2] = 2}
<1>1. S \in SUBSET (1 .. Len(s)) /\ Len(s) \in Nat
  OBVIOUS
<1>2. Ends(s) = Increasing(S)
  BY DEF Ends
<1>3. \A i \in 1 .. Len(s) : i \in S <=> s[i][2] = 2
  OBVIOUS
<1> HIDE DEF S
<1>4. /\ Ends(s) \in Seq(S)
      /\ \A i \in 1 .. Len(Ends(s)) : Ends(s)[i] \in S
      /\ \A i, j \in 1 .. Len(Ends(s)) : i < j => Ends(s)[i] < Ends(s)[j]
      /\ \A x \in S : \E i \in 1 .. Len(Ends(s)) : Ends(s)[i] = x
  BY ZenonT(90), <1>1, <1>2, IncreasingFacts
<1>5. Ends(s) \in Seq(1 .. Len(s))
  <2> DEFINE e == Ends(s)
  <2>1. e \in Seq(S) /\ \A i \in 1 .. Len(e) : e[i] \in 1 .. Len(s)
    BY <1>1, <1>4
  <2> HIDE DEF e
  <2> QED
    BY <2>1 DEF e
<1> QED
  BY <1>1, <1>3, <1>4, <1>5

\* LastEnd(s) is the last end of line of s, or 0.
LEMMA LastEndFacts ==
    ASSUME NEW s \in Seq(Parts)
    PROVE  /\ LastEnd(s) \in 0 .. Len(s)
           /\ LastEnd(s) # 0 => s[LastEnd(s)][2] = 2
           /\ \A i \in 1 .. Len(s) : s[i][2] = 2 => i <= LastEnd(s)
<1> DEFINE e == Ends(s)
<1>1. /\ e \in Seq(1 .. Len(s))
      /\ \A k \in 1 .. Len(e) : e[k] \in 1 .. Len(s) /\ s[e[k]][2] = 2
      /\ \A j, k \in 1 .. Len(e) : j < k => e[j] < e[k]
      /\ \A i \in 1 .. Len(s) : s[i][2] = 2 => \E k \in 1 .. Len(e) : e[k] = i
  BY EndsFacts
<1>2. LastEnd(s) = IF e = << >> THEN 0 ELSE e[Len(e)]
  BY DEF LastEnd
<1> HIDE DEF e
<1>3. CASE e = << >>
  BY <1>1, <1>2, <1>3
<1>4. CASE e # << >>
  <2>1. Len(e) \in 1 .. Len(e) /\ Len(e) \in Nat
    BY <1>1, <1>4
  <2>2. \A k \in 1 .. Len(e) : e[k] <= e[Len(e)]
    <3> SUFFICES ASSUME NEW k \in 1 .. Len(e)
                 PROVE  e[k] <= e[Len(e)]
      OBVIOUS
    <3>1. CASE k = Len(e)
      BY <3>1, <1>1
    <3>2. CASE k < Len(e)
      <4>1. e[k] < e[Len(e)]
        BY <3>2, <1>1, <2>1
      <4> QED
        BY <4>1, <1>1, <2>1
    <3> QED
      BY <3>1, <3>2, <2>1
  <2> QED
    BY SMTT(90), <1>1, <1>2, <1>4, <2>1, <2>2
<1> QED
  BY <1>3, <1>4

\* Where the text k of s begins.
From(s, k) == IF k = 1 THEN 1 ELSE Ends(s)[k - 1] + 1

\* The texts of s follow each other, and each goes to an end of line.
LEMMA TextsFacts ==
    ASSUME NEW s \in Seq(Parts)
    PROVE  /\ Texts(s) \in Seq(Seq(Parts))
           /\ Len(Texts(s)) = Len(Ends(s))
           /\ \A k \in 1 .. Len(Texts(s)) :
                /\ From(s, k) \in 1 .. Ends(s)[k]
                /\ Len(Texts(s)[k]) = Ends(s)[k] - From(s, k) + 1
                /\ \A m \in 1 .. Len(Texts(s)[k]) : Texts(s)[k][m] = s[From(s, k) + m - 1]
                /\ LineOf(Texts(s)[k]) = s[Ends(s)[k]][1]
<1> DEFINE e == Ends(s)
           t == Texts(s)
<1>1. /\ e \in Seq(1 .. Len(s))
      /\ \A k \in 1 .. Len(e) : e[k] \in 1 .. Len(s) /\ s[e[k]][2] = 2
      /\ \A j, k \in 1 .. Len(e) : j < k => e[j] < e[k]
  BY EndsFacts
<1>2. t = [k \in DOMAIN e |-> SubSeq(s, From(s, k), e[k])]
  BY DEF Texts, From
<1>3. \A k \in 1 .. Len(e) : From(s, k) \in 1 .. e[k]
  <2> SUFFICES ASSUME NEW k \in 1 .. Len(e)
               PROVE  From(s, k) \in 1 .. e[k]
    OBVIOUS
  <2>0. e[k] \in 1 .. Len(s)
    BY <1>1
  <2>1. CASE k = 1
    BY <2>0, <2>1 DEF From
  <2>2. CASE k # 1
    <3>1. k - 1 \in 1 .. Len(e) /\ k - 1 < k
      BY <2>2
    <3>2. e[k - 1] < e[k] /\ e[k - 1] \in 1 .. Len(s)
      BY <3>1, <1>1
    <3> QED
      BY <3>2, <2>0, <2>2 DEF From
  <2> QED
    BY <2>1, <2>2
<1> HIDE DEF e, t
<1>4. DOMAIN e = 1 .. Len(e) /\ Len(e) \in Nat
  BY <1>1
<1>5. \A k \in 1 .. Len(e) : t[k] = SubSeq(s, From(s, k), e[k])
  BY <1>2, <1>4
<1>6. \A k \in 1 .. Len(e) :
         /\ t[k] \in Seq(Parts) /\ Len(t[k]) = e[k] - From(s, k) + 1
         /\ \A m \in 1 .. Len(t[k]) : t[k][m] = s[From(s, k) + m - 1]
  <2> SUFFICES ASSUME NEW k \in 1 .. Len(e)
               PROVE  /\ t[k] \in Seq(Parts) /\ Len(t[k]) = e[k] - From(s, k) + 1
                      /\ \A m \in 1 .. Len(t[k]) : t[k][m] = s[From(s, k) + m - 1]
    OBVIOUS
  <2>1. e[k] \in 1 .. Len(s) /\ From(s, k) \in 1 .. e[k]
    BY <1>1, <1>3
  <2> DEFINE a == From(s, k)
  <2> HIDE DEF a
  <2>2. a \in 1 .. e[k] /\ t[k] = SubSeq(s, a, e[k])
    BY <2>1, <1>5 DEF a
  <2>3. /\ SubSeq(s, a, e[k]) \in Seq(Parts) /\ Len(SubSeq(s, a, e[k])) = e[k] - a + 1
        /\ \A m \in 1 .. e[k] - a + 1 : SubSeq(s, a, e[k])[m] = s[a + m - 1]
    BY <2>1, <2>2
  <2> QED
    BY <2>2, <2>3 DEF a
<1>7. t \in Seq(Seq(Parts)) /\ Len(t) = Len(e)
  <2>1. t = [k \in 1 .. Len(e) |-> SubSeq(s, From(s, k), e[k])]
    BY <1>2, <1>4
  <2>2. \A k \in 1 .. Len(e) : SubSeq(s, From(s, k), e[k]) \in Seq(Parts)
    BY <1>5, <1>6
  <2> QED
    BY <2>1, <2>2, <1>4
<1>8. \A k \in 1 .. Len(e) : LineOf(t[k]) = s[e[k]][1]
  <2> SUFFICES ASSUME NEW k \in 1 .. Len(e)
               PROVE  LineOf(t[k]) = s[e[k]][1]
    OBVIOUS
  <2>0. e[k] \in 1 .. Len(s) /\ From(s, k) \in 1 .. e[k] /\ Len(t[k]) = e[k] - From(s, k) + 1
    BY <1>1, <1>3, <1>6
  <2>1. Len(t[k]) \in 1 .. Len(t[k]) /\ From(s, k) + Len(t[k]) - 1 = e[k]
    BY <2>0
  <2> QED
    BY <2>1, <1>6 DEF LineOf
<1> QED
  BY <1>3, <1>6, <1>7, <1>8 DEF e, t

\* Which text of s is the text m of its entry j.
Place(s, j, m) == Starts(Texts(s))[j] + m - 1

\* The entries of s follow each other, and each text is in one of them.
LEMMA EntriesFacts ==
    ASSUME NEW s \in Seq(Parts)
    PROVE  /\ Entries(s) \in Seq(Entry)
           /\ \A j \in 1 .. Len(Entries(s)) : \A m \in 1 .. Len(Entries(s)[j]) :
                /\ Place(s, j, m) \in 1 .. Len(Texts(s))
                /\ Entries(s)[j][m] = Texts(s)[Place(s, j, m)]
           /\ \A i, j \in 1 .. Len(Entries(s)) :
                \A m \in 1 .. Len(Entries(s)[i]), n \in 1 .. Len(Entries(s)[j]) :
                   i < j => Place(s, i, m) < Place(s, j, n)
           /\ \A k \in 1 .. Len(Texts(s)) :
                \E j \in 1 .. Len(Entries(s)) : \E m \in 1 .. Len(Entries(s)[j]) :
                   Place(s, j, m) = k
<1> DEFINE t    == Texts(s)
           S    == {k \in DOMAIN t : k = 1 \/ ~Continues(t[k])}
           st   == Starts(t)
           q    == Entries(s)
           c    == Len(st)
           To(j) == IF j = Len(st) THEN Len(t) ELSE st[j + 1] - 1
<1>1. t \in Seq(Seq(Parts))
  BY TextsFacts
<1>2. q = [j \in DOMAIN st |-> SubSeq(t, st[j], To(j))]
  BY DEF Entries
<1>3. \A j, m : Place(s, j, m) = st[j] + m - 1
  BY DEF Place
<1> HIDE DEF q
<1>4. st = Increasing(S)
  BY DEF Starts
<1> HIDE DEF t
<1>5. S \in SUBSET (1 .. Len(t)) /\ Len(t) \in Nat
  BY <1>1
<1>6. Len(t) > 0 => 1 \in S
  BY <1>1
<1> HIDE DEF S
<1>7. /\ st \in Seq(S)
      /\ \A i \in 1 .. Len(st) : st[i] \in S
      /\ \A i, j \in 1 .. Len(st) : i < j => st[i] < st[j]
      /\ \A x \in S : \E i \in 1 .. Len(st) : st[i] = x
  BY ZenonT(90), <1>4, <1>5, IncreasingFacts
<1> HIDE DEF st
<1>8. c \in Nat /\ DOMAIN st = 1 .. c /\ \A j \in 1 .. c : st[j] \in 1 .. Len(t)
  <2>1. Len(st) \in Nat /\ DOMAIN st = 1 .. Len(st)
    BY <1>7
  <2> QED
    BY <2>1, <1>5, <1>7
<1>9. \A j \in 1 .. c : To(j) \in st[j] .. Len(t)
  <2> SUFFICES ASSUME NEW j \in 1 .. c
               PROVE  To(j) \in st[j] .. Len(t)
    OBVIOUS
  <2>1. CASE j = c
    BY <2>1, <1>5, <1>8
  <2>2. CASE j # c
    <3>0. j \in Nat /\ j >= 1 /\ j <= c /\ c \in Nat
      BY <1>8
    <3>1. j + 1 \in 1 .. c /\ j < j + 1
      BY <2>2, <3>0
    <3>2. st[j + 1] \in 1 .. Len(t) /\ st[j] \in 1 .. Len(t) /\ st[j] < st[j + 1]
      BY <3>1, <1>7, <1>8
    <3> QED
      BY <3>2, <2>2, <1>5
  <2> QED
    BY <2>1, <2>2
<1>10. \A j \in 1 .. c :
          /\ q[j] \in Entry /\ Len(q[j]) = To(j) - st[j] + 1
          /\ \A m \in 1 .. Len(q[j]) : q[j][m] = t[st[j] + m - 1]
  <2> SUFFICES ASSUME NEW j \in 1 .. c
               PROVE  /\ q[j] \in Entry /\ Len(q[j]) = To(j) - st[j] + 1
                      /\ \A m \in 1 .. Len(q[j]) : q[j][m] = t[st[j] + m - 1]
    BY SMTT(90)
  <2> DEFINE a == st[j]
             b == To(j)
  <2>1. a \in 1 .. Len(t) /\ b \in a .. Len(t) /\ q[j] = SubSeq(t, a, b)
    BY ZenonT(90), <1>2, <1>8, <1>9
  <2> HIDE DEF a, b
  <2>2. /\ SubSeq(t, a, b) \in Seq(Seq(Parts)) /\ Len(SubSeq(t, a, b)) = b - a + 1
        /\ \A m \in 1 .. b - a + 1 : SubSeq(t, a, b)[m] = t[a + m - 1]
    BY SMTT(90), <2>1, <1>1
  <2> QED
    BY <2>1, <2>2 DEF a, b, Entry
<1>11. q \in Seq(Entry) /\ Len(q) = c
  <2>1. \A j \in 1 .. c : SubSeq(t, st[j], To(j)) \in Entry
    BY ZenonT(90), <1>2, <1>8, <1>10
  <2> DEFINE N == Len(st)
  <2>2. N \in Nat /\ q = [j \in 1 .. N |-> SubSeq(t, st[j], To(j))]
    BY <1>2, <1>8
  <2> HIDE DEF To
  <2>3. q \in [1 .. N -> Entry]
    BY ZenonT(90), <2>1, <2>2
  <2> HIDE DEF N
  <2>4. q \in Seq(Entry) /\ Len(q) = N
    BY <2>2, <2>3
  <2> QED
    BY <2>4 DEF N
<1>12. \A j \in 1 .. c : \A m \in 1 .. Len(q[j]) :
          st[j] + m - 1 \in st[j] .. To(j) /\ st[j] + m - 1 \in 1 .. Len(t)
  <2> SUFFICES ASSUME NEW j \in 1 .. c, NEW m \in 1 .. Len(q[j])
               PROVE  st[j] + m - 1 \in st[j] .. To(j) /\ st[j] + m - 1 \in 1 .. Len(t)
    OBVIOUS
  <2> DEFINE b == To(j)
  <2>1. st[j] \in 1 .. Len(t) /\ b \in st[j] .. Len(t) /\ Len(q[j]) = b - st[j] + 1
    BY ZenonT(90), <1>8, <1>9, <1>10
  <2> HIDE DEF b
  <2>2. st[j] + m - 1 \in st[j] .. b /\ st[j] + m - 1 \in 1 .. Len(t)
    BY SMTT(90), <2>1, <1>5
  <2> QED
    BY <2>2 DEF b
<1>13. ASSUME NEW i \in 1 .. c, NEW j \in 1 .. c, i < j,
              NEW m \in 1 .. Len(q[i]), NEW n \in 1 .. Len(q[j])
       PROVE  st[i] + m - 1 < st[j] + n - 1
  <2>0. i \in Nat /\ j \in Nat /\ 1 <= i /\ j <= c /\ c \in Nat
    BY <1>8
  <2>1. i + 1 \in 1 .. c /\ i # c
    BY <1>13, <2>0
  <2>2. To(i) = st[i + 1] - 1
    BY <2>1
  <2>3. st[i + 1] <= st[j]
    <3>1. CASE i + 1 = j
      BY <3>1, <1>8
    <3>2. CASE i + 1 < j
      <4>1. st[i + 1] < st[j]
        BY SMTT(90), <3>2, <2>1, <1>7
      <4>2. st[i + 1] \in 1 .. Len(t) /\ st[j] \in 1 .. Len(t)
        BY <2>1, <1>8
      <4> QED
        BY <4>1, <4>2
    <3> QED
      BY <3>1, <3>2, <1>13, <2>0
  <2>4. st[i] + m - 1 \in st[i] .. To(i) /\ st[j] + n - 1 \in st[j] .. To(j)
    BY <1>12
  <2> DEFINE a == To(i)
             b == To(j)
  <2>5. st[i] \in Nat /\ st[j] \in Nat /\ st[i + 1] \in Nat /\ a = st[i + 1] - 1
    <3>1. st[i] \in 1 .. Len(t) /\ st[j] \in 1 .. Len(t) /\ st[i + 1] \in 1 .. Len(t)
      BY <1>8, <2>1
    <3> QED
      BY SMTT(90), <3>1, <2>2
  <2> DEFINE x == st[i] + m - 1
             y == st[j] + n - 1
  <2>6. x \in st[i] .. a /\ y \in st[j] .. b
    BY <2>4
  <2> HIDE DEF a, b, x, y
  <2>7. x < y
    BY <2>3, <2>5, <2>6
  <2> QED
    BY <2>7 DEF x, y
<1>14. ASSUME NEW k \in 1 .. Len(t)
       PROVE  \E j \in 1 .. c : \E m \in 1 .. Len(q[j]) : st[j] + m - 1 = k
  <2>1. PICK one \in 1 .. c : st[one] = 1
    BY <1>5, <1>6, <1>7
  <2> DEFINE After == {j \in 1 .. c : st[j] > k}
  <2>2. \E j \in 1 .. c : st[j] <= k /\ k <= To(j)
    <3>1. CASE After = {}
      <4>1. c \in 1 .. c /\ st[c] <= k
        BY <3>1, <2>1, <1>8
      <4> QED
        BY <4>1
    <3>2. CASE After # {}
      <4>1. After \in SUBSET Nat
        BY <1>8
      <4>2. PICK j \in After : \A i \in After : j <= i
        <5> HIDE DEF After
        <5> QED
          BY <4>1, <3>2, LeastNumber
      <4>3. j \in 1 .. c /\ st[j] > k
        BY <4>2
      <4>4. one < j
        <5>1. ~ (j < one)
          <6>1. j < one => st[j] < st[one]
            BY <4>3, <1>7
          <6> QED
            BY <6>1, <4>3, <2>1, <1>8
        <5>2. j # one
          BY <4>3, <2>1
        <5> QED
          BY <5>1, <5>2, <4>3, <1>8
      <4>5. j - 1 \in 1 .. c /\ j - 1 # c /\ j - 1 \notin After
        <5>1. j - 1 \in 1 .. c /\ j - 1 # c
          BY <4>3, <4>4, <1>8
        <5>2. j - 1 \in After => j <= j - 1
          BY <4>2
        <5> QED
          BY <5>1, <5>2, <4>3
      <4>6. st[j - 1] <= k
        BY SMTT(90), <4>5, <1>8
      <4>7. To(j - 1) = st[j] - 1
        BY <4>5, <4>3
      <4>8. st[j] \in 1 .. Len(t)
        BY <4>3, <1>8
      <4>9. k <= To(j - 1)
        BY <4>3, <4>7, <4>8
      <4> QED
        BY <4>5, <4>6, <4>9
    <3> QED
      BY <3>1, <3>2
  <2>3. PICK j \in 1 .. c : st[j] <= k /\ k <= To(j)
    BY <2>2
  <2> DEFINE b == To(j)
  <2>4. Len(q[j]) = b - st[j] + 1 /\ st[j] \in 1 .. Len(t) /\ b \in st[j] .. Len(t) /\ k <= b
    BY ZenonT(90), <1>8, <1>9, <1>10, <2>3
  <2> HIDE DEF b
  <2>5. k - st[j] + 1 \in 1 .. Len(q[j]) /\ st[j] + (k - st[j] + 1) - 1 = k
    BY SMTT(90), <2>3, <2>4
  <2> QED
    BY <2>5
<1> HIDE DEF To
<1>15. \A j \in 1 .. Len(q) : \A m \in 1 .. Len(q[j]) :
          Place(s, j, m) \in 1 .. Len(t) /\ q[j][m] = t[Place(s, j, m)]
  <2> SUFFICES ASSUME NEW j \in 1 .. Len(q), NEW m \in 1 .. Len(q[j])
               PROVE  Place(s, j, m) \in 1 .. Len(t) /\ q[j][m] = t[Place(s, j, m)]
    OBVIOUS
  <2>1. j \in 1 .. c
    BY <1>11
  <2> QED
    BY SMTT(90), <2>1, <1>3, <1>10, <1>12
<1>16. \A i, j \in 1 .. Len(q) : \A m \in 1 .. Len(q[i]), n \in 1 .. Len(q[j]) :
          i < j => Place(s, i, m) < Place(s, j, n)
  <2> SUFFICES ASSUME NEW i \in 1 .. Len(q), NEW j \in 1 .. Len(q),
                      NEW m \in 1 .. Len(q[i]), NEW n \in 1 .. Len(q[j]), i < j
               PROVE  Place(s, i, m) < Place(s, j, n)
    OBVIOUS
  <2>1. i \in 1 .. c /\ j \in 1 .. c
    BY <1>11
  <2>2. st[i] + m - 1 < st[j] + n - 1
    BY <2>1, <1>13
  <2> QED
    BY <2>2, <1>3
<1>17. \A k \in 1 .. Len(t) : \E j \in 1 .. Len(q) : \E m \in 1 .. Len(q[j]) : Place(s, j, m) = k
  <2> SUFFICES ASSUME NEW k \in 1 .. Len(t)
               PROVE  \E j \in 1 .. Len(q) : \E m \in 1 .. Len(q[j]) : Place(s, j, m) = k
    OBVIOUS
  <2>1. PICK j \in 1 .. c : \E m \in 1 .. Len(q[j]) : st[j] + m - 1 = k
    BY <1>14
  <2>2. PICK m \in 1 .. Len(q[j]) : st[j] + m - 1 = k
    BY <2>1
  <2>3. j \in 1 .. Len(q)
    BY <1>11
  <2> QED
    BY <2>2, <2>3, <1>3
<1> QED
  BY <1>11, <1>15, <1>16, <1>17 DEF q, t

\* What the texts and the lines of a sequence of entries are.
LEMMA InTexts ==
    ASSUME NEW q \in Seq(Entry)
    PROVE  /\ \A x : x \in TextsOf(q) <=>
                       \E i \in 1 .. Len(q) : \E j \in 1 .. Len(q[i]) : x = q[i][j]
           /\ \A l : l \in LinesOf(q) <=> \E i \in 1 .. Len(q) : l \in EntryLines(q[i])
<1>1. \A i \in 1 .. Len(q) : q[i] \in Entry /\ DOMAIN q[i] = 1 .. Len(q[i])
  BY DEF Entry
<1>2. DOMAIN q = 1 .. Len(q)
  OBVIOUS
<1>3. \A x : x \in TextsOf(q) <=> \E i \in 1 .. Len(q) : \E j \in 1 .. Len(q[i]) : x = q[i][j]
  BY <1>1, <1>2 DEF TextsOf
<1>4. ASSUME NEW l, l \in LinesOf(q)
      PROVE  \E i \in 1 .. Len(q) : l \in EntryLines(q[i])
  <2>1. PICK x \in TextsOf(q) : l = LineOf(x)
    BY <1>4 DEF LinesOf
  <2>2. PICK i \in 1 .. Len(q) : \E j \in 1 .. Len(q[i]) : x = q[i][j]
    BY <2>1, <1>3
  <2>3. PICK j \in 1 .. Len(q[i]) : x = q[i][j]
    BY <2>2
  <2>4. l \in EntryLines(q[i])
    BY <2>1, <2>3, <1>1 DEF EntryLines
  <2> QED
    BY <2>4
<1>5. ASSUME NEW l, NEW i \in 1 .. Len(q), l \in EntryLines(q[i])
      PROVE  l \in LinesOf(q)
  <2>1. PICK j \in 1 .. Len(q[i]) : l = LineOf(q[i][j])
    BY <1>5, <1>1 DEF EntryLines
  <2>2. q[i][j] \in TextsOf(q)
    BY <1>3
  <2> QED
    BY <2>1, <2>2 DEF LinesOf
<1> QED
  BY <1>3, <1>4, <1>5

\* No line is in two entries of q.
Separate(q) ==
    \A i, j \in 1 .. Len(q) : i < j => EntryLines(q[i]) \cap EntryLines(q[j]) = {}

\* A sequence without entries has no lines.
LEMMA NoEntries == TextsOf(<< >>) = {} /\ LinesOf(<< >>) = {} /\ Separate(<< >>)
BY DEF TextsOf, LinesOf, Separate

\* What the first entry of a sequence takes with it.
LEMMA HeadFacts ==
    ASSUME NEW q \in Seq(Entry), q # << >>
    PROVE  /\ Head(q) \in Entry /\ Tail(q) \in Seq(Entry)
           /\ LinesOf(q) = EntryLines(Head(q)) \cup LinesOf(Tail(q))
           /\ TextsOf(Tail(q)) \subseteq TextsOf(q)
           /\ \A j \in 1 .. Len(Head(q)) : Head(q)[j] \in TextsOf(q)
           /\ Separate(q) => /\ Separate(Tail(q))
                             /\ EntryLines(Head(q)) \cap LinesOf(Tail(q)) = {}
<1> DEFINE h == Head(q)
           r == Tail(q)
<1>1. /\ h = q[1] /\ h \in Entry /\ r \in Seq(Entry) /\ Len(q) \in Nat /\ Len(q) >= 1
      /\ Len(r) = Len(q) - 1 /\ \A i \in 1 .. Len(r) : r[i] = q[i + 1]
  OBVIOUS
<1> HIDE DEF h, r
<1>2. \A i \in 1 .. Len(r) : i + 1 \in 1 .. Len(q)
  BY <1>1
<1>3. \A i \in 1 .. Len(q) : i # 1 => i - 1 \in 1 .. Len(r) /\ q[i] = r[i - 1]
  <2> SUFFICES ASSUME NEW i \in 1 .. Len(q), i # 1
               PROVE  i - 1 \in 1 .. Len(r) /\ q[i] = r[i - 1]
    OBVIOUS
  <2>1. i - 1 \in 1 .. Len(r) /\ (i - 1) + 1 = i
    BY <1>1
  <2> QED
    BY <2>1, <1>1
<1>4. ASSUME NEW l PROVE l \in LinesOf(q) <=> l \in EntryLines(h) \/ l \in LinesOf(r)
  <2>1. l \in LinesOf(q) <=> \E i \in 1 .. Len(q) : l \in EntryLines(q[i])
    BY InTexts
  <2>2. l \in LinesOf(r) <=> \E i \in 1 .. Len(r) : l \in EntryLines(r[i])
    BY <1>1, InTexts
  <2> QED
    BY <2>1, <2>2, <1>1, <1>2, <1>3
<1>5. TextsOf(r) \subseteq TextsOf(q)
  <2> SUFFICES ASSUME NEW x \in TextsOf(r) PROVE x \in TextsOf(q)
    OBVIOUS
  <2>1. PICK i \in 1 .. Len(r) : \E j \in 1 .. Len(r[i]) : x = r[i][j]
    BY <1>1, InTexts
  <2>2. i + 1 \in 1 .. Len(q) /\ q[i + 1] = r[i]
    BY <1>1, <1>2
  <2> QED
    BY <2>1, <2>2, InTexts
<1>6. \A j \in 1 .. Len(h) : h[j] \in TextsOf(q)
  <2>1. 1 \in 1 .. Len(q)
    BY <1>1
  <2> QED
    BY <2>1, <1>1, InTexts
<1>7. ASSUME Separate(q)
      PROVE  Separate(r) /\ EntryLines(h) \cap LinesOf(r) = {}
  <2>1. Separate(r)
    <3> SUFFICES ASSUME NEW i \in 1 .. Len(r), NEW j \in 1 .. Len(r), i < j
                 PROVE  EntryLines(r[i]) \cap EntryLines(r[j]) = {}
      BY DEF Separate
    <3>1. i + 1 \in 1 .. Len(q) /\ j + 1 \in 1 .. Len(q) /\ i + 1 < j + 1
      BY <1>2
    <3>2. EntryLines(q[i + 1]) \cap EntryLines(q[j + 1]) = {}
      BY <3>1, <1>7 DEF Separate
    <3> QED
      BY <3>2, <1>1
  <2>2. ASSUME NEW l, l \in EntryLines(h), l \in LinesOf(r) PROVE FALSE
    <3>1. PICK i \in 1 .. Len(r) : l \in EntryLines(r[i])
      BY <2>2, <1>1, InTexts
    <3>2. 1 \in 1 .. Len(q) /\ i + 1 \in 1 .. Len(q) /\ 1 < i + 1 /\ q[i + 1] = r[i]
      BY <1>1, <1>2
    <3>3. EntryLines(q[1]) \cap EntryLines(q[i + 1]) = {}
      BY <3>2, <1>7 DEF Separate
    <3> QED
      BY <3>1, <3>2, <3>3, <2>2, <1>1
  <2> QED
    BY <2>1, <2>2
<1> QED
  BY <1>1, <1>4, <1>5, <1>6, <1>7 DEF h, r

\* What an entry that comes last adds.
LEMMA AppendFacts ==
    ASSUME NEW q \in Seq(Entry), NEW e \in Entry
    PROVE  /\ Append(q, e) \in Seq(Entry)
           /\ LinesOf(Append(q, e)) = LinesOf(q) \cup EntryLines(e)
           /\ \A x \in TextsOf(Append(q, e)) :
                x \in TextsOf(q) \/ \E j \in 1 .. Len(e) : x = e[j]
           /\ Separate(q) /\ EntryLines(e) \cap LinesOf(q) = {} => Separate(Append(q, e))
<1> DEFINE r == Append(q, e)
<1>1. /\ r \in Seq(Entry) /\ Len(q) \in Nat /\ Len(r) = Len(q) + 1
      /\ \A i \in 1 .. Len(q) : r[i] = q[i] /\ r[Len(q) + 1] = e
  OBVIOUS
<1>2. r[Len(r)] = e
  BY <1>1
<1> HIDE DEF r
<1>3. \A i \in 1 .. Len(r) : i \in 1 .. Len(q) \/ i = Len(r)
  BY <1>1
<1>4. Len(r) \in 1 .. Len(r) /\ \A i \in 1 .. Len(q) : i \in 1 .. Len(r)
  BY <1>1
<1>5. ASSUME NEW l PROVE l \in LinesOf(r) <=> l \in LinesOf(q) \/ l \in EntryLines(e)
  <2>1. l \in LinesOf(q) <=> \E i \in 1 .. Len(q) : l \in EntryLines(q[i])
    BY InTexts
  <2>2. l \in LinesOf(r) <=> \E i \in 1 .. Len(r) : l \in EntryLines(r[i])
    BY <1>1, InTexts
  <2> QED
    BY <2>1, <2>2, <1>1, <1>2, <1>3, <1>4
<1>6. ASSUME NEW x \in TextsOf(r)
      PROVE  x \in TextsOf(q) \/ \E j \in 1 .. Len(e) : x = e[j]
  <2>1. PICK i \in 1 .. Len(r) : \E j \in 1 .. Len(r[i]) : x = r[i][j]
    BY <1>1, InTexts
  <2>2. CASE i \in 1 .. Len(q)
    BY <2>1, <2>2, <1>1, InTexts
  <2>3. CASE i = Len(r)
    BY <2>1, <2>3, <1>2
  <2> QED
    BY <2>2, <2>3, <1>3
<1>7. ASSUME Separate(q), EntryLines(e) \cap LinesOf(q) = {}
      PROVE  Separate(r)
  <2> SUFFICES ASSUME NEW i \in 1 .. Len(r), NEW j \in 1 .. Len(r), i < j
               PROVE  EntryLines(r[i]) \cap EntryLines(r[j]) = {}
    BY DEF Separate
  <2>1. i \in 1 .. Len(q)
    BY <1>1
  <2>2. CASE j \in 1 .. Len(q)
    <3>1. EntryLines(q[i]) \cap EntryLines(q[j]) = {}
      BY <2>1, <2>2, <1>7 DEF Separate
    <3> QED
      BY <3>1, <2>1, <2>2, <1>1
  <2>3. CASE j = Len(r)
    <3>1. EntryLines(q[i]) \subseteq LinesOf(q)
      BY <2>1, InTexts
    <3> QED
      BY <3>1, <2>1, <2>3, <1>1, <1>2, <1>7
  <2> QED
    BY <2>2, <2>3, <1>3
<1> QED
  BY <1>1, <1>5, <1>6, <1>7 DEF r

\* What the lines of an entry are.
LEMMA InEntry ==
    ASSUME NEW e \in Entry, NEW l
    PROVE  l \in EntryLines(e) <=> \E j \in 1 .. Len(e) : l = LineOf(e[j])
<1>1. DOMAIN e = 1 .. Len(e)
  BY DEF Entry
<1> QED
  BY <1>1 DEF EntryLines

\* The text m of the entry j of s is that of one end of line of s.
LEMMA EntryText ==
    ASSUME NEW s \in Seq(Parts),
           NEW j \in 1 .. Len(Entries(s)), NEW m \in 1 .. Len(Entries(s)[j])
    PROVE  LET k == Place(s, j, m)
           IN  /\ k \in 1 .. Len(Ends(s)) /\ k \in 1 .. Len(Texts(s))
               /\ Entries(s)[j][m] = Texts(s)[k]
               /\ Ends(s)[k] \in 1 .. Len(s) /\ s[Ends(s)[k]][2] = 2
               /\ LineOf(Entries(s)[j][m]) = s[Ends(s)[k]][1]
<1> DEFINE k == Place(s, j, m)
<1>1. k \in 1 .. Len(Texts(s)) /\ Entries(s)[j][m] = Texts(s)[k]
  BY EntriesFacts
<1> HIDE DEF k
<1>2. k \in 1 .. Len(Ends(s)) /\ LineOf(Texts(s)[k]) = s[Ends(s)[k]][1]
  BY <1>1, TextsFacts
<1>3. Ends(s)[k] \in 1 .. Len(s) /\ s[Ends(s)[k]][2] = 2
  BY <1>2, EndsFacts
<1> QED
  BY <1>1, <1>2, <1>3 DEF k

\* The entries of s hold the lines that end in s, no more and no fewer.
LEMMA EntriesLines ==
    ASSUME NEW s \in Seq(Parts)
    PROVE  LinesOf(Entries(s)) = EndLines(s)
<1> DEFINE q == Entries(s)
<1>0. q \in Seq(Entry) /\ DOMAIN s = 1 .. Len(s)
  BY EntriesFacts
<1>1. ASSUME NEW l, l \in LinesOf(q) PROVE l \in EndLines(s)
  <2>1. PICK i \in 1 .. Len(q) : l \in EntryLines(q[i])
    BY <1>0, <1>1, InTexts
  <2>2. q[i] \in Entry
    BY <1>0
  <2>3. PICK m \in 1 .. Len(q[i]) : l = LineOf(q[i][m])
    BY <2>1, <2>2, InEntry
  <2>4. PICK e \in 1 .. Len(s) : s[e][2] = 2 /\ l = s[e][1]
    BY <2>3, EntryText
  <2> QED
    BY <2>4, <1>0 DEF EndLines
<1>2. ASSUME NEW l, l \in EndLines(s) PROVE l \in LinesOf(q)
  <2>1. PICK e \in 1 .. Len(s) : s[e][2] = 2 /\ l = s[e][1]
    BY <1>2, <1>0 DEF EndLines
  <2>2. PICK k \in 1 .. Len(Ends(s)) : Ends(s)[k] = e
    BY <2>1, EndsFacts
  <2>3. k \in 1 .. Len(Texts(s))
    BY TextsFacts
  <2>4. PICK i \in 1 .. Len(q) : \E n \in 1 .. Len(q[i]) : Place(s, i, n) = k
    BY <2>3, EntriesFacts
  <2>5. PICK n \in 1 .. Len(q[i]) : Place(s, i, n) = k
    BY <2>4
  <2>6. LineOf(q[i][n]) = l
    BY <2>1, <2>2, <2>5, EntryText
  <2>7. q[i] \in Entry
    BY <1>0
  <2>8. l \in EntryLines(q[i])
    BY <2>6, <2>7, InEntry
  <2> QED
    BY <2>8, <1>0, InTexts
<1> QED
  BY <1>1, <1>2

\* The ends of line of s are of different lines.
Distinct(s) ==
    \A i, j \in 1 .. Len(s) : i < j /\ s[i][2] = 2 /\ s[j][2] = 2 => s[i][1] # s[j][1]

\* No line is then in two entries of s.
LEMMA EntriesApart ==
    ASSUME NEW s \in Seq(Parts), Distinct(s)
    PROVE  Separate(Entries(s))
<1> DEFINE q == Entries(s)
<1>0. q \in Seq(Entry)
  BY EntriesFacts
<1> SUFFICES ASSUME NEW i \in 1 .. Len(q), NEW j \in 1 .. Len(q), i < j, NEW l,
                    l \in EntryLines(q[i]), l \in EntryLines(q[j])
             PROVE  FALSE
  BY DEF Separate
<1>1. q[i] \in Entry /\ q[j] \in Entry
  BY <1>0
<1>2. PICK m \in 1 .. Len(q[i]) : l = LineOf(q[i][m])
  BY <1>1, InEntry
<1>3. PICK n \in 1 .. Len(q[j]) : l = LineOf(q[j][n])
  BY <1>1, InEntry
<1> DEFINE a == Place(s, i, m)
           b == Place(s, j, n)
<1>4. a < b
  BY EntriesFacts
<1>5. /\ a \in 1 .. Len(Ends(s)) /\ Ends(s)[a] \in 1 .. Len(s)
      /\ s[Ends(s)[a]][2] = 2 /\ l = s[Ends(s)[a]][1]
  BY <1>2, EntryText
<1>6. /\ b \in 1 .. Len(Ends(s)) /\ Ends(s)[b] \in 1 .. Len(s)
      /\ s[Ends(s)[b]][2] = 2 /\ l = s[Ends(s)[b]][1]
  BY <1>3, EntryText
<1> HIDE DEF a, b
<1>7. Ends(s)[a] < Ends(s)[b]
  BY <1>4, <1>5, <1>6, EndsFacts
<1> QED
  BY <1>5, <1>6, <1>7 DEF Distinct

\* The number of a part among those that the application writes.
Number(p) == 2 * p[1] + p[2] - 2

\* What a part is, and what follows it.
LEMMA NextPart ==
    ASSUME NEW p \in Parts
    PROVE  /\ p[1] \in Nat /\ p[1] >= 1 /\ p[1] <= MaxLines /\ p[2] \in {1, 2} /\ p = <<p[1], p[2]>>
           /\ \A q \in Parts : Number(q) = Number(p) + 1 =>
                IF p[2] = 1 THEN q[2] = 2 /\ q[1] = p[1] ELSE q[2] = 1 /\ q[1] = p[1] + 1
<1>1. \A q \in Parts : /\ q[1] \in Nat /\ q[1] >= 1 /\ q[1] <= MaxLines
                        /\ q[2] \in {1, 2} /\ q = <<q[1], q[2]>>
  BY ConstantsAssumption DEF Parts, Lines
<1>2. \A u, v \in Nat, c, d \in {1, 2} :
         2 * v + d - 2 = (2 * u + c - 2) + 1 =>
           IF c = 1 THEN d = 2 /\ v = u ELSE d = 1 /\ v = u + 1
  OBVIOUS
<1> QED
  BY <1>1, <1>2 DEF Number

\* The parts s follow each other in what the application writes.
InARow(s) == \A i \in 1 .. Len(s) : i # 1 => Number(s[i]) = Number(s[i - 1]) + 1

\* The texts of such parts are whole lines, the first one excepted when s begins in
\* the middle of its line.
LEMMA EntriesWhole ==
    ASSUME NEW s \in Seq(Parts), InARow(s), NEW x \in TextsOf(Entries(s))
    PROVE  Whole(x) \/ (s # << >> /\ s[1][2] = 2 /\ LineOf(x) = s[1][1])
<1> DEFINE q == Entries(s)
<1>0. q \in Seq(Entry)
  BY EntriesFacts
<1>1. PICK j \in 1 .. Len(q) : \E m \in 1 .. Len(q[j]) : x = q[j][m]
  BY <1>0, InTexts
<1>2. PICK m \in 1 .. Len(q[j]) : x = q[j][m]
  BY <1>1
<1> DEFINE k == Place(s, j, m)
           e == Ends(s)[k]
           a == From(s, k)
<1>3. /\ k \in 1 .. Len(Ends(s)) /\ k \in 1 .. Len(Texts(s)) /\ x = Texts(s)[k]
      /\ e \in 1 .. Len(s) /\ s[e][2] = 2 /\ LineOf(x) = s[e][1]
  BY <1>2, EntryText
<1> HIDE DEF k
<1>4. /\ a \in 1 .. e /\ Len(x) = e - a + 1
      /\ \A n \in 1 .. Len(x) : x[n] = s[a + n - 1]
      /\ x \in Seq(Parts)
  <2> DEFINE t == Texts(s)
  <2>1. t \in Seq(Seq(Parts)) /\ k \in 1 .. Len(t) /\ x = t[k]
    BY <1>3, TextsFacts
  <2>2. /\ a \in 1 .. e /\ Len(t[k]) = e - a + 1
        /\ \A n \in 1 .. Len(t[k]) : t[k][n] = s[a + n - 1]
    BY <1>3, TextsFacts
  <2> HIDE DEF t, a, e
  <2> QED
    BY SMTT(90), <2>1, <2>2
\* Between two ends of line there is none.
<1>5. \A i \in a .. e : s[i][2] = 2 => i = e
  <2> SUFFICES ASSUME NEW i \in a .. e, s[i][2] = 2, i # e PROVE FALSE
    OBVIOUS
  <2>1. i \in 1 .. Len(s) /\ i < e
    <3>1. a \in 1 .. e /\ e \in 1 .. Len(s) /\ Len(s) \in Nat
      BY <1>3, <1>4
    <3>2. i \in a .. e /\ i # e
      OBVIOUS
    <3> HIDE DEF a, e
    <3> QED
      BY <3>1, <3>2
  <2>2. PICK n \in 1 .. Len(Ends(s)) : Ends(s)[n] = i
    BY <2>1, EndsFacts
  <2>3. n < k
    <3>1. k < n => e < i
      BY <2>2, <1>3, EndsFacts
    <3>2. k # n
      BY <2>1, <2>2
    <3> QED
      BY <3>1, <3>2, <2>1, <1>3
  <2>4. k # 1 /\ k - 1 \in 1 .. Len(Ends(s)) /\ n <= k - 1
    BY SMTT(90), <2>3, <1>3
  <2>5. a = Ends(s)[k - 1] + 1
    BY <2>4 DEF From
  <2>6. Ends(s)[k - 1] \in 1 .. Len(s)
    BY <2>4, EndsFacts
  <2>7. i <= Ends(s)[k - 1]
    <3>1. CASE n = k - 1
      BY <3>1, <2>2, <2>6
    <3>2. CASE n < k - 1
      <4>1. Ends(s)[n] < Ends(s)[k - 1]
        BY <3>2, <2>4, EndsFacts
      <4> QED
        BY <4>1, <2>1, <2>2, <2>6
    <3> QED
      BY <3>1, <3>2, <2>4
  <2> QED
    BY <2>1, <2>5, <2>6, <2>7
\* What comes after an end of line is the beginning of a line.
<1>6. a # 1 => s[a - 1][2] = 2 /\ a - 1 \in 1 .. Len(s)
  <2> SUFFICES ASSUME a # 1 PROVE s[a - 1][2] = 2 /\ a - 1 \in 1 .. Len(s)
    OBVIOUS
  <2>1. k # 1 /\ a = Ends(s)[k - 1] + 1
    BY DEF From
  <2>2. k - 1 \in 1 .. Len(Ends(s))
    BY <2>1, <1>3
  <2>3. Ends(s)[k - 1] \in 1 .. Len(s) /\ s[Ends(s)[k - 1]][2] = 2
    BY <2>2, EndsFacts
  <2> QED
    BY <2>1, <2>3
<1> HIDE DEF a, e
<1>7. \A i \in 1 .. Len(s) :
         s[i][1] \in Nat /\ s[i][2] \in {1, 2} /\ s[i] = <<s[i][1], s[i][2]>>
  <2> SUFFICES ASSUME NEW i \in 1 .. Len(s)
               PROVE  s[i][1] \in Nat /\ s[i][2] \in {1, 2} /\ s[i] = <<s[i][1], s[i][2]>>
    OBVIOUS
  <2>1. s[i] \in Parts
    OBVIOUS
  <2> QED
    BY SMTT(90), <2>1, ConstantsAssumption DEF Parts, Lines
<1>8. CASE a = e
  <2>1. a = 1
    <3> SUFFICES ASSUME a # 1 PROVE FALSE
      OBVIOUS
    <3>1. /\ s[e - 1][2] = 2 /\ e - 1 \in 1 .. Len(s) /\ s[e][2] = 2
          /\ Number(s[e]) = Number(s[e - 1]) + 1
      <4>1. s[e - 1][2] = 2 /\ e - 1 \in 1 .. Len(s) /\ s[e][2] = 2 /\ e # 1
        BY <1>3, <1>6, <1>8
      <4> QED
        BY <4>1, <1>3 DEF InARow
    <3>2. s[e][1] \in Nat /\ s[e - 1][1] \in Nat
      BY <3>1, <1>3, <1>7
    <3> QED
      BY SMTT(90), <3>1, <3>2 DEF Number
  <2> QED
    BY <2>1, <1>3, <1>8
<1>9. CASE a # e
  <2>1. a \in 1 .. Len(s) /\ a + 1 \in 1 .. Len(s) /\ a \in a .. e /\ a + 1 \in a .. e
    BY SMTT(90), <1>3, <1>4, <1>9
  <2>2. s[a][2] = 1
    BY <2>1, <1>5, <1>7, <1>9
  <2>3. Number(s[a + 1]) = Number(s[a]) + 1
    <3>1. a + 1 # 1 /\ (a + 1) - 1 = a
      BY <2>1
    <3> QED
      BY <3>1, <2>1 DEF InARow
  <2>4. s[a + 1][2] = 2 /\ s[a + 1][1] = s[a][1]
    <3>1. s[a] \in Parts /\ s[a + 1] \in Parts
      BY <2>1
    <3> QED
      BY <3>1, <2>2, <2>3, NextPart
  <2>5. a + 1 = e
    BY <2>1, <2>4, <1>5
  <2>6. Len(x) = 2
    BY <2>5, <1>4, <1>3
  <2>7. x[1] = s[a] /\ x[2] = s[a + 1]
    <3>1. 1 \in 1 .. Len(x) /\ 2 \in 1 .. Len(x)
      BY <2>6
    <3>2. a + 1 - 1 = a /\ a + 2 - 1 = a + 1
      BY <2>1
    <3> QED
      BY <3>1, <3>2, <1>4
  <2>8. s[a] = <<s[e][1], 1>> /\ s[a + 1] = <<s[e][1], 2>>
    BY <2>1, <2>2, <2>4, <2>5, <1>7
  <2>9. x = <<x[1], x[2]>>
    BY <2>6, <1>4
  <2> QED
    BY <2>7, <2>8, <2>9, <1>3 DEF Whole
<1> QED
  BY <1>8, <1>9

-----------------------------------------------------------------------------
(* The inductive invariant.                                                *)

\* The values of the state (TypeOK), with what makes them inductive.
Tails ==
    [at : {"none", "scan", "record", "add", "save"}, cancelled : BOOLEAN, first : BOOLEAN,
     tracked : BOOLEAN, pos : 0 .. 2 * MaxLines, epoch : 0 .. MaxTroubles + 1,
     pending : Seq(Parts), todo : Seq(Entry)]
Sinks ==
    [at : {"none", "idle", "gather", "endless", "dead"}, queue : Seq(Entry), batch : Seq(Entry)]
Places == [pos : 0 .. 2 * MaxLines, epoch : 0 .. MaxTroubles + 1]

SinkOK(k) ==
    /\ Len(k.queue) <= Capacity /\ Len(k.batch) <= BatchLimit
    /\ k.at \in {"idle", "none", "dead"} <=> k.batch = << >>

Typed ==
    /\ file = Absent \/ file \in Seq(Parts)
    /\ epoch \in 1 .. MaxTroubles + 1 /\ written \in 0 .. 2 * MaxLines
    /\ startAtEnd \in BOOLEAN /\ up \in BOOLEAN /\ dirty \in BOOLEAN
    /\ broken \in BOOLEAN /\ missed \in BOOLEAN /\ late \in BOOLEAN
    /\ crashed \in BOOLEAN /\ paused \in BOOLEAN
    /\ recorded \in Places /\ saved \in Places
    /\ tail \in [Slots -> Tails] /\ sink \in [Slots -> Sinks]
    /\ \A s \in Slots : SinkOK(sink[s])
    /\ troubles \in 0 .. MaxTroubles /\ epoch <= troubles + 1
    /\ count \in [Lines -> 0 .. 2] /\ fate \in [Lines -> {"none", "before", "lost"}]

\* Parts written before those of the file.
Base == written - Len(file)

\* Lines that worker s has parsed and not sent.
Held(s) ==
    LinesOf(tail[s].todo) \cup LinesOf(sink[s].queue) \cup LinesOf(sink[s].batch)

\* A worker that is not cancelled.
Live(s) == tail[s].at # "none" /\ Goes(s)

\* A position of this file is not beyond its end, and there is none of no file.
PlaceOK(p) ==
    /\ p.epoch <= epoch
    /\ file = Absent => p.epoch < epoch
    /\ p.epoch = epoch => p.pos <= Len(file)

\* The file holds the last parts written, from the beginning of a line on.
FileShape ==
    /\ file = Absent => written % 2 = 0
    /\ file # Absent =>
         /\ Len(file) <= written /\ Base % 2 = 0
         /\ \A i \in 1 .. Len(file) : Number(file[i]) = Base + i

\* What waits in a tailer.  Only a read adds ends of line, and Record takes them all;
\* they are those of this file where the position says, or of a file that is gone.
PendingOK(t) ==
    /\ Len(t.pending) <= t.pos
    /\ ~t.tracked => t.pending = << >>
    /\ t.at # "record" => \A i \in 1 .. Len(t.pending) : t.pending[i][2] = 1
    /\ t.at = "record" => t.tracked /\ t.epoch >= 1 /\ t.pending # << >>
    /\ \A i \in 1 .. Len(t.pending) : Number(t.pending[i]) <= written
    /\ Distinct(t.pending)
    /\ file # Absent =>
         \A i \in 1 .. Len(t.pending) :
            t.pending[i][2] = 2 =>
               IF t.epoch = epoch
                 THEN Number(t.pending[i]) = Base + t.pos - Len(t.pending) + i
                 ELSE Number(t.pending[i]) <= Base

\* What a tailer knows of the file and of itself.
TailOK(s) ==
    /\ PlaceOK(tail[s]) /\ PendingOK(tail[s])
    /\ tail[s].at = "none" => tail[s] = NoTail
    /\ tail[s].todo # << >> => tail[s].at = "add"

\* A worker that goes on has a sink, and a sink that has ended holds nothing.
SinkKept(s) == sink[s].at = "none" => sink[s] = NoSink /\ ~Live(s)

\* Lines in hand, sent or lost have been written to their end.
HeldOK ==
    /\ \A s \in Slots : \A l \in Held(s) : l \in Lines /\ 2 * l <= written
    /\ \A l \in Lines : count[l] > 0 \/ fate[l] = "lost" => 2 * l <= written

\* The first invariant: what every state satisfies.
BasicInv ==
    /\ Typed /\ FileShape
    /\ PlaceOK(recorded) /\ (recorded.epoch = 0 => recorded = NoPosition)
    /\ PlaceOK(saved) /\ (saved.epoch = 0 => saved = NoPosition)
    /\ ~up => crashed
    /\ \A s \in Slots : TailOK(s) /\ SinkKept(s)
    /\ HeldOK

\* A line that has left the file for a sink.
Taken(l) == count[l] > 0 \/ \E s \in Slots : l \in Held(s)

\* How far the file has been recorded.
Frontier == IF recorded.epoch = epoch THEN recorded.pos ELSE 0

\* What one worker holds is in one place.
InOnePlace(s) ==
    /\ Separate(tail[s].todo) /\ Separate(sink[s].queue)
    /\ LinesOf(tail[s].todo) \cap LinesOf(sink[s].queue) = {}
    /\ LinesOf(tail[s].todo) \cap LinesOf(sink[s].batch) = {}
    /\ LinesOf(sink[s].queue) \cap LinesOf(sink[s].batch) = {}

\* The worker that goes on is beyond the recorded position, and what waits in it is
\* nobody else's.
LiveOK(s) ==
    Live(s) =>
      /\ tail[s].tracked => recorded.epoch <= tail[s].epoch
      /\ tail[s].tracked /\ recorded.epoch = tail[s].epoch =>
           recorded.pos <= tail[s].pos - Len(tail[s].pending)
      /\ \A l \in EndLines(tail[s].pending) : ~Taken(l)

\* What is sent is not held, and was sent once.
CountedOnce ==
    /\ \A l \in Lines : count[l] <= 1
    /\ \A s \in Slots : \A l \in Held(s) : count[l] = 0

\* Two workers hold nothing in common.
Apart   == \A s, r \in Slots : s # r => Held(s) \cap Held(r) = {}
\* One worker at most goes on.
OneLive == \A s, r \in Slots : Live(s) /\ Live(r) => s = r

\* No line beyond the recorded position has left the file.
Behind == file # Absent => \A l \in Lines : Taken(l) => 2 * l <= Base + Frontier

\* What holds of one process that no cancelled worker disturbs.
OnceNow ==
    /\ CountedOnce /\ Apart /\ OneLive /\ Behind
    /\ \A s \in Slots : InOnePlace(s) /\ LiveOK(s)

\* While the process runs and no cancelled worker has recorded, a line is sent once or
\* is in one place, and the recorded position separates these lines from the others.
OnceInv == ~crashed /\ ~late => OnceNow

\* Before the part at position pos of the file, a line begins, or one that was given up
\* because its beginning was not read.
Boundary(pos) == \A l \in Lines : 2 * l = Base + pos + 1 => fate[l] = "before"

\* A whole line, or what StartAtEnd has left of one.
Sound(text) == Whole(text) \/ fate[LineOf(text)] = "before"

\* What waits in the tailer s follows each other, and what it reads next follows that.
SliceOK(t) ==
    /\ InARow(t.pending)
    /\ t.pending # << >> /\ t.pending[1][2] = 2 => fate[t.pending[1][1]] = "before"
    /\ t.epoch = epoch /\ file # Absent =>
         /\ \A i \in 1 .. Len(t.pending) :
              Number(t.pending[i]) = Base + t.pos - Len(t.pending) + i
         /\ t.pending = << >> => Boundary(t.pos)

\* The texts that worker s holds.
HeldTexts(s) ==
    TextsOf(tail[s].todo) \cup TextsOf(sink[s].queue) \cup TextsOf(sink[s].batch)

\* What holds as long as no rotation went unseen.
WholeNow ==
    /\ ~broken
    /\ \A s \in Slots : SliceOK(tail[s]) /\ \A x \in HeldTexts(s) : Sound(x)
    /\ recorded.epoch = epoch => Boundary(recorded.pos)
    /\ saved.epoch = epoch => Boundary(saved.pos)

\* Unless a rotation went unseen, the texts are whole lines, and every position is at
\* the beginning of one.
WholeInv == ~missed => WholeNow

\* A line is sent, given up or in the hand of a worker.
Accounted(l) ==
    count[l] > 0 \/ fate[l] # "none" \/ \E s \in Slots : l \in InHand(s)

\* The lines that end in the file up to pos are.
AccountedTo(pos) ==
    \A l \in Lines : Base < 2 * l /\ 2 * l <= Base + pos => Accounted(l)

\* So do the lines before each position.
AccountNow ==
    /\ recorded.epoch = epoch => AccountedTo(recorded.pos)
    /\ saved.epoch = epoch => AccountedTo(saved.pos)
    /\ \A s \in Slots :
         tail[s].epoch = epoch => AccountedTo(tail[s].pos - Len(tail[s].pending))

\* Unless a rotation went unseen, a line that ends before a position, recorded, saved or
\* reached by a tailer, is accounted for.
AccountInv == ~missed /\ file # Absent => AccountNow

\* The constants of FileSource, one by one.
LEMMA Bounds ==
    /\ MaxLines \in Nat /\ MaxTroubles \in Nat /\ ReadLimit \in Nat /\ ReadLimit >= 1
    /\ Capacity \in Nat /\ BatchLimit \in Nat /\ BatchLimit >= 1
BY ConstantsAssumption

\* The values of the state are those of TypeOK.
LEMMA TypedIsTypeOK == Typed => TypeOK
<1> SUFFICES ASSUME Typed PROVE TypeOK
  OBVIOUS
<1>1. \A s \in Slots :
         /\ tail[s].at \in {"none", "scan", "record", "add", "save"}
         /\ tail[s].pos \in 0 .. 2 * MaxLines /\ tail[s].epoch \in 0 .. MaxTroubles + 1
         /\ tail[s].pending \in Seq(Parts) /\ tail[s].todo \in Seq(Entry)
  BY DEF Typed, Tails
<1>2. \A s \in Slots :
         /\ tail[s].cancelled \in BOOLEAN /\ tail[s].first \in BOOLEAN
         /\ tail[s].tracked \in BOOLEAN
  BY Zenon DEF Typed, Tails
<1>3. \A s \in Slots :
         /\ sink[s].at \in {"none", "idle", "gather", "endless", "dead"}
         /\ sink[s].queue \in Seq(Entry) /\ Len(sink[s].queue) <= Capacity
         /\ sink[s].batch \in Seq(Entry) /\ Len(sink[s].batch) <= BatchLimit
         /\ sink[s].at \in {"idle", "none", "dead"} <=> sink[s].batch = << >>
  BY DEF Typed, Sinks, SinkOK
<1>4. {startAtEnd, up, dirty, broken, missed, late, crashed, paused} \subseteq BOOLEAN
  BY Zenon DEF Typed
<1>5. /\ file = Absent \/ file \in Seq(Parts)
      /\ epoch \in 1 .. MaxTroubles + 1 /\ written \in 0 .. 2 * MaxLines
      /\ {recorded, saved} \subseteq [pos : 0 .. 2 * MaxLines, epoch : 0 .. MaxTroubles + 1]
      /\ troubles \in 0 .. MaxTroubles /\ count \in [Lines -> 0 .. 2]
      /\ fate \in [Lines -> {"none", "before", "lost"}]
  BY DEF Typed, Places
<1> QED
  BY <1>1, <1>2, <1>3, <1>4, <1>5 DEF TypeOK

\* The records of the start.
LEMMA Nothing ==
    /\ NoTail \in Tails /\ NoSink \in Sinks /\ NoPosition \in Places
    /\ [NoTail EXCEPT !.at = "scan"] \in Tails /\ [NoSink EXCEPT !.at = "idle"] \in Sinks
    /\ SinkOK(NoSink) /\ SinkOK([NoSink EXCEPT !.at = "idle"])
<1>1. 0 \in 0 .. 2 * MaxLines /\ 0 \in 0 .. MaxTroubles + 1
  BY Bounds
<1>2. << >> \in Seq(Parts) /\ << >> \in Seq(Entry)
  OBVIOUS
<1>3. NoTail \in Tails
  BY <1>1, <1>2 DEF NoTail, Tails
<1>4. NoSink \in Sinks /\ NoPosition \in Places
  BY <1>1, <1>2 DEF NoSink, Sinks, NoPosition, Places
<1>5. [NoTail EXCEPT !.at = "scan"] \in Tails
  BY <1>3 DEF Tails
<1>6. [NoSink EXCEPT !.at = "idle"] \in Sinks
  BY <1>4 DEF Sinks
<1>7. SinkOK(NoSink) /\ SinkOK([NoSink EXCEPT !.at = "idle"])
  BY Bounds DEF SinkOK, NoSink
<1> QED
  BY <1>3, <1>4, <1>5, <1>6, <1>7

\* What giving up lines does.
LEMMA GivenFacts ==
    ASSUME Typed, NEW L, NEW why \in {"before", "lost"}, GivenUp(L, why)
    PROVE  /\ fate' \in [Lines -> {"none", "before", "lost"}]
           /\ \A l \in Lines : fate[l] # "none" => fate'[l] = fate[l]
           /\ \A l \in Lines : fate'[l] # fate[l] => l \in L /\ count[l] = 0 /\ fate'[l] = why
           /\ \A l \in Lines : l \in L => count[l] > 0 \/ fate'[l] # "none"
           /\ \A l \in Lines : l \in L /\ count[l] = 0 /\ fate[l] = "none" => fate'[l] = why
BY DEF GivenUp, Typed

\* The initial state has the values that it should.
LEMMA TypedInit == Init => Typed
<1> SUFFICES ASSUME Init PROVE Typed
  OBVIOUS
<1>1. /\ file = Absent /\ epoch \in 1 .. MaxTroubles + 1 /\ written \in 0 .. 2 * MaxLines
      /\ troubles \in 0 .. MaxTroubles /\ epoch <= troubles + 1
      /\ count \in [Lines -> 0 .. 2] /\ fate \in [Lines -> {"none", "before", "lost"}]
  BY Bounds DEF Init
<1>2. /\ startAtEnd \in BOOLEAN /\ up \in BOOLEAN /\ dirty \in BOOLEAN
      /\ broken \in BOOLEAN /\ missed \in BOOLEAN /\ late \in BOOLEAN
      /\ crashed \in BOOLEAN /\ paused \in BOOLEAN
  BY Zenon DEF Init
<1>3. recorded \in Places /\ saved \in Places
  BY Nothing DEF Init
<1>4. tail \in [Slots -> Tails] /\ sink \in [Slots -> Sinks] /\ \A s \in Slots : SinkOK(sink[s])
  BY Nothing DEF Init
<1> QED
  BY <1>1, <1>2, <1>3, <1>4 DEF Typed

\* One tailer is replaced, and the others stay.
LEMMA OneTail ==
    ASSUME Typed, NEW s \in Slots, NEW t \in Tails, SetTail(s, t)
    PROVE  /\ tail' \in [Slots -> Tails] /\ tail'[s] = t
           /\ \A r \in Slots : r # s => tail'[r] = tail[r]
BY DEF SetTail, Typed

\* One sink is replaced, and the others stay.
LEMMA OneSink ==
    ASSUME Typed, NEW s \in Slots, NEW k \in Sinks, SetSink(s, k)
    PROVE  /\ sink' \in [Slots -> Sinks] /\ sink'[s] = k
           /\ \A r \in Slots : r # s => sink'[r] = sink[r]
           /\ SinkOK(k) => \A r \in Slots : SinkOK(sink'[r])
BY DEF SetSink, Typed

\* The fields of a tailer.
LEMMA TailFields ==
    ASSUME NEW t \in Tails
    PROVE  /\ t.at \in {"none", "scan", "record", "add", "save"}
           /\ t.pos \in 0 .. 2 * MaxLines /\ t.epoch \in 0 .. MaxTroubles + 1
           /\ t.pos \in Nat /\ t.epoch \in Nat
           /\ t.pending \in Seq(Parts) /\ t.todo \in Seq(Entry)
           /\ Len(t.pending) \in Nat
           /\ \A a \in {"none", "scan", "record", "add", "save"} : [t EXCEPT !.at = a] \in Tails
           /\ \A p \in Seq(Parts) : [t EXCEPT !.pending = p] \in Tails
           /\ \A p \in Seq(Entry) : [t EXCEPT !.todo = p] \in Tails
<1>1. /\ t.at \in {"none", "scan", "record", "add", "save"}
      /\ t.pos \in 0 .. 2 * MaxLines /\ t.epoch \in 0 .. MaxTroubles + 1
      /\ t.pending \in Seq(Parts) /\ t.todo \in Seq(Entry)
  BY DEF Tails
<1>2. t.pos \in Nat /\ t.epoch \in Nat /\ Len(t.pending) \in Nat
  BY <1>1, Bounds
<1>3. \A a \in {"none", "scan", "record", "add", "save"} : [t EXCEPT !.at = a] \in Tails
  BY DEF Tails
<1>4. \A p \in Seq(Parts) : [t EXCEPT !.pending = p] \in Tails
  BY DEF Tails
<1>5. \A p \in Seq(Entry) : [t EXCEPT !.todo = p] \in Tails
  BY DEF Tails
<1> QED
  BY <1>1, <1>2, <1>3, <1>4, <1>5

\* The fields of a sink.
LEMMA SinkFields ==
    ASSUME NEW k \in Sinks
    PROVE  /\ k.at \in {"none", "idle", "gather", "endless", "dead"}
           /\ k.queue \in Seq(Entry) /\ k.batch \in Seq(Entry)
           /\ Len(k.queue) \in Nat /\ Len(k.batch) \in Nat
BY DEF Sinks

\* The values of the state, one by one.
LEMMA Values ==
    ASSUME Typed
    PROVE  /\ epoch \in Nat /\ epoch >= 1 /\ written \in Nat /\ troubles \in Nat
           /\ recorded.pos \in Nat /\ recorded.epoch \in Nat
           /\ saved.pos \in Nat /\ saved.epoch \in Nat
           /\ file # Absent => file \in Seq(Parts) /\ Len(file) \in Nat
           /\ \A s \in Slots :
                /\ tail[s] \in Tails /\ sink[s] \in Sinks
                /\ tail[s].pos \in Nat /\ tail[s].epoch \in Nat
                /\ tail[s].pending \in Seq(Parts) /\ Len(tail[s].pending) \in Nat
                /\ tail[s].todo \in Seq(Entry)
                /\ sink[s].queue \in Seq(Entry) /\ sink[s].batch \in Seq(Entry)
<1>1. epoch \in Nat /\ epoch >= 1 /\ written \in Nat /\ troubles \in Nat
  BY Bounds DEF Typed
<1>2. /\ recorded.pos \in Nat /\ recorded.epoch \in Nat
      /\ saved.pos \in Nat /\ saved.epoch \in Nat
  BY Bounds DEF Typed, Places
<1>3. file # Absent => file \in Seq(Parts) /\ Len(file) \in Nat
  BY DEF Typed
<1>4. \A s \in Slots : tail[s] \in Tails /\ sink[s] \in Sinks
  BY DEF Typed
<1> QED
  BY <1>1, <1>2, <1>3, <1>4, TailFields, SinkFields

\* What the application and the rotation do to the values.
LEMMA TypedWorld ==
    ASSUME Typed, FileShape, Write \/ Rotate
    PROVE  Typed'
<1>1. CASE Write
  <2> DEFINE part == <<(written \div 2) + 1, (written % 2) + 1>>
  <2>1. written \in Nat /\ written < 2 * MaxLines /\ written' = written + 1
    BY <1>1, Bounds DEF Write, Typed
  <2>2. (written \div 2) + 1 \in 1 .. MaxLines /\ (written % 2) + 1 \in {1, 2}
    BY <2>1, Bounds
  <2>3. part \in Parts
    BY <2>2 DEF Parts, Lines
  <2>4. file' = IF file = Absent THEN <<part>> ELSE Append(file, part)
    BY <1>1 DEF Write
  <2> HIDE DEF part
  <2>5. file' \in Seq(Parts)
    BY <2>3, <2>4 DEF Typed
  <2>6. written' \in 0 .. 2 * MaxLines
    BY <2>1, Bounds
  <2>7. UNCHANGED <<epoch, startAtEnd, up, placeVars, tail, sink, sentVars, fate,
                   missed, late, pastVars>>
    BY <1>1 DEF Write
  <2> QED
    BY <2>5, <2>6, <2>7 DEF Typed, placeVars, sentVars, pastVars
<1>2. CASE Rotate
  <2>1. /\ troubles < MaxTroubles /\ troubles' = troubles + 1 /\ epoch' = epoch + 1
        /\ file' \in {<< >>, Absent}
    BY <1>2 DEF Rotate, Trouble
  <2>2. /\ epoch' \in 1 .. MaxTroubles + 1 /\ troubles' \in 0 .. MaxTroubles
        /\ epoch' <= troubles' + 1
    BY <2>1, Bounds DEF Typed
  <2>3. fate' \in [Lines -> {"none", "before", "lost"}]
    BY <1>2, GivenFacts DEF Rotate
  <2>4. file' = Absent \/ file' \in Seq(Parts)
    <3>1. << >> \in Seq(Parts)
      OBVIOUS
    <3> QED
      BY <2>1, <3>1
  <2>5. UNCHANGED <<written, startAtEnd, up, placeVars, tail, sink, sentVars,
                   missed, late, crashed, paused>>
    BY <1>2 DEF Rotate
  <2> QED
    BY <2>2, <2>3, <2>4, <2>5 DEF Typed, placeVars, sentVars
<1> QED
  BY <1>1, <1>2

\* What a scan without a file, a read and a save do to the values.
LEMMA TypedScan ==
    ASSUME Typed, NEW s \in Slots, ScanNothing(s) \/ Save(s)
    PROVE  Typed'
<1>0. tail[s] \in Tails
  BY DEF Typed
<1>1. CASE ScanNothing(s)
  <2> DEFINE t == [tail[s] EXCEPT !.at = "save", !.tracked = FALSE, !.pending = << >>]
  <2>1. t \in Tails
    <3>1. << >> \in Seq(Parts)
      OBVIOUS
    <3> QED
      BY <1>0, <3>1 DEF Tails
  <2>2. SetTail(s, t)
    BY <1>1 DEF ScanNothing
  <2> HIDE DEF t
  <2>3. tail' \in [Slots -> Tails]
    BY <2>1, <2>2, OneTail
  <2> QED
    BY <2>3, <1>1 DEF ScanNothing, Typed, fileVars, placeVars, sentVars, pastVars
<1>2. CASE Save(s)
  <2> DEFINE t == [tail[s] EXCEPT !.at = "scan", !.first = FALSE]
  <2>1. t \in Tails
    BY <1>0 DEF Tails
  <2>2. SetTail(s, t)
    BY <1>2 DEF Save
  <2> HIDE DEF t
  <2>3. tail' \in [Slots -> Tails]
    BY <2>1, <2>2, OneTail
  <2>4. saved' \in Places /\ troubles' \in 0 .. MaxTroubles /\ troubles <= troubles'
    BY <1>2, Bounds DEF Save, Trouble, Typed
  <2>5. dirty' = FALSE /\ UNCHANGED <<fileVars, up, recorded, sink, sentVars, fate, missed,
                                      late, crashed, paused>>
    BY <1>2 DEF Save
  <2>6. epoch' <= troubles' + 1
    <3>1. epoch' = epoch /\ epoch \in Nat /\ troubles \in Nat /\ epoch <= troubles + 1
      BY <2>5, Bounds DEF Typed, fileVars
    <3>2. troubles' = troubles \/ troubles' = troubles + 1
      BY <1>2 DEF Save, Trouble
    <3> QED
      BY <3>1, <3>2
  <2> QED
    BY <2>3, <2>4, <2>5, <2>6 DEF Typed, fileVars, sentVars
<1> QED
  BY <1>1, <1>2

\* The tailer s has read the file from start to end, behind the parts old, and is t: it
\* goes on where it was, or at the recorded position, or begins another file.
ReadsAs(s, start, end, old, t) ==
    /\ start <= end /\ SetTail(s, t)
    /\ t.at = IF end = start THEN "save" ELSE "record"
    /\ t.tracked = TRUE /\ t.pos = end /\ t.epoch = epoch
    /\ t.pending = old \o SubSeq(file, start + 1, end)
    /\ t.cancelled = tail[s].cancelled /\ t.todo = tail[s].todo
    /\ missed' = (missed \/ missed') /\ missed' \in BOOLEAN
    /\ GivenUp(IF FromEnd(s) THEN {file[i][1] : i \in 1 .. start} ELSE {}, "before")
    /\ old = << >> \/ (old = tail[s].pending /\ start = tail[s].pos)
    /\ \/ /\ tail[s].tracked /\ tail[s].epoch = epoch
          /\ start = tail[s].pos /\ old = tail[s].pending
       \/ /\ ~tail[s].tracked /\ recorded.epoch = epoch
          /\ start = recorded.pos /\ old = << >>
       \/ /\ tail[s].tracked /\ tail[s].epoch # epoch
          /\ \/ start = 0 /\ old = << >>
             \/ missed' /\ old = tail[s].pending /\ start = tail[s].pos
       \/ /\ ~tail[s].tracked /\ recorded.epoch # epoch /\ old = << >>
          /\ start = 0 \/ missed' \/ (FromEnd(s) /\ start = Len(file))

\* Every read is one of these.
LEMMA ReadFacts ==
    ASSUME BasicInv, NEW s \in Slots, Read(s)
    PROVE  /\ file # Absent /\ file \in Seq(Parts) /\ tail[s].at = "scan" /\ Goes(s)
           /\ \E start, end \in 0 .. Len(file), old \in Seq(Parts), t \in Tails :
                ReadsAs(s, start, end, old, t)
<1> DEFINE from  == Resumed(s)
           start == IF Rotated(from.pos) THEN 0 ELSE from.pos
           end   == IF Len(file) < start + ReadLimit THEN Len(file) ELSE start + ReadLimit
           old   == IF Rotated(from.pos) THEN << >> ELSE tail[s].pending
           r     == old \o SubSeq(file, start + 1, end)
           a     == IF end = start THEN "save" ELSE "record"
           t     == [tail[s] EXCEPT !.at = a, !.tracked = TRUE, !.pos = end, !.epoch = epoch,
                                    !.pending = r]
<1>1. /\ file # Absent /\ tail[s].at = "scan" /\ Goes(s)
      /\ SetTail(s, [tail[s] EXCEPT
                !.at = IF end = start THEN "save" ELSE "record",
                !.tracked = TRUE, !.pos = end, !.epoch = epoch,
                !.pending = (IF Rotated(from.pos) THEN << >> ELSE @)
                            \o SubSeq(file, start + 1, end)])
      /\ missed' = (missed \/ (start > 0 /\ from.epoch # epoch))
      /\ GivenUp(IF FromEnd(s) THEN {file[i][1] : i \in 1 .. start} ELSE {}, "before")
  BY DEF Read
<1>2. SetTail(s, t)
  BY <1>1
<1>3. file \in Seq(Parts) /\ Len(file) \in Nat /\ Typed /\ tail[s] \in Tails
  BY <1>1 DEF BasicInv, Typed
<1>4. from \in [pos : Nat, epoch : Nat]
  <2>1. /\ tail[s].pos \in Nat /\ tail[s].epoch \in Nat /\ recorded \in Places
        /\ epoch \in Nat /\ 0 \in Nat
    BY <1>3, Values DEF Typed
  <2>2. recorded \in [pos : Nat, epoch : Nat]
    BY <2>1, Bounds DEF Places
  <2> QED
    BY <1>3, <2>1, <2>2 DEF Resumed
<1>5. from.pos \in Nat /\ from.epoch \in Nat
  BY <1>4
<1>6. /\ tail[s].tracked => from.pos = tail[s].pos /\ from.epoch = tail[s].epoch
      /\ ~tail[s].tracked =>
           \/ from = recorded /\ recorded # NoPosition /\ recorded.pos <= Len(file)
           \/ /\ recorded = NoPosition \/ ~ (recorded.pos <= Len(file))
              /\ from.epoch = epoch
              /\ from.pos = 0 \/ (FromEnd(s) /\ from.pos = Len(file))
  <2>1. recorded.pos \in Nat
    BY <1>3, Bounds DEF Typed, Places
  <2> QED
    BY <1>3, <2>1 DEF Resumed, FromEnd
<1> HIDE DEF from
<1>7. /\ start \in Nat /\ start <= Len(file)
      /\ Rotated(from.pos) => start = 0 /\ old = << >> /\ Len(file) < from.pos
      /\ ~Rotated(from.pos) => start = from.pos /\ old = tail[s].pending
  BY <1>3, <1>5 DEF Rotated
<1> HIDE DEF start, old
<1>8. end \in Nat /\ end <= Len(file) /\ start <= end
  BY <1>3, <1>7, Bounds
<1>9. old \in Seq(Parts)
  <2>1. << >> \in Seq(Parts) /\ tail[s].pending \in Seq(Parts)
    BY <1>3, Values
  <2> QED
    BY <1>7, <2>1
<1> HIDE DEF end
<1>10. start \in 0 .. Len(file) /\ end \in 0 .. Len(file)
  BY <1>3, <1>7, <1>8
<1>11. r \in Seq(Parts)
  <2>1. SubSeq(file, start + 1, end) \in Seq(Parts)
    BY <1>3, <1>10
  <2> QED
    BY <1>9, <2>1
<1>12. a \in {"none", "scan", "record", "add", "save"}
  OBVIOUS
<1> HIDE DEF a
<1>13. end \in 0 .. 2 * MaxLines
  <2>1. Len(file) <= 2 * MaxLines
    BY <1>1, <1>3, Bounds DEF BasicInv, FileShape, Typed
  <2> QED
    BY <1>3, <1>10, <2>1, Bounds
<1> HIDE DEF r
<1>14. /\ t \in Tails /\ t.at = a /\ t.tracked = TRUE /\ t.pos = end /\ t.epoch = epoch
       /\ t.pending = r /\ t.cancelled = tail[s].cancelled /\ t.todo = tail[s].todo
  <2>1. epoch \in 0 .. MaxTroubles + 1 /\ TRUE \in BOOLEAN
    BY <1>3, Bounds DEF Typed
  <2> QED
    BY <1>3, <1>11, <1>12, <1>13, <2>1 DEF Tails
<1> HIDE DEF t
<1>15. missed' \in BOOLEAN /\ missed' = (missed \/ missed')
  <2>1. missed \in BOOLEAN
    BY <1>3 DEF Typed
  <2> QED
    BY Zenon, <1>1, <2>1
<1>16. start > 0 /\ from.epoch # epoch => missed'
  BY <1>1
<1>17. PlaceOK(tail[s]) /\ PlaceOK(recorded) /\ (recorded.epoch = 0 => recorded = NoPosition)
       /\ PendingOK(tail[s]) /\ epoch \in Nat /\ epoch >= 1 /\ recorded.epoch \in Nat
       /\ tail[s].epoch \in Nat /\ tail[s].pos \in Nat /\ recorded.pos \in Nat
  <2>1. PlaceOK(tail[s]) /\ PlaceOK(recorded) /\ (recorded.epoch = 0 => recorded = NoPosition)
        /\ PendingOK(tail[s])
    BY DEF BasicInv, TailOK
  <2> QED
    BY <1>3, <2>1, Values
<1>18. \/ /\ tail[s].tracked /\ tail[s].epoch = epoch
          /\ start = tail[s].pos /\ old = tail[s].pending
       \/ /\ ~tail[s].tracked /\ recorded.epoch = epoch
          /\ start = recorded.pos /\ old = << >>
       \/ /\ tail[s].tracked /\ tail[s].epoch # epoch
          /\ \/ start = 0 /\ old = << >>
             \/ missed' /\ old = tail[s].pending /\ start = tail[s].pos
       \/ /\ ~tail[s].tracked /\ recorded.epoch # epoch /\ old = << >>
          /\ start = 0 \/ missed' \/ (FromEnd(s) /\ start = Len(file))
  <2>1. CASE tail[s].tracked /\ tail[s].epoch = epoch
    <3>1. tail[s].pos <= Len(file) /\ from.pos = tail[s].pos
      BY <1>1, <1>6, <1>17, <2>1 DEF PlaceOK
    <3>2. ~Rotated(from.pos)
      BY <3>1, <1>3, <1>17 DEF Rotated
    <3> QED
      BY <3>1, <3>2, <1>7, <2>1
  <2>2. CASE tail[s].tracked /\ tail[s].epoch # epoch
    <3>1. CASE Rotated(from.pos)
      BY <3>1, <1>7, <2>2
    <3>2. CASE ~Rotated(from.pos) /\ start = 0
      <4>1. tail[s].pos = 0
        BY <3>2, <1>6, <1>7, <2>2
      <4>2. Len(tail[s].pending) = 0 /\ tail[s].pending \in Seq(Parts)
        <5>1. Len(tail[s].pending) <= tail[s].pos
          BY <1>17 DEF PendingOK
        <5> QED
          BY <4>1, <5>1, <1>3, Values
      <4>3. tail[s].pending = << >>
        BY <4>2
      <4> QED
        BY <3>2, <4>3, <1>7, <2>2
    <3>3. CASE ~Rotated(from.pos) /\ start # 0
      BY <3>3, <1>6, <1>7, <1>16, <2>2
    <3> QED
      BY <3>1, <3>2, <3>3
  <2>3. CASE ~tail[s].tracked
    <3>1. tail[s].pending = << >>
      BY <2>3, <1>17 DEF PendingOK
    <3>2. old = << >>
      BY <3>1, <1>7
    <3>3. ~Rotated(from.pos)
      BY <1>3, <1>5, <1>6, <1>17, <2>3 DEF Rotated
    <3>4. CASE from = recorded /\ recorded # NoPosition /\ recorded.pos <= Len(file)
      BY <3>2, <3>3, <3>4, <1>7, <1>16, <2>3
    <3>5. CASE /\ recorded = NoPosition \/ ~ (recorded.pos <= Len(file))
               /\ from.epoch = epoch
               /\ from.pos = 0 \/ (FromEnd(s) /\ from.pos = Len(file))
      <4>1. recorded.epoch # epoch
        BY <3>5, <1>17 DEF PlaceOK, NoPosition
      <4> QED
        BY <4>1, <3>2, <3>3, <3>5, <1>7, <2>3
    <3> QED
      BY <3>4, <3>5, <1>6, <2>3
  <2> QED
    BY <2>1, <2>2, <2>3
<1>19. old = << >> \/ (old = tail[s].pending /\ start = tail[s].pos)
  BY <1>18
<1>20. ReadsAs(s, start, end, old, t)
  BY <1>1, <1>2, <1>8, <1>14, <1>15, <1>18, <1>19 DEF a, r, ReadsAs
<1> QED
  BY <1>1, <1>3, <1>9, <1>10, <1>14, <1>20

\* Record leaves what follows the last end of line, parses what is before, and records
\* the position between the two.
LEMMA RecordFacts ==
    ASSUME BasicInv, NEW s \in Slots, Record(s)
    PROVE  LET p == tail[s].pending
               n == LastEnd(p)
           IN  \E t \in Tails :
                 /\ tail[s].at = "record" /\ SetTail(s, t)
                 /\ t.at = "add" /\ t.tracked = tail[s].tracked /\ t.cancelled = tail[s].cancelled
                 /\ t.pos = tail[s].pos /\ t.epoch = tail[s].epoch
                 /\ n \in 0 .. Len(p) /\ Len(t.pending) = Len(p) - n
                 /\ \A i \in 1 .. Len(t.pending) : t.pending[i] = p[n + i] /\ t.pending[i][2] = 1
                 /\ t.todo = Entries(p) /\ LinesOf(t.todo) = EndLines(p)
                 /\ recorded'.pos = tail[s].pos - Len(t.pending) /\ recorded'.epoch = tail[s].epoch
                 /\ recorded' \in Places
                 /\ late' = (late \/ ~Goes(s)) /\ late' \in BOOLEAN
<1> DEFINE p    == tail[s].pending
           n    == LastEnd(p)
           rest == SubSeq(p, n + 1, Len(p))
           t    == [tail[s] EXCEPT !.at = "add", !.pending = rest, !.todo = Entries(p)]
<1>1. /\ tail[s].at = "record" /\ SetTail(s, t)
      /\ recorded' = [pos |-> Position(s, rest), epoch |-> tail[s].epoch]
      /\ late' = (late \/ ~Goes(s))
  BY DEF Record
<1>2. Typed /\ p \in Seq(Parts) /\ Len(p) \in Nat /\ Len(p) <= tail[s].pos
  BY Values DEF BasicInv, TailOK, PendingOK
<1>3. tail[s] \in Tails /\ tail[s].pos \in 0 .. 2 * MaxLines /\ tail[s].epoch \in 0 .. MaxTroubles + 1
  BY <1>2, Values, TailFields
<1> HIDE DEF p
<1>4. /\ n \in 0 .. Len(p)
      /\ \A i \in 1 .. Len(p) : p[i][2] = 2 => i <= n
  BY <1>2, LastEndFacts
<1>5. Entries(p) \in Seq(Entry) /\ LinesOf(Entries(p)) = EndLines(p)
  BY <1>2, EntriesFacts, EntriesLines
<1> HIDE DEF n
<1>6. /\ rest \in Seq(Parts) /\ Len(rest) = Len(p) - n
      /\ \A i \in 1 .. Len(rest) : rest[i] = p[n + i] /\ n + i \in 1 .. Len(p)
  BY <1>2, <1>4
<1> HIDE DEF rest
<1>7. \A i \in 1 .. Len(rest) : rest[i][2] = 1
  <2> SUFFICES ASSUME NEW i \in 1 .. Len(rest)
               PROVE  rest[i][2] = 1
    OBVIOUS
  <2>1. n + i \in 1 .. Len(p) /\ ~ (n + i <= n) /\ rest[i] = p[n + i]
    BY <1>4, <1>6
  <2>2. p[n + i][2] \in {1, 2}
    <3>1. p[n + i] \in Parts
      BY <1>2, <2>1
    <3> QED
      BY <3>1, NextPart
  <2> QED
    BY <2>1, <2>2, <1>4
<1>8. /\ t \in Tails /\ t.at = "add" /\ t.tracked = tail[s].tracked
      /\ t.cancelled = tail[s].cancelled /\ t.pos = tail[s].pos /\ t.epoch = tail[s].epoch
      /\ t.pending = rest /\ t.todo = Entries(p)
  BY <1>3, <1>5, <1>6 DEF Tails
<1>9. Position(s, rest) = tail[s].pos - Len(rest) /\ Position(s, rest) \in 0 .. 2 * MaxLines
  BY <1>2, <1>3, <1>4, <1>6, Bounds DEF Position
<1>10. recorded' \in Places
  BY <1>1, <1>3, <1>9 DEF Places
<1>11. late' \in BOOLEAN
  <2>1. late \in BOOLEAN
    BY <1>2 DEF Typed
  <2> QED
    BY Zenon, <1>1, <2>1
<1> HIDE DEF t
<1> QED
  BY <1>1, <1>4, <1>5, <1>6, <1>7, <1>8, <1>9, <1>10, <1>11 DEF p, n

\* What the other steps of a tailer do to the values.
LEMMA TypedTailer ==
    ASSUME BasicInv, NEW s \in Slots, Read(s) \/ Record(s) \/ Add(s) \/ TailEnds(s) \/ Edit(s)
    PROVE  Typed'
<1>0. Typed /\ tail[s] \in Tails /\ sink[s] \in Sinks /\ tail[s].todo \in Seq(Entry)
      /\ sink[s].queue \in Seq(Entry)
  BY Values DEF BasicInv
<1>1. CASE Read(s)
  <2>1. PICK start \in 0 .. Len(file), end \in 0 .. Len(file), old \in Seq(Parts), t \in Tails :
           ReadsAs(s, start, end, old, t)
    BY <1>1, ReadFacts
  <2>2. tail' \in [Slots -> Tails]
    BY <2>1, <1>0, OneTail DEF ReadsAs
  <2>3. missed' \in BOOLEAN
    BY <2>1 DEF ReadsAs
  <2>4. PICK L : GivenUp(L, "before")
    BY <2>1 DEF ReadsAs
  <2>5. fate' \in [Lines -> {"none", "before", "lost"}]
    BY <2>4, <1>0, GivenFacts
  <2> QED
    BY <2>2, <2>3, <2>5, <1>0, <1>1 DEF Read, Typed, fileVars, placeVars, sentVars, pastVars
<1>2. CASE Record(s)
  <2>1. PICK t \in Tails : SetTail(s, t)
    BY <1>2, RecordFacts
  <2>2. tail' \in [Slots -> Tails]
    BY <2>1, <1>0, OneTail
  <2>3. late' \in BOOLEAN /\ recorded' \in Places
    BY <1>2, RecordFacts
  <2> QED
    BY <2>2, <2>3, <1>0, <1>2 DEF Record, Typed, fileVars, sentVars, pastVars
<1>3. CASE Add(s)
  <2> DEFINE t == [tail[s] EXCEPT !.todo = Tail(@)]
             k == [sink[s] EXCEPT !.queue = Append(@, Head(tail[s].todo))]
  <2>1. tail[s].todo # << >> /\ SetTail(s, t) /\ SetSink(s, k) /\ Len(sink[s].queue) < Capacity
    BY <1>3 DEF Add, SetSink
  <2>2. /\ Tail(tail[s].todo) \in Seq(Entry) /\ Head(tail[s].todo) \in Entry
        /\ Append(sink[s].queue, Head(tail[s].todo)) \in Seq(Entry)
        /\ Len(Append(sink[s].queue, Head(tail[s].todo))) = Len(sink[s].queue) + 1
    BY <1>0, <2>1
  <2>3. t \in Tails
    BY <1>0, <2>2 DEF Tails
  <2>4. k \in Sinks /\ k.queue = Append(sink[s].queue, Head(tail[s].todo))
        /\ k.at = sink[s].at /\ k.batch = sink[s].batch
    BY <1>0, <2>2 DEF Sinks
  <2>5. SinkOK(k)
    <3>1. SinkOK(sink[s]) /\ Len(sink[s].queue) \in Nat
      BY <1>0, SinkFields DEF Typed
    <3> HIDE DEF k
    <3> QED
      BY <3>1, <2>1, <2>2, <2>4, Bounds DEF SinkOK
  <2> HIDE DEF t, k
  <2>6. tail' \in [Slots -> Tails]
    BY <2>1, <2>3, <1>0, OneTail
  <2>7. sink' \in [Slots -> Sinks] /\ \A r \in Slots : SinkOK(sink'[r])
    BY <2>1, <2>4, <2>5, <1>0, OneSink
  <2> QED
    BY <2>6, <2>7, <1>0, <1>3 DEF Add, Typed, fileVars, placeVars, sentVars, pastVars
<1>4. CASE TailEnds(s)
  <2>1. tail' \in [Slots -> Tails]
    BY <1>0, <1>4, Nothing, OneTail DEF TailEnds
  <2>2. fate' \in [Lines -> {"none", "before", "lost"}]
    BY <1>0, <1>4, GivenFacts DEF TailEnds
  <2> QED
    BY <2>1, <2>2, <1>0, <1>4 DEF TailEnds, Typed, fileVars, placeVars, sentVars, pastVars
<1>5. CASE Edit(s)
  <2> DEFINE t == [tail[s] EXCEPT !.cancelled = TRUE]
  <2>1. t \in Tails
    BY <1>0 DEF Tails
  <2>2. SetTail(s, t)
    BY <1>5 DEF Edit
  <2> HIDE DEF t
  <2>3. tail' \in [Slots -> Tails]
    BY <2>1, <2>2, <1>0, OneTail
  <2>4. troubles' = troubles + 1 /\ troubles < MaxTroubles
    BY <1>5 DEF Edit, Trouble
  <2>5. troubles' \in 0 .. MaxTroubles /\ epoch <= troubles' + 1
    <3>1. troubles \in Nat /\ epoch \in Nat /\ epoch <= troubles + 1
      BY <1>0, Values DEF Typed
    <3> QED
      BY <3>1, <2>4, Bounds
  <2> QED
    BY <2>3, <2>5, <1>0, <1>5 DEF Edit, Typed, fileVars, placeVars, sentVars, pastVars
<1> QED
  BY <1>1, <1>2, <1>3, <1>4, <1>5

\* The first entry of the queue goes to the batch.
LEMMA TakeFacts ==
    ASSUME Typed, NEW s \in Slots, Take(s)
    PROVE  \E k \in Sinks :
              /\ SetSink(s, k) /\ SinkOK(k) /\ k.at = "gather"
              /\ sink[s].at # "none" /\ sink[s].queue # << >>
              /\ k.queue = Tail(sink[s].queue)
              /\ k.batch = Append(sink[s].batch, Head(sink[s].queue))
<1> DEFINE k == [at |-> "gather", queue |-> Tail(sink[s].queue),
                 batch |-> Append(sink[s].batch, Head(sink[s].queue))]
<1>1. /\ sink[s].at \in {"idle", "gather", "endless"} /\ sink[s].queue # << >>
      /\ Len(sink[s].batch) < BatchLimit /\ SetSink(s, k)
  BY DEF Take
<1>2. sink[s] \in Sinks /\ SinkOK(sink[s])
  BY DEF Typed
<1>3. sink[s].queue \in Seq(Entry) /\ sink[s].batch \in Seq(Entry) /\ Len(sink[s].queue) <= Capacity
  BY <1>2, SinkFields DEF SinkOK
<1>4. /\ Tail(sink[s].queue) \in Seq(Entry) /\ Head(sink[s].queue) \in Entry
      /\ Len(Tail(sink[s].queue)) <= Capacity
  BY <1>1, <1>3, Bounds
<1>5. /\ Append(sink[s].batch, Head(sink[s].queue)) \in Seq(Entry)
      /\ Len(Append(sink[s].batch, Head(sink[s].queue))) <= BatchLimit
      /\ Append(sink[s].batch, Head(sink[s].queue)) # << >>
  <2> DEFINE b == sink[s].batch
             h == Head(sink[s].queue)
  <2>1. b \in Seq(Entry) /\ h \in Entry /\ Len(b) < BatchLimit
    BY <1>1, <1>3, <1>4
  <2> HIDE DEF b, h
  <2>2. Append(b, h) \in Seq(Entry) /\ Len(Append(b, h)) = Len(b) + 1 /\ Len(b) \in Nat
    BY <2>1
  <2>3. Append(b, h) # << >> /\ Len(Append(b, h)) <= BatchLimit
    BY <2>1, <2>2, Bounds
  <2> QED
    BY <2>2, <2>3 DEF b, h
<1>6. k \in Sinks /\ SinkOK(k)
  BY <1>4, <1>5 DEF Sinks, SinkOK
<1> QED
  BY <1>1, <1>6

\* What the steps of a sink do to the values.
LEMMA TypedSinker ==
    ASSUME Typed, NEW s \in Slots,
           Take(s) \/ Pause(s) \/ Send(s) \/ SendFails(s) \/ SinkEnds(s)
    PROVE  Typed'
<1>0. sink[s] \in Sinks /\ SinkOK(sink[s]) /\ sink[s].queue \in Seq(Entry)
      /\ Len(sink[s].queue) <= Capacity /\ << >> \in Seq(Entry) /\ Len(<< >>) <= BatchLimit
  BY Values, Bounds DEF Typed, SinkOK
<1>1. /\ AfterSend(s) \in Sinks /\ SinkOK(AfterSend(s))
      /\ [sink[s] EXCEPT !.at = "dead", !.batch = << >>] \in Sinks
      /\ SinkOK([sink[s] EXCEPT !.at = "dead", !.batch = << >>])
  BY <1>0 DEF AfterSend, Sinks, SinkOK
<1>2. Trouble => troubles' \in 0 .. MaxTroubles /\ epoch <= troubles' + 1
  <2> SUFFICES ASSUME Trouble PROVE troubles' \in 0 .. MaxTroubles /\ epoch <= troubles' + 1
    OBVIOUS
  <2>1. troubles' = troubles + 1 /\ troubles < MaxTroubles
    BY DEF Trouble
  <2>2. troubles \in Nat /\ epoch \in Nat /\ epoch <= troubles + 1
    BY Values DEF Typed
  <2> QED
    BY <2>1, <2>2, Bounds
<1>3. CASE Take(s)
  <2>1. PICK k \in Sinks : SetSink(s, k) /\ SinkOK(k)
    BY <1>3, TakeFacts
  <2>2. sink' \in [Slots -> Sinks] /\ \A r \in Slots : SinkOK(sink'[r])
    BY <2>1, OneSink
  <2> QED
    BY <2>2, <1>3 DEF Take, Typed, fileVars, placeVars, sentVars, pastVars
<1>4. CASE Pause(s)
  <2>1. /\ troubles' \in 0 .. MaxTroubles /\ epoch <= troubles' + 1 /\ paused' \in BOOLEAN
        /\ UNCHANGED <<fileVars, up, placeVars, tail, sentVars, missed, late, crashed>>
    BY <1>2, <1>4 DEF Pause
  <2>2. CASE SetSink(s, [sink[s] EXCEPT !.at = "endless"]) /\ UNCHANGED fate
    <3> DEFINE k == [sink[s] EXCEPT !.at = "endless"]
    <3>0. sink[s].at = "gather"
      BY <1>4 DEF Pause
    <3>1. k \in Sinks /\ k.at = "endless" /\ k.queue = sink[s].queue /\ k.batch = sink[s].batch
      BY <1>0 DEF Sinks
    <3> HIDE DEF k
    <3>2. SinkOK(k)
      BY <1>0, <3>0, <3>1 DEF SinkOK
    <3>3. sink' \in [Slots -> Sinks] /\ \A r \in Slots : SinkOK(sink'[r])
      BY <2>2, <3>1, <3>2, OneSink DEF k
    <3> QED
      BY <3>3, <2>1, <2>2 DEF Typed, fileVars, placeVars, sentVars
  <2>3. CASE /\ SetSink(s, [sink[s] EXCEPT !.at = "dead", !.batch = << >>])
             /\ GivenUp(LinesOf(sink[s].batch), "lost")
    <3>1. sink' \in [Slots -> Sinks] /\ \A r \in Slots : SinkOK(sink'[r])
      BY <2>3, <1>1, OneSink
    <3>2. fate' \in [Lines -> {"none", "before", "lost"}]
      BY <2>3, GivenFacts
    <3> QED
      BY <3>1, <3>2, <2>1 DEF Typed, fileVars, placeVars, sentVars
  <2> QED
    BY <2>2, <2>3, <1>4 DEF Pause
<1>5. CASE Send(s)
  <2>1. sink' \in [Slots -> Sinks] /\ \A r \in Slots : SinkOK(sink'[r])
    BY <1>1, <1>5, OneSink DEF Send
  <2>2. count' \in [Lines -> 0 .. 2]
    BY <1>5 DEF Send, Ingested, Typed
  <2>3. broken' \in BOOLEAN
    <3>1. broken' = (broken \/ \E x \in TextsOf(sink[s].batch) :
                                  ~Whole(x) /\ fate[LineOf(x)] # "before")
      BY <1>5 DEF Send, Ingested
    <3>2. broken \in BOOLEAN
      BY DEF Typed
    <3> QED
      BY Zenon, <3>1, <3>2
  <2> QED
    BY <2>1, <2>2, <2>3, <1>5 DEF Send, Typed, fileVars, placeVars, pastVars
<1>6. CASE SendFails(s)
  <2>1. sink' \in [Slots -> Sinks] /\ \A r \in Slots : SinkOK(sink'[r])
    BY <1>1, <1>6, OneSink DEF SendFails
  <2>2. fate' \in [Lines -> {"none", "before", "lost"}]
    BY <1>6, GivenFacts DEF SendFails
  <2>3. /\ troubles' \in 0 .. MaxTroubles /\ epoch <= troubles' + 1
        /\ UNCHANGED <<fileVars, up, placeVars, tail, sentVars, missed, late, crashed, paused>>
    BY <1>2, <1>6 DEF SendFails
  <2> QED
    BY <2>1, <2>2, <2>3 DEF Typed, fileVars, placeVars, sentVars
<1>7. CASE SinkEnds(s)
  <2>1. sink' \in [Slots -> Sinks] /\ \A r \in Slots : SinkOK(sink'[r])
    BY <1>7, Nothing, OneSink DEF SinkEnds
  <2>2. fate' \in [Lines -> {"none", "before", "lost"}]
    BY <1>7, GivenFacts DEF SinkEnds
  <2> QED
    BY <2>1, <2>2, <1>7 DEF SinkEnds, Typed, fileVars, placeVars, sentVars, pastVars
<1> QED
  BY <1>3, <1>4, <1>5, <1>6, <1>7

\* What the host, a crash and a restart do to the values.
LEMMA TypedHost ==
    ASSUME Typed, Crash \/ Boot \/ \E s \in Slots : StartWorker(s)
    PROVE  Typed'
<1>1. CASE Crash
  <2>1. troubles' = troubles + 1 /\ troubles < MaxTroubles
    BY <1>1 DEF Crash, Trouble
  <2>2. troubles' \in 0 .. MaxTroubles /\ epoch <= troubles' + 1
    <3>1. troubles \in Nat /\ epoch \in Nat /\ epoch <= troubles + 1
      BY Values DEF Typed
    <3> QED
      BY <2>1, <3>1, Bounds
  <2>3. /\ tail' \in [Slots -> Tails] /\ sink' \in [Slots -> Sinks]
        /\ \A r \in Slots : SinkOK(sink'[r])
        /\ recorded' \in Places
    BY <1>1, Nothing DEF Crash
  <2>4. fate' \in [Lines -> {"none", "before", "lost"}]
    BY <1>1, GivenFacts DEF Crash
  <2>5. up' = FALSE /\ crashed' = TRUE /\ dirty' = FALSE
        /\ UNCHANGED <<fileVars, saved, sentVars, missed, late, paused>>
    BY <1>1 DEF Crash
  <2> QED
    BY <2>2, <2>3, <2>4, <2>5 DEF Typed, fileVars, sentVars
<1>2. CASE Boot
  BY <1>2 DEF Boot, Typed, fileVars, sentVars, pastVars
<1>3. ASSUME NEW s \in Slots, StartWorker(s) PROVE Typed'
  <2>1. tail' \in [Slots -> Tails]
    BY <1>3, Nothing, OneTail DEF StartWorker
  <2>2. sink' \in [Slots -> Sinks] /\ \A r \in Slots : SinkOK(sink'[r])
    BY <1>3, Nothing, OneSink DEF StartWorker
  <2> QED
    BY <2>1, <2>2, <1>3 DEF StartWorker, Typed, fileVars, placeVars, sentVars, pastVars
<1> QED
  BY <1>1, <1>2, <1>3

\* A step is one of these.
LEMMA Steps ==
    ASSUME Next
    PROVE  \/ Write \/ Rotate \/ Crash \/ Boot \/ \E s \in Slots : StartWorker(s)
           \/ \E s \in Slots :
                \/ ScanNothing(s) \/ Read(s) \/ Record(s) \/ Add(s) \/ Save(s) \/ TailEnds(s)
                \/ Edit(s)
           \/ \E s \in Slots :
                Take(s) \/ Pause(s) \/ Send(s) \/ SendFails(s) \/ SinkEnds(s)
BY DEF Next, Hosting, Tailing, Sinking

\* The values of the state are kept.
LEMMA TypedStep == BasicInv /\ Next => Typed'
<1> SUFFICES ASSUME BasicInv, Next PROVE Typed'
  OBVIOUS
<1>1. Typed /\ FileShape
  BY DEF BasicInv
<1> QED
  BY <1>1, Steps, TypedWorld, TypedScan, TypedTailer, TypedSinker, TypedHost

\* The steps that leave the application and the file alone.
Idle == UNCHANGED <<file, epoch, written>>

\* Only Write and Rotate change the file.
LEMMA OthersIdle == Next => Write \/ Rotate \/ Idle
<1>1. Crash \/ Boot => Idle
  BY DEF Crash, Boot, Idle, fileVars
<1>2. \A s \in Slots : StartWorker(s) => Idle
  BY DEF StartWorker, Idle, fileVars
<1>3. \A s \in Slots : ScanNothing(s) \/ Read(s) \/ Record(s) \/ Add(s) => Idle
  BY DEF ScanNothing, Read, Record, Add, Idle, fileVars
<1>4. \A s \in Slots : Save(s) \/ TailEnds(s) \/ Edit(s) => Idle
  BY DEF Save, TailEnds, Edit, Idle, fileVars
<1>5. \A s \in Slots : Take(s) \/ Pause(s) \/ Send(s) \/ SendFails(s) \/ SinkEnds(s) => Idle
  BY DEF Take, Pause, Send, SendFails, SinkEnds, Idle, fileVars
<1> QED
  BY <1>1, <1>2, <1>3, <1>4, <1>5, Steps

\* A write adds the next part to the file, or begins a file with it.
LEMMA WriteFacts ==
    ASSUME Typed, FileShape, Write
    PROVE  \E part \in Parts :
              /\ file' = (IF file = Absent THEN <<part>> ELSE Append(file, part))
              /\ Number(part) = written + 1 /\ written' = written + 1 /\ epoch' = epoch
              /\ file' # Absent /\ file' \in Seq(Parts)
              /\ file # Absent => Base' = Base /\ Len(file') = Len(file) + 1
              /\ file = Absent => Base' = written /\ Len(file') = 1
<1> DEFINE part == <<(written \div 2) + 1, (written % 2) + 1>>
<1>1. /\ written < 2 * MaxLines /\ written' = written + 1 /\ epoch' = epoch
      /\ file' = IF file = Absent THEN <<part>> ELSE Append(file, part)
  BY DEF Write
<1>2. written \in Nat
  BY Values
<1>3. (written \div 2) + 1 \in 1 .. MaxLines /\ (written % 2) + 1 \in {1, 2}
  BY <1>1, <1>2, Bounds
<1>4. part \in Parts
  BY <1>3 DEF Parts, Lines
<1>5. Number(part) = written + 1
  <2>1. Number(part) = 2 * ((written \div 2) + 1) + ((written % 2) + 1) - 2
    BY DEF Number
  <2>2. written = 2 * (written \div 2) + (written % 2)
    BY <1>2
  <2>3. \A a, b \in Nat : 2 * (a + 1) + (b + 1) - 2 = 2 * a + b + 1
    OBVIOUS
  <2>4. written \div 2 \in Nat /\ written % 2 \in Nat
    BY <1>2
  <2> QED
    BY <2>1, <2>2, <2>3, <2>4
<1> HIDE DEF part
<1>6. file' \in Seq(Parts) /\ file' # Absent
  <2>1. file # Absent => Append(file, part) \in Seq(Parts)
    BY <1>4, Values
  <2>2. <<part>> \in Seq(Parts)
    BY <1>4
  <2>3. file' \in Seq(Parts)
    BY <1>1, <2>1, <2>2
  <2> QED
    BY <2>3, AbsentAssumption
<1>7. file # Absent => Len(file') = Len(file) + 1 /\ Len(file) \in Nat
  BY <1>1, <1>4, Values
<1>8. file = Absent => Len(file') = 1
  BY <1>1
<1>9. file # Absent => Base' = Base
  BY <1>1, <1>2, <1>7 DEF Base
<1>10. file = Absent => Base' = written
  BY <1>1, <1>2, <1>8 DEF Base
<1> QED
  BY <1>1, <1>4, <1>5, <1>6, <1>7, <1>8, <1>9, <1>10

\* A rotation leaves nothing of the file.
LEMMA RotateFacts ==
    ASSUME Typed, FileShape, Rotate
    PROVE  /\ file # Absent /\ file \in Seq(Parts) /\ epoch' = epoch + 1 /\ written' = written
           /\ written % 2 = 0
           /\ file' # Absent => file' = << >> /\ Base' = written
<1>1. /\ file # Absent /\ epoch' = epoch + 1 /\ written' = written /\ written % 2 = 0
      /\ file' \in {<< >>, Absent}
  BY DEF Rotate
<1>2. file' # Absent => file' = << >> /\ Base' = written
  BY <1>1, Values DEF Base
<1> QED
  BY <1>1, <1>2, Values

\* The shape of the file is kept.
LEMMA ShapeStep == BasicInv /\ Next => FileShape'
<1> SUFFICES ASSUME BasicInv, Next PROVE FileShape'
  OBVIOUS
<1>0. Typed /\ FileShape /\ written \in Nat
  BY Values DEF BasicInv
<1>1. CASE Write
  <2>1. PICK part \in Parts :
              /\ file' = (IF file = Absent THEN <<part>> ELSE Append(file, part))
              /\ Number(part) = written + 1 /\ written' = written + 1
              /\ file' # Absent
              /\ file # Absent => Base' = Base /\ Len(file') = Len(file) + 1
              /\ file = Absent => Base' = written /\ Len(file') = 1
    BY <1>0, <1>1, WriteFacts
  <2>2. CASE file = Absent
    <3>1. file' = <<part>> /\ Len(file') = 1 /\ Base' = written /\ written % 2 = 0
      BY <1>0, <2>1, <2>2 DEF FileShape
    <3>2. \A i \in 1 .. Len(file') : Number(file'[i]) = Base' + i
      BY <1>0, <2>1, <3>1
    <3> QED
      BY <1>0, <2>1, <3>1, <3>2 DEF FileShape
  <2>3. CASE file # Absent
    <3>1. file \in Seq(Parts) /\ Len(file) \in Nat /\ file' = Append(file, part) /\ Base' = Base
      BY <1>0, <2>1, <2>3, Values
    <3>2. /\ Len(file) <= written /\ Base % 2 = 0 /\ Base = written - Len(file)
          /\ \A i \in 1 .. Len(file) : Number(file[i]) = Base + i
      BY <1>0, <2>3 DEF FileShape, Base
    <3>3. ASSUME NEW i \in 1 .. Len(file') PROVE Number(file'[i]) = Base' + i
      <4>1. CASE i \in 1 .. Len(file)
        BY <3>1, <3>2, <4>1
      <4>2. CASE i = Len(file) + 1
        BY <1>0, <2>1, <3>1, <3>2, <4>2
      <4> QED
        BY <4>1, <4>2, <2>1, <2>3, <3>1
    <3> QED
      BY SMTT(90), <1>0, <2>1, <2>3, <3>1, <3>2, <3>3 DEF FileShape
  <2> QED
    BY <2>2, <2>3
<1>2. CASE Rotate
  <2>1. /\ written' = written /\ written % 2 = 0
        /\ file' # Absent => file' = << >> /\ Base' = written
    BY <1>0, <1>2, RotateFacts
  <2> QED
    BY <1>0, <2>1 DEF FileShape
<1>3. CASE Idle
  BY <1>0, <1>3 DEF Idle, FileShape, Base
<1> QED
  BY <1>1, <1>2, <1>3, OthersIdle

\* The application and the rotation leave the positions and what waits as they should be.
LEMMA WorldTails ==
    ASSUME BasicInv, Write \/ Rotate
    PROVE  /\ \A s \in Slots : TailOK(s)'
           /\ PlaceOK(recorded)' /\ PlaceOK(saved)'
<1>0. Typed /\ FileShape /\ written \in Nat /\ epoch \in Nat
  BY Values DEF BasicInv
<1>1. tail' = tail /\ recorded' = recorded /\ saved' = saved
  BY DEF Write, Rotate, placeVars
<1>2. /\ epoch' \in Nat /\ epoch <= epoch' /\ written' \in Nat /\ written <= written'
      /\ (epoch' = epoch => file' # Absent /\ (file # Absent => Base' = Base /\ Len(file') = Len(file) + 1))
      /\ (file' # Absent /\ (file = Absent \/ epoch' # epoch) => Base' = written)
  BY <1>0, WriteFacts, RotateFacts
<1>3. ASSUME NEW p, p \in {recorded, saved} \cup {tail[s] : s \in Slots}, PlaceOK(p)
      PROVE  /\ p.epoch \in Nat /\ p.pos \in Nat /\ p.epoch <= epoch'
             /\ file' = Absent => p.epoch < epoch'
             /\ p.epoch = epoch' => p.pos <= Len(file')
  <2>1. p.epoch \in Nat /\ p.pos \in Nat
    BY <1>0, <1>3, Values
  <2>2. p.epoch <= epoch /\ (file = Absent => p.epoch < epoch)
        /\ (p.epoch = epoch => p.pos <= Len(file))
    BY <1>3 DEF PlaceOK
  <2>3. file # Absent => Len(file) \in Nat
    BY <1>0, Values
  <2>4. epoch' # epoch => epoch < epoch'
    BY <1>0, <1>2
  <2> QED
    BY <2>1, <2>2, <2>3, <2>4, <1>0, <1>2
<1>4. PlaceOK(recorded)' /\ PlaceOK(saved)'
  <2>1. PlaceOK(recorded) /\ PlaceOK(saved)
    BY DEF BasicInv
  <2> QED
    BY <2>1, <1>1, <1>3 DEF PlaceOK
<1>5. ASSUME NEW s \in Slots PROVE TailOK(s)'
  <2>1. /\ PlaceOK(tail[s]) /\ PendingOK(tail[s]) /\ (tail[s].at = "none" => tail[s] = NoTail)
        /\ (tail[s].todo # << >> => tail[s].at = "add")
    BY DEF BasicInv, TailOK
  <2>2. PlaceOK(tail[s])'
    BY <2>1, <1>1, <1>3 DEF PlaceOK
  <2>3. /\ tail[s].pending \in Seq(Parts) /\ Len(tail[s].pending) \in Nat
        /\ tail[s].pos \in Nat /\ tail[s].epoch \in Nat
    BY <1>0, Values
  <2> DEFINE p == tail[s].pending
  <2>4. \A i \in 1 .. Len(p) : Number(p[i]) \in Int /\ Number(p[i]) <= written
    <3>1. \A i \in 1 .. Len(p) : p[i] \in Parts
      BY <2>3
    <3> QED
      BY <2>1, <3>1, NextPart DEF PendingOK, Number
  <2>5. ASSUME file' # Absent, NEW i \in 1 .. Len(p), p[i][2] = 2
        PROVE  IF tail[s].epoch = epoch'
                 THEN Number(p[i]) = Base' + tail[s].pos - Len(p) + i
                 ELSE Number(p[i]) <= Base'
    <3>1. CASE file # Absent /\ epoch' = epoch
      <4>1. IF tail[s].epoch = epoch
                 THEN Number(p[i]) = Base + tail[s].pos - Len(p) + i
                 ELSE Number(p[i]) <= Base
        BY <2>1, <2>5, <3>1 DEF PendingOK
      <4> QED
        BY <3>1, <4>1, <1>2
    <3>2. CASE file = Absent \/ epoch' # epoch
      <4>1. tail[s].epoch # epoch'
        BY <2>1, <2>3, <3>2, <1>0, <1>2 DEF PlaceOK
      <4>2. Base' = written
        BY <2>5, <3>2, <1>2
      <4> QED
        BY <4>1, <4>2, <2>4
    <3> QED
      BY <3>1, <3>2
  <2>6. \A i \in 1 .. Len(p) : Number(p[i]) <= written'
    BY <2>4, <1>0, <1>2
  <2>7. PendingOK(tail[s])'
    BY <2>1, <2>5, <2>6, <1>1 DEF PendingOK
  <2> QED
    BY <2>1, <2>2, <2>7, <1>1 DEF TailOK
<1> QED
  BY <1>4, <1>5

\* A tailer that a step leaves alone.
LEMMA SameTail ==
    ASSUME Idle, NEW s \in Slots, TailOK(s), tail'[s] = tail[s]
    PROVE  TailOK(s)'
BY DEF Idle, TailOK, PlaceOK, PendingOK, Base

\* A tailer that a step replaces.
LEMMA NewTail ==
    ASSUME NEW s \in Slots, NEW t, tail'[s] = t, PlaceOK(t)', PendingOK(t)',
           t.at = "none" => t = NoTail, t.todo # << >> => t.at = "add"
    PROVE  TailOK(s)'
BY DEF TailOK, PlaceOK, PendingOK

\* What one that has neither read nor recorded keeps.
LEMMA KeptTail ==
    ASSUME Idle, NEW s \in Slots, TailOK(s), NEW t,
           t.pos = tail[s].pos, t.epoch = tail[s].epoch, t.pending = tail[s].pending,
           t.tracked = tail[s].tracked, t.at = "record" <=> tail[s].at = "record"
    PROVE  PlaceOK(t)' /\ PendingOK(t)'
BY DEF Idle, TailOK, PlaceOK, PendingOK, Base

\* A tailer that has read nothing is as it should be.
LEMMA FreshTail ==
    ASSUME Typed', NEW t, t.pos = 0, t.epoch = 0, t.pending = << >>, t.at # "record"
    PROVE  PlaceOK(t)' /\ PendingOK(t)'
<1>1. epoch' \in Nat /\ epoch' >= 1
  BY Bounds DEF Typed
<1> QED
  BY <1>1 DEF PlaceOK, PendingOK, Distinct

\* What a read adds are the parts of the file between the two positions.
LEMMA Added ==
    ASSUME BasicInv, file # Absent, NEW start \in 0 .. Len(file), NEW end \in 0 .. Len(file),
           start <= end, NEW old \in Seq(Parts)
    PROVE  LET q == old \o SubSeq(file, start + 1, end)
           IN  /\ q \in Seq(Parts) /\ Len(q) = Len(old) + (end - start)
               /\ \A i \in 1 .. Len(old) : q[i] = old[i]
               /\ \A i \in 1 .. Len(q) :
                    i > Len(old) => /\ start + i - Len(old) \in 1 .. Len(file)
                                    /\ q[i] = file[start + i - Len(old)]
                                    /\ Number(q[i]) = Base + end - Len(q) + i
<1> DEFINE r == SubSeq(file, start + 1, end)
           q == old \o r
<1>1. file \in Seq(Parts) /\ Len(file) \in Nat /\ Base \in Nat
      /\ \A i \in 1 .. Len(file) : Number(file[i]) = Base + i
  <2>1. Typed /\ FileShape /\ written \in Nat
    BY Values DEF BasicInv
  <2> QED
    BY <2>1, Values DEF FileShape, Base
<1>2. /\ r \in Seq(Parts) /\ Len(r) = end - start
      /\ \A i \in 1 .. Len(r) : r[i] = file[start + i] /\ start + i \in 1 .. Len(file)
  <2>1. start \in Nat /\ end \in Nat /\ end <= Len(file)
    BY <1>1
  <2>2. \A i \in 1 .. end - start : start + i \in 1 .. Len(file)
    BY <1>1, <2>1
  <2> QED
    BY SMTT(90), <1>1, <2>1, <2>2
<1> HIDE DEF r
<1>3. /\ q \in Seq(Parts) /\ Len(q) = Len(old) + Len(r) /\ Len(old) \in Nat
      /\ \A i \in 1 .. Len(old) : q[i] = old[i]
      /\ \A i \in 1 .. Len(q) : i > Len(old) => q[i] = r[i - Len(old)]
  BY <1>2
<1> HIDE DEF q
<1>4. ASSUME NEW i \in 1 .. Len(q), i > Len(old)
      PROVE  /\ start + i - Len(old) \in 1 .. Len(file)
             /\ q[i] = file[start + i - Len(old)]
             /\ Number(q[i]) = Base + end - Len(q) + i
  <2> DEFINE j == i - Len(old)
  <2>1. j \in 1 .. Len(r) /\ start + j = start + i - Len(old)
    BY <1>2, <1>3, <1>4
  <2>2. q[i] = r[j]
    BY <1>3, <1>4
  <2> HIDE DEF j
  <2>3. r[j] = file[start + j] /\ start + j \in 1 .. Len(file)
    BY <2>1, <1>2
  <2>4. Number(q[i]) = Base + (start + j)
    BY <2>2, <2>3, <1>1
  <2>5. Base + (start + j) = Base + end - Len(q) + i
    <3>1. start \in Int /\ end \in Int /\ i \in Int /\ Len(old) \in Int /\ Base \in Int
      BY <1>1, <1>3
    <3>2. Len(q) = Len(old) + (end - start) /\ start + j = start + i - Len(old)
      BY <2>1, <1>2, <1>3
    <3> QED
      BY <3>1, <3>2
  <2> QED
    BY <2>1, <2>2, <2>3, <2>4, <2>5
<1> QED
  BY <1>2, <1>3, <1>4 DEF q, r

\* Two ends of line of different numbers are of different lines.
LEMMA NumbersApart ==
    ASSUME NEW p \in Parts, NEW q \in Parts, p[2] = 2, q[2] = 2
    PROVE  p[1] = q[1] <=> Number(p) = Number(q)
BY NextPart DEF Number

\* What waits after a read is as it should be.
LEMMA ReadTail ==
    ASSUME BasicInv, NEW s \in Slots, Read(s)
    PROVE  TailOK(s)'
<1>0. Typed /\ FileShape /\ TailOK(s) /\ epoch \in Nat /\ epoch >= 1 /\ written \in Nat
      /\ tail[s].pos \in Nat /\ Len(tail[s].pending) \in Nat /\ tail[s].at = "scan"
      /\ tail[s].pending \in Seq(Parts)
      /\ file # Absent /\ Idle
  BY Values DEF BasicInv, Read, Idle, fileVars
<1>a. PICK start \in 0 .. Len(file), end \in 0 .. Len(file), old \in Seq(Parts), t \in Tails :
         ReadsAs(s, start, end, old, t)
  BY ReadFacts
<1>1. /\ start <= end /\ SetTail(s, t)
      /\ t.at = IF end = start THEN "save" ELSE "record"
      /\ t.tracked = TRUE /\ t.pos = end /\ t.epoch = epoch
      /\ t.pending = old \o SubSeq(file, start + 1, end)
      /\ t.cancelled = tail[s].cancelled /\ t.todo = tail[s].todo
      /\ old = << >> \/ (old = tail[s].pending /\ start = tail[s].pos)
  BY <1>a DEF ReadsAs
<1> DEFINE q == old \o SubSeq(file, start + 1, end)
<1>2. /\ q \in Seq(Parts) /\ Len(q) = Len(old) + (end - start)
      /\ \A i \in 1 .. Len(old) : q[i] = old[i]
      /\ \A i \in 1 .. Len(q) :
           i > Len(old) => /\ start + i - Len(old) \in 1 .. Len(file)
                           /\ q[i] = file[start + i - Len(old)]
                           /\ Number(q[i]) = Base + end - Len(q) + i
  BY ZenonT(90), <1>0, <1>1, Added
<1> HIDE DEF q
<1>3. t.pending = q
  BY <1>1 DEF q
<1>4. Len(file) \in Nat /\ Base \in Nat /\ Base + Len(file) = written
  BY <1>0, Values DEF FileShape, Base
<1>5. PendingOK(tail[s]) /\ tail[s].todo = << >>
  BY <1>0 DEF TailOK
<1>6. /\ Len(old) \in Nat /\ Len(old) <= start
      /\ \A i \in 1 .. Len(old) : old[i][2] = 1 /\ Number(old[i]) <= written
  <2>1. CASE old = << >>
    <3>1. Len(old) = 0 /\ start \in Nat
      BY <2>1, <1>4
    <3> QED
      BY <3>1
  <2>2. CASE old = tail[s].pending /\ start = tail[s].pos
    <3>1. /\ Len(tail[s].pending) <= tail[s].pos
          /\ \A i \in 1 .. Len(tail[s].pending) :
                tail[s].pending[i][2] = 1 /\ Number(tail[s].pending[i]) <= written
      BY <1>0, <1>5 DEF PendingOK
    <3>2. Len(old) \in Nat
      BY <1>0
    <3> QED
      BY <2>2, <3>1, <3>2
  <2> QED
    BY <1>1, <2>1, <2>2
<1>7. Len(q) <= end /\ Len(q) \in Nat
  BY <1>1, <1>2, <1>4, <1>6
<1>8. ASSUME t.at # "record", NEW i \in 1 .. Len(q) PROVE q[i][2] = 1
  <2>1. end = start
    BY <1>1, <1>8
  <2>2. i \in 1 .. Len(old)
    BY <2>1, <1>2, <1>4, <1>6, <1>7
  <2> QED
    BY <2>2, <1>2, <1>6
<1>9. t.at = "record" => q # << >>
  BY <1>1, <1>2, <1>4, <1>6, <1>7
<1>10. ASSUME NEW i \in 1 .. Len(q) PROVE Number(q[i]) <= written
  <2>1. CASE i <= Len(old)
    BY <2>1, <1>2, <1>6
  <2>2. CASE i > Len(old)
    <3>1. end \in Nat /\ end <= Len(file) /\ i <= Len(q) /\ i \in Nat
      BY <1>4, <1>7
    <3>2. Number(q[i]) = Base + end - Len(q) + i
      BY <2>2, <1>2
    <3> QED
      BY <3>1, <3>2, <1>4, <1>7
  <2> QED
    BY <2>1, <2>2, <1>6
<1>11. ASSUME NEW i \in 1 .. Len(q), q[i][2] = 2 PROVE Number(q[i]) = Base + end - Len(q) + i
  <2>1. i > Len(old)
    <3>1. ~ (i \in 1 .. Len(old))
      BY SMTT(90), <1>2, <1>6, <1>11
    <3> QED
      BY <3>1, <1>6
  <2> QED
    BY <2>1, <1>2
<1>12. Distinct(q)
  <2> SUFFICES ASSUME NEW i \in 1 .. Len(q), NEW j \in 1 .. Len(q), i < j,
                      q[i][2] = 2, q[j][2] = 2
               PROVE  q[i][1] # q[j][1]
    BY DEF Distinct
  <2>1. Number(q[i]) = Base + end - Len(q) + i /\ Number(q[j]) = Base + end - Len(q) + j
    BY <1>11
  <2>2. Number(q[i]) # Number(q[j])
    BY <2>1, <1>1, <1>4, <1>7
  <2>3. q[i] \in Parts /\ q[j] \in Parts
    BY <1>2
  <2> QED
    BY <2>2, <2>3, NumbersApart
<1>13. PlaceOK(t)'
  BY <1>0, <1>1, <1>4 DEF PlaceOK, Idle
<1>14. PendingOK(t)'
  <2>1. file' = file /\ Base' = Base /\ epoch' = epoch /\ written' = written
    BY <1>0 DEF Idle, Base
  <2> QED
    BY <2>1, <1>0, <1>1, <1>3, <1>7, <1>8, <1>9, <1>10, <1>11, <1>12 DEF PendingOK
<1>15. tail'[s] = t
  BY <1>0, <1>1, OneTail
<1> QED
  BY <1>1, <1>5, <1>13, <1>14, <1>15, NewTail

\* What waits after Record is the beginning of a text.
LEMMA RecordTail ==
    ASSUME BasicInv, NEW s \in Slots, Record(s)
    PROVE  TailOK(s)' /\ PlaceOK(recorded)' /\ recorded'.epoch >= 1
<1>0. Typed /\ TailOK(s) /\ PlaceOK(tail[s]) /\ PendingOK(tail[s])
      /\ tail[s].at = "record" /\ Idle /\ tail[s].epoch \in Nat /\ tail[s].pos \in Nat
      /\ tail[s].pending \in Seq(Parts) /\ Len(tail[s].pending) \in Nat
  BY Values DEF BasicInv, TailOK, Record, Idle, fileVars
<1> DEFINE p == tail[s].pending
           n == LastEnd(p)
<1>1. PICK t \in Tails :
         /\ SetTail(s, t)
         /\ t.at = "add" /\ t.tracked = tail[s].tracked /\ t.cancelled = tail[s].cancelled
         /\ t.pos = tail[s].pos /\ t.epoch = tail[s].epoch
         /\ n \in 0 .. Len(p) /\ Len(t.pending) = Len(p) - n
         /\ \A i \in 1 .. Len(t.pending) : t.pending[i] = p[n + i] /\ t.pending[i][2] = 1
         /\ recorded'.pos = tail[s].pos - Len(t.pending) /\ recorded'.epoch = tail[s].epoch
  BY RecordFacts
<1> HIDE DEF n
<1>2. /\ Len(p) <= tail[s].pos /\ tail[s].tracked /\ tail[s].epoch >= 1
      /\ \A i \in 1 .. Len(p) : Number(p[i]) <= written
  BY <1>0 DEF PendingOK
<1>3. tail'[s] = t
  BY <1>0, <1>1, OneTail
<1>4. Len(t.pending) \in Nat /\ Len(t.pending) <= tail[s].pos
  BY <1>0, <1>1, <1>2
<1>5. PlaceOK(t)' /\ PlaceOK(recorded)'
  <2>1. file' = file /\ epoch' = epoch
    BY <1>0 DEF Idle
  <2>2. /\ tail[s].epoch <= epoch /\ (file = Absent => tail[s].epoch < epoch)
        /\ (tail[s].epoch = epoch => tail[s].pos <= Len(file))
    BY <1>0 DEF PlaceOK
  <2>3. tail[s].epoch = epoch => file # Absent /\ Len(file) \in Nat
    BY <1>0, <2>2, Values
  <2>4. recorded'.pos \in Nat /\ recorded'.pos <= tail[s].pos
    BY <1>0, <1>1, <1>4
  <2> QED
    BY <2>1, <2>2, <2>3, <2>4, <1>0, <1>1 DEF PlaceOK
<1>6. PendingOK(t)'
  <2>1. \A i \in 1 .. Len(t.pending) : Number(t.pending[i]) <= written
    <3> SUFFICES ASSUME NEW i \in 1 .. Len(t.pending)
                 PROVE  Number(t.pending[i]) <= written
      OBVIOUS
    <3>1. n + i \in 1 .. Len(p) /\ t.pending[i] = p[n + i]
      BY <1>0, <1>1
    <3> QED
      BY <3>1, <1>2
  <2>2. Distinct(t.pending)
    BY SMTT(90), <1>1 DEF Distinct
  <2>3. ~t.tracked => t.pending = << >>
    BY <1>1, <1>2
  <2>4. written' = written
    BY <1>0 DEF Idle
  <2> QED
    BY <2>1, <2>2, <2>3, <2>4, <1>1, <1>4 DEF PendingOK
<1> QED
  BY <1>1, <1>2, <1>3, <1>5, <1>6, NewTail

\* The steps of a tailer that read nothing: the tailer s is t after it.
Becomes(s, t) ==
    /\ tail'[s] = t /\ \A r \in Slots : r # s => tail'[r] = tail[r]
    /\ t.pos = tail[s].pos /\ t.epoch = tail[s].epoch

\* What they change.
LEMMA QuietFacts ==
    ASSUME Typed, NEW s \in Slots
    PROVE  /\ ScanNothing(s) =>
                \E t \in Tails :
                   /\ Becomes(s, t) /\ t.at = "save" /\ ~t.tracked /\ t.pending = << >>
                   /\ t.todo = tail[s].todo /\ t.cancelled = tail[s].cancelled
           /\ Add(s) =>
                \E t \in Tails :
                   /\ Becomes(s, t) /\ t.at = "add" /\ t.tracked = tail[s].tracked
                   /\ t.pending = tail[s].pending /\ t.todo = Tail(tail[s].todo)
                   /\ t.cancelled = tail[s].cancelled
           /\ Save(s) =>
                \E t \in Tails :
                   /\ Becomes(s, t) /\ t.at = "scan" /\ t.tracked = tail[s].tracked
                   /\ t.pending = tail[s].pending /\ t.todo = tail[s].todo
                   /\ t.cancelled = tail[s].cancelled
           /\ Edit(s) =>
                \E t \in Tails :
                   /\ Becomes(s, t) /\ t.at = tail[s].at /\ t.tracked = tail[s].tracked
                   /\ t.pending = tail[s].pending /\ t.todo = tail[s].todo /\ t.cancelled
<1>0. tail[s] \in Tails /\ tail[s].todo \in Seq(Entry)
  BY Values
<1>1. ASSUME ScanNothing(s)
      PROVE  \E t \in Tails :
                   /\ Becomes(s, t) /\ t.at = "save" /\ ~t.tracked /\ t.pending = << >>
                   /\ t.todo = tail[s].todo /\ t.cancelled = tail[s].cancelled
  <2> DEFINE t == [tail[s] EXCEPT !.at = "save", !.tracked = FALSE, !.pending = << >>]
  <2>1. SetTail(s, t)
    BY <1>1 DEF ScanNothing
  <2>2. /\ t \in Tails /\ t.at = "save" /\ t.tracked = FALSE /\ t.pending = << >>
        /\ t.pos = tail[s].pos /\ t.epoch = tail[s].epoch /\ t.todo = tail[s].todo
        /\ t.cancelled = tail[s].cancelled
    <3>1. << >> \in Seq(Parts)
      OBVIOUS
    <3> QED
      BY <1>0, <3>1 DEF Tails
  <2> HIDE DEF t
  <2> QED
    BY <2>1, <2>2, OneTail DEF Becomes
<1>2. ASSUME Add(s)
      PROVE  \E t \in Tails :
                   /\ Becomes(s, t) /\ t.at = "add" /\ t.tracked = tail[s].tracked
                   /\ t.pending = tail[s].pending /\ t.todo = Tail(tail[s].todo)
                   /\ t.cancelled = tail[s].cancelled
  <2> DEFINE t == [tail[s] EXCEPT !.todo = Tail(@)]
  <2>1. SetTail(s, t) /\ tail[s].at = "add" /\ tail[s].todo # << >>
    BY <1>2 DEF Add
  <2>2. /\ t \in Tails /\ t.at = "add" /\ t.tracked = tail[s].tracked
        /\ t.pending = tail[s].pending /\ t.pos = tail[s].pos /\ t.epoch = tail[s].epoch
        /\ t.todo = Tail(tail[s].todo) /\ t.cancelled = tail[s].cancelled
    <3>1. Tail(tail[s].todo) \in Seq(Entry)
      BY <1>0, <2>1
    <3> QED
      BY <1>0, <2>1, <3>1 DEF Tails
  <2> HIDE DEF t
  <2> QED
    BY <2>1, <2>2, OneTail DEF Becomes
<1>3. ASSUME Save(s)
      PROVE  \E t \in Tails :
                   /\ Becomes(s, t) /\ t.at = "scan" /\ t.tracked = tail[s].tracked
                   /\ t.pending = tail[s].pending /\ t.todo = tail[s].todo
                   /\ t.cancelled = tail[s].cancelled
  <2> DEFINE t == [tail[s] EXCEPT !.at = "scan", !.first = FALSE]
  <2>1. SetTail(s, t)
    BY <1>3 DEF Save
  <2>2. /\ t \in Tails /\ t.at = "scan" /\ t.tracked = tail[s].tracked /\ t.todo = tail[s].todo
        /\ t.pending = tail[s].pending /\ t.pos = tail[s].pos /\ t.epoch = tail[s].epoch
        /\ t.cancelled = tail[s].cancelled
    BY <1>0 DEF Tails
  <2> HIDE DEF t
  <2> QED
    BY <2>1, <2>2, OneTail DEF Becomes
<1>4. ASSUME Edit(s)
      PROVE  \E t \in Tails :
                   /\ Becomes(s, t) /\ t.at = tail[s].at /\ t.tracked = tail[s].tracked
                   /\ t.pending = tail[s].pending /\ t.todo = tail[s].todo /\ t.cancelled
  <2> DEFINE t == [tail[s] EXCEPT !.cancelled = TRUE]
  <2>1. SetTail(s, t)
    BY <1>4 DEF Edit
  <2>2. /\ t \in Tails /\ t.at = tail[s].at /\ t.tracked = tail[s].tracked
        /\ t.pending = tail[s].pending /\ t.pos = tail[s].pos /\ t.epoch = tail[s].epoch
        /\ t.todo = tail[s].todo /\ t.cancelled = TRUE
    BY <1>0 DEF Tails
  <2> HIDE DEF t
  <2> QED
    BY <2>1, <2>2, OneTail DEF Becomes
<1> QED
  BY <1>1, <1>2, <1>3, <1>4

\* Those steps keep what waits, or have nothing left.
LEMMA OtherTails ==
    ASSUME BasicInv, NEW s \in Slots, Typed',
           ScanNothing(s) \/ Add(s) \/ Save(s) \/ TailEnds(s) \/ Edit(s) \/ StartWorker(s)
    PROVE  TailOK(s)' /\ Idle /\ \A r \in Slots : r # s => tail'[r] = tail[r]
<1>0. Typed /\ TailOK(s) /\ Len(tail[s].pending) \in Nat /\ tail[s].pos \in Nat
  BY Values DEF BasicInv
<1>1. CASE ScanNothing(s)
  <2>0. Idle /\ file = Absent /\ tail[s].at = "scan"
    BY <1>1 DEF ScanNothing, Idle, fileVars
  <2>1. PICK t \in Tails :
           /\ Becomes(s, t) /\ t.at = "save" /\ ~t.tracked /\ t.pending = << >>
           /\ t.todo = tail[s].todo
    BY <1>0, <1>1, QuietFacts
  <2>2. PlaceOK(t)'
    BY <1>0, <2>0, <2>1 DEF TailOK, PlaceOK, Idle, Becomes
  <2>3. PendingOK(t)'
    BY <1>0, <2>1 DEF PendingOK, Distinct, Becomes
  <2>4. t.todo = << >>
    BY <1>0, <2>0, <2>1 DEF TailOK
  <2> QED
    BY <2>0, <2>1, <2>2, <2>3, <2>4, NewTail DEF Becomes
<1>2. CASE Add(s)
  <2>0. Idle /\ tail[s].at = "add"
    BY <1>2 DEF Add, Idle, fileVars
  <2>1. PICK t \in Tails :
           /\ Becomes(s, t) /\ t.at = "add" /\ t.tracked = tail[s].tracked
           /\ t.pending = tail[s].pending
    BY <1>0, <1>2, QuietFacts
  <2>2. PlaceOK(t)' /\ PendingOK(t)'
    BY <1>0, <2>0, <2>1, KeptTail DEF Becomes
  <2> QED
    BY <2>0, <2>1, <2>2, NewTail DEF Becomes
<1>3. CASE Save(s)
  <2>0. Idle /\ tail[s].at # "record" /\ tail[s].todo = << >>
    BY <1>3 DEF Save, Idle, fileVars
  <2>1. PICK t \in Tails :
           /\ Becomes(s, t) /\ t.at = "scan" /\ t.tracked = tail[s].tracked
           /\ t.pending = tail[s].pending /\ t.todo = tail[s].todo
    BY <1>0, <1>3, QuietFacts
  <2>2. PlaceOK(t)' /\ PendingOK(t)'
    BY <1>0, <2>0, <2>1, KeptTail DEF Becomes
  <2> QED
    BY <2>0, <2>1, <2>2, NewTail DEF Becomes
<1>4. CASE TailEnds(s)
  <2>0. Idle /\ SetTail(s, NoTail)
    BY <1>4 DEF TailEnds, Idle, fileVars
  <2>1. tail'[s] = NoTail /\ \A r \in Slots : r # s => tail'[r] = tail[r]
    BY <1>0, <2>0, Nothing, OneTail
  <2>2. PlaceOK(NoTail)' /\ PendingOK(NoTail)'
    BY FreshTail DEF NoTail
  <2> QED
    BY <2>0, <2>1, <2>2, NewTail DEF NoTail
<1>5. CASE Edit(s)
  <2>0. Idle /\ tail[s].at # "none"
    BY <1>5 DEF Edit, Idle, fileVars
  <2>1. PICK t \in Tails :
           /\ Becomes(s, t) /\ t.at = tail[s].at /\ t.tracked = tail[s].tracked
           /\ t.pending = tail[s].pending /\ t.todo = tail[s].todo
    BY <1>0, <1>5, QuietFacts
  <2>2. PlaceOK(t)' /\ PendingOK(t)'
    BY <1>0, <2>0, <2>1, KeptTail DEF Becomes
  <2>3. t.todo # << >> => t.at = "add"
    BY <1>0, <2>1 DEF TailOK
  <2> QED
    BY <2>0, <2>1, <2>2, <2>3, NewTail DEF Becomes
<1>6. CASE StartWorker(s)
  <2>0. Idle /\ SetTail(s, [NoTail EXCEPT !.at = "scan"])
    BY <1>6 DEF StartWorker, Idle, fileVars
  <2>1. PICK t : t = [NoTail EXCEPT !.at = "scan"]
    OBVIOUS
  <2>2. tail'[s] = t /\ \A r \in Slots : r # s => tail'[r] = tail[r]
    BY <1>0, <2>0, <2>1, Nothing, OneTail
  <2>3. t.pos = 0 /\ t.epoch = 0 /\ t.pending = << >> /\ t.at = "scan" /\ t.todo = << >>
    BY <2>1 DEF NoTail
  <2>4. PlaceOK(t)' /\ PendingOK(t)'
    BY <2>3, FreshTail
  <2> QED
    BY <2>0, <2>2, <2>3, <2>4, NewTail
<1> QED
  BY <1>1, <1>2, <1>3, <1>4, <1>5, <1>6

\* The steps of a sink, and a restart, leave the tailers alone.
LEMMA TailersAlone ==
    /\ \A s \in Slots : Take(s) \/ Pause(s) \/ Send(s) \/ SendFails(s) \/ SinkEnds(s)
                          => tail' = tail /\ recorded' = recorded /\ saved' = saved /\ Idle /\ up' = up
    /\ Boot => tail' = tail /\ recorded' = saved /\ saved' = saved /\ Idle /\ sink' = sink
BY DEF Take, Pause, Send, SendFails, SinkEnds, Boot, Idle, fileVars, placeVars

\* The tailers stay as they should be.
LEMMA TailsStep == BasicInv /\ Next => \A s \in Slots : TailOK(s)'
<1> SUFFICES ASSUME BasicInv, Next, NEW s \in Slots PROVE TailOK(s)'
  OBVIOUS
<1>0. Typed /\ Typed' /\ TailOK(s)
  BY TypedStep DEF BasicInv
<1>1. CASE Write \/ Rotate
  BY <1>1, WorldTails
<1>2. CASE Crash
  <2>1. tail'[s] = NoTail
    BY <1>2 DEF Crash
  <2>2. PlaceOK(NoTail)' /\ PendingOK(NoTail)'
    BY <1>0, FreshTail DEF NoTail
  <2> QED
    BY <2>1, <2>2, NewTail DEF NoTail
<1>3. CASE Boot \/ \E r \in Slots : Take(r) \/ Pause(r) \/ Send(r) \/ SendFails(r) \/ SinkEnds(r)
  <2>1. tail' = tail /\ Idle
    BY <1>3, TailersAlone
  <2> QED
    BY <2>1, <1>0, SameTail
<1>4. ASSUME NEW r \in Slots,
             ScanNothing(r) \/ Add(r) \/ Save(r) \/ TailEnds(r) \/ Edit(r) \/ StartWorker(r)
      PROVE  TailOK(s)'
  <2>1. TailOK(r)' /\ Idle /\ \A q \in Slots : q # r => tail'[q] = tail[q]
    BY <1>0, <1>4, OtherTails
  <2> QED
    BY <2>1, <1>0, SameTail
<1>5. ASSUME NEW r \in Slots, Read(r) PROVE TailOK(s)'
  <2>1. TailOK(r)' /\ Idle
    BY <1>5, ReadTail DEF Read, Idle, fileVars
  <2>2. PICK start \in 0 .. Len(file), end \in 0 .. Len(file), old \in Seq(Parts), t \in Tails :
           ReadsAs(r, start, end, old, t)
    BY <1>5, ReadFacts
  <2>3. \A q \in Slots : q # r => tail'[q] = tail[q]
    BY <2>2, <1>0, OneTail DEF ReadsAs
  <2> QED
    BY SMTT(90), <2>1, <2>3, <1>0, SameTail
<1>6. ASSUME NEW r \in Slots, Record(r) PROVE TailOK(s)'
  <2>1. TailOK(r)' /\ Idle
    BY <1>6, RecordTail DEF Record, Idle, fileVars
  <2>2. PICK t \in Tails : SetTail(r, t)
    BY <1>6, RecordFacts
  <2>3. \A q \in Slots : q # r => tail'[q] = tail[q]
    BY <2>2, <1>0, OneTail
  <2> QED
    BY <2>1, <2>3, <1>0, SameTail
<1> QED
  BY <1>1, <1>2, <1>3, <1>4, <1>5, <1>6, Steps

\* The recorded and the saved position stay within the file.
LEMMA PlacesStep ==
    BasicInv /\ Next =>
      /\ PlaceOK(recorded)' /\ (recorded.epoch = 0 => recorded = NoPosition)'
      /\ PlaceOK(saved)' /\ (saved.epoch = 0 => saved = NoPosition)'
      /\ ~up' => crashed'
<1> SUFFICES ASSUME BasicInv, Next
             PROVE  /\ PlaceOK(recorded)' /\ (recorded.epoch = 0 => recorded = NoPosition)'
                    /\ PlaceOK(saved)' /\ (saved.epoch = 0 => saved = NoPosition)'
                    /\ ~up' => crashed'
  OBVIOUS
<1>0. /\ PlaceOK(recorded) /\ (recorded.epoch = 0 => recorded = NoPosition)
      /\ PlaceOK(saved) /\ (saved.epoch = 0 => saved = NoPosition)
      /\ ~up => crashed
      /\ epoch \in Nat /\ epoch >= 1
  BY Values DEF BasicInv
<1>1. CASE Write \/ Rotate
  <2>1. recorded' = recorded /\ saved' = saved /\ up' = up /\ crashed' = crashed
    BY <1>1 DEF Write, Rotate, placeVars, pastVars
  <2> QED
    BY <1>0, <1>1, <2>1, WorldTails
<1>2. CASE Crash
  <2>1. recorded' = NoPosition /\ saved' = saved /\ crashed' = TRUE /\ Idle
    BY <1>2 DEF Crash, Idle, fileVars
  <2> QED
    BY <1>0, <2>1 DEF PlaceOK, NoPosition, Idle
<1>3. CASE Boot
  <2>1. recorded' = saved /\ saved' = saved /\ up' = TRUE /\ Idle
    BY <1>3 DEF Boot, Idle, fileVars
  <2> QED
    BY <1>0, <2>1 DEF PlaceOK, Idle
<1>4. ASSUME NEW r \in Slots, Record(r)
      PROVE  /\ PlaceOK(recorded)' /\ (recorded.epoch = 0 => recorded = NoPosition)'
             /\ PlaceOK(saved)' /\ (saved.epoch = 0 => saved = NoPosition)'
             /\ ~up' => crashed'
  <2>1. saved' = saved /\ up' = up /\ crashed' = crashed /\ Idle
    BY <1>4 DEF Record, Idle, fileVars, pastVars
  <2>2. PlaceOK(recorded)' /\ recorded'.epoch >= 1
    BY <1>4, RecordTail
  <2> QED
    BY <1>0, <2>1, <2>2 DEF PlaceOK, Idle
<1>5. ASSUME NEW r \in Slots, Save(r)
      PROVE  /\ PlaceOK(recorded)' /\ (recorded.epoch = 0 => recorded = NoPosition)'
             /\ PlaceOK(saved)' /\ (saved.epoch = 0 => saved = NoPosition)'
             /\ ~up' => crashed'
  <2>1. recorded' = recorded /\ up' = up /\ crashed' = crashed /\ Idle
        /\ (saved' = saved \/ saved' = recorded)
    BY <1>5 DEF Save, Idle, fileVars
  <2> QED
    BY <1>0, <2>1 DEF PlaceOK, Idle
<1>6. ASSUME NEW r \in Slots,
             \/ ScanNothing(r) \/ Read(r) \/ Add(r) \/ TailEnds(r) \/ Edit(r) \/ StartWorker(r)
             \/ Take(r) \/ Pause(r) \/ Send(r) \/ SendFails(r) \/ SinkEnds(r)
      PROVE  recorded' = recorded /\ saved' = saved /\ up' = up /\ crashed' = crashed /\ Idle
  <2>1. CASE ScanNothing(r) \/ Read(r) \/ Add(r) \/ TailEnds(r) \/ Edit(r) \/ StartWorker(r)
    BY <2>1 DEF ScanNothing, Read, Add, TailEnds, Edit, StartWorker, Idle, fileVars,
                placeVars, pastVars
  <2>2. CASE Take(r) \/ Pause(r) \/ Send(r) \/ SendFails(r) \/ SinkEnds(r)
    BY <2>2 DEF Take, Pause, Send, SendFails, SinkEnds, Idle, fileVars, placeVars, pastVars
  <2> QED
    BY <2>1, <2>2, <1>6
<1>7. ASSUME recorded' = recorded, saved' = saved, up' = up, crashed' = crashed, Idle
      PROVE  /\ PlaceOK(recorded)' /\ (recorded.epoch = 0 => recorded = NoPosition)'
             /\ PlaceOK(saved)' /\ (saved.epoch = 0 => saved = NoPosition)'
             /\ ~up' => crashed'
  BY <1>0, <1>7 DEF PlaceOK, Idle
<1> QED
  BY <1>1, <1>2, <1>3, <1>4, <1>5, <1>6, <1>7, Steps

\* The sink s is k after the step.
Swaps(s, k) == sink'[s] = k /\ \A r \in Slots : r # s => sink'[r] = sink[r]

\* What the steps of a sink change.
LEMMA SinkFacts ==
    ASSUME Typed, NEW s \in Slots
    PROVE  /\ Take(s) =>
                \E k \in Sinks :
                   /\ Swaps(s, k) /\ k.at # "none" /\ sink[s].at # "none"
                   /\ sink[s].queue # << >> /\ k.queue = Tail(sink[s].queue)
                   /\ k.batch = Append(sink[s].batch, Head(sink[s].queue))
           /\ Pause(s) =>
                \E k \in Sinks :
                   /\ Swaps(s, k) /\ k.at # "none" /\ sink[s].at # "none"
                   /\ k.queue = sink[s].queue
                   /\ \/ k.batch = sink[s].batch /\ fate' = fate
                      \/ k.batch = << >> /\ GivenUp(LinesOf(sink[s].batch), "lost")
           /\ Send(s) \/ SendFails(s) =>
                \E k \in Sinks :
                   /\ Swaps(s, k) /\ k.at # "none" /\ sink[s].at # "none"
                   /\ k.queue = sink[s].queue /\ k.batch = << >>
           /\ SinkEnds(s) => Swaps(s, NoSink)
<1>0. sink[s] \in Sinks
  BY DEF Typed
<1>1. ASSUME Take(s)
      PROVE  \E k \in Sinks :
                   /\ Swaps(s, k) /\ k.at # "none" /\ sink[s].at # "none"
                   /\ sink[s].queue # << >> /\ k.queue = Tail(sink[s].queue)
                   /\ k.batch = Append(sink[s].batch, Head(sink[s].queue))
  <2>1. PICK k \in Sinks :
              /\ SetSink(s, k) /\ k.at = "gather"
              /\ sink[s].at # "none" /\ sink[s].queue # << >>
              /\ k.queue = Tail(sink[s].queue)
              /\ k.batch = Append(sink[s].batch, Head(sink[s].queue))
    BY <1>1, TakeFacts
  <2> QED
    BY <2>1, OneSink DEF Swaps
<1>2. ASSUME Pause(s)
      PROVE  \E k \in Sinks :
                   /\ Swaps(s, k) /\ k.at # "none" /\ sink[s].at # "none"
                   /\ k.queue = sink[s].queue
                   /\ \/ k.batch = sink[s].batch /\ fate' = fate
                      \/ k.batch = << >> /\ GivenUp(LinesOf(sink[s].batch), "lost")
  <2> DEFINE k == [sink[s] EXCEPT !.at = "endless"]
             d == [sink[s] EXCEPT !.at = "dead", !.batch = << >>]
  <2>1. /\ sink[s].at = "gather"
        /\ \/ SetSink(s, k) /\ fate' = fate
           \/ SetSink(s, d) /\ GivenUp(LinesOf(sink[s].batch), "lost")
    BY <1>2 DEF Pause
  <2>2. k \in Sinks /\ k.at = "endless" /\ k.queue = sink[s].queue /\ k.batch = sink[s].batch
    BY <1>0 DEF Sinks
  <2>3. d \in Sinks /\ d.at = "dead" /\ d.queue = sink[s].queue /\ d.batch = << >>
    <3>1. << >> \in Seq(Entry)
      OBVIOUS
    <3> QED
      BY <1>0, <3>1 DEF Sinks
  <2> HIDE DEF k, d
  <2> QED
    BY <2>1, <2>2, <2>3, OneSink DEF Swaps
<1>3. ASSUME Send(s) \/ SendFails(s)
      PROVE  \E k \in Sinks :
                   /\ Swaps(s, k) /\ k.at # "none" /\ sink[s].at # "none"
                   /\ k.queue = sink[s].queue /\ k.batch = << >>
  <2> DEFINE k == [sink[s] EXCEPT !.at = "idle", !.batch = << >>]
  <2>1. sink[s].at = "gather" /\ SetSink(s, k)
    BY <1>3 DEF Send, SendFails, AfterSend
  <2>2. k \in Sinks /\ k.at = "idle" /\ k.queue = sink[s].queue /\ k.batch = << >>
    <3>1. << >> \in Seq(Entry)
      OBVIOUS
    <3> QED
      BY <1>0, <3>1 DEF Sinks
  <2> HIDE DEF k
  <2> QED
    BY <2>1, <2>2, OneSink DEF Swaps
<1>4. SinkEnds(s) => Swaps(s, NoSink)
  BY Nothing, OneSink DEF SinkEnds, Swaps
<1> QED
  BY <1>1, <1>2, <1>3, <1>4

\* What Add changes: the first entry leaves the tailer for the channel of its sink.
AddsAs(s, t, k) ==
    /\ Becomes(s, t) /\ t.at = "add" /\ t.tracked = tail[s].tracked
    /\ t.pending = tail[s].pending /\ t.cancelled = tail[s].cancelled
    /\ tail[s].todo # << >> /\ t.todo = Tail(tail[s].todo)
    /\ Swaps(s, k) /\ k.at = sink[s].at /\ k.batch = sink[s].batch
    /\ k.queue = Append(sink[s].queue, Head(tail[s].todo))

\* Add is such a step.
LEMMA AddFacts ==
    ASSUME Typed, NEW s \in Slots, Add(s)
    PROVE  \E t \in Tails, k \in Sinks : AddsAs(s, t, k)
<1>0. /\ tail[s].todo \in Seq(Entry) /\ tail[s].todo # << >>
      /\ sink[s].queue \in Seq(Entry) /\ sink[s] \in Sinks
      /\ sink \in [Slots -> Sinks]
  BY Values DEF Add, Typed
<1>1. PICK t \in Tails :
         /\ Becomes(s, t) /\ t.at = "add" /\ t.tracked = tail[s].tracked
         /\ t.pending = tail[s].pending /\ t.todo = Tail(tail[s].todo)
         /\ t.cancelled = tail[s].cancelled
  BY QuietFacts
<1> DEFINE q == Append(sink[s].queue, Head(tail[s].todo))
           k == [sink[s] EXCEPT !.queue = q]
<1>2. q \in Seq(Entry)
  BY <1>0, HeadFacts, AppendFacts
<1>3. sink' = [sink EXCEPT ![s].queue = q]
  BY DEF Add
<1> HIDE DEF q
<1>4. k \in Sinks /\ k.at = sink[s].at /\ k.batch = sink[s].batch /\ k.queue = q
  BY <1>0, <1>2 DEF Sinks
<1>5. sink'[s] = k /\ \A r \in Slots : r # s => sink'[r] = sink[r]
  BY <1>0, <1>3
<1> HIDE DEF k
<1> QED
  BY <1>0, <1>1, <1>4, <1>5 DEF AddsAs, Swaps, q

\* The lines that a worker holds stay the same while they move from one part of it to
\* the next.
LEMMA MovesFacts ==
    ASSUME BasicInv, NEW s \in Slots, Add(s) \/ Take(s)
    PROVE  Held(s)' = Held(s)
<1>0. /\ Typed
      /\ tail[s].todo \in Seq(Entry) /\ sink[s].queue \in Seq(Entry) /\ sink[s].batch \in Seq(Entry)
  BY Values DEF BasicInv
<1>1. CASE Add(s)
  <2>1. PICK t \in Tails, k \in Sinks : AddsAs(s, t, k)
    BY <1>0, <1>1, AddFacts
  <2>2. /\ tail'[s].todo = Tail(tail[s].todo) /\ tail[s].todo # << >>
        /\ sink'[s].queue = Append(sink[s].queue, Head(tail[s].todo))
        /\ sink'[s].batch = sink[s].batch
    BY <2>1 DEF AddsAs, Becomes, Swaps
  <2>3. LinesOf(tail[s].todo) = EntryLines(Head(tail[s].todo)) \cup LinesOf(Tail(tail[s].todo))
    BY <1>0, <2>2, HeadFacts
  <2>4. LinesOf(sink'[s].queue) = LinesOf(sink[s].queue) \cup EntryLines(Head(tail[s].todo))
    BY <1>0, <2>2, HeadFacts, AppendFacts
  <2> QED
    BY <2>2, <2>3, <2>4 DEF Held
<1>2. CASE Take(s)
  <2>1. PICK k \in Sinks :
                   /\ Swaps(s, k) /\ sink[s].queue # << >> /\ k.queue = Tail(sink[s].queue)
                   /\ k.batch = Append(sink[s].batch, Head(sink[s].queue))
    BY <1>0, <1>2, SinkFacts
  <2>2. /\ sink'[s].queue = Tail(sink[s].queue)
        /\ sink'[s].batch = Append(sink[s].batch, Head(sink[s].queue))
        /\ tail'[s].todo = tail[s].todo
    BY <2>1, <1>2, TailersAlone DEF Swaps
  <2>3. LinesOf(sink[s].queue) = EntryLines(Head(sink[s].queue)) \cup LinesOf(Tail(sink[s].queue))
    BY <1>0, <2>1, HeadFacts
  <2>4. LinesOf(sink'[s].batch) = LinesOf(sink[s].batch) \cup EntryLines(Head(sink[s].queue))
    BY <1>0, <2>1, <2>2, HeadFacts, AppendFacts
  <2> QED
    BY <2>2, <2>3, <2>4 DEF Held
<1> QED
  BY <1>1, <1>2

\* The steps of the worker s.
Working(s) ==
    \/ ScanNothing(s) \/ Read(s) \/ Record(s) \/ Add(s) \/ Save(s) \/ TailEnds(s) \/ Edit(s)
    \/ Take(s) \/ Pause(s) \/ Send(s) \/ SendFails(s) \/ SinkEnds(s) \/ StartWorker(s)

\* They leave the other workers alone.
LEMMA OthersAlone ==
    ASSUME BasicInv, NEW s \in Slots, Working(s)
    PROVE  /\ \A r \in Slots : r # s => tail'[r] = tail[r] /\ sink'[r] = sink[r]
           /\ Idle
<1>0. Typed
  BY DEF BasicInv
<1>1. CASE ScanNothing(s) \/ Save(s) \/ Edit(s)
  <2>1. sink' = sink /\ Idle
    BY <1>1 DEF ScanNothing, Save, Edit, Idle, fileVars
  <2> QED
    BY <2>1, <1>0, <1>1, QuietFacts DEF Becomes
<1>2. CASE Read(s)
  <2>1. sink' = sink /\ Idle
    BY <1>2 DEF Read, Idle, fileVars
  <2>2. PICK start \in 0 .. Len(file), end \in 0 .. Len(file), old \in Seq(Parts), t \in Tails :
           ReadsAs(s, start, end, old, t)
    BY <1>2, ReadFacts
  <2> QED
    BY <2>1, <2>2, <1>0, OneTail DEF ReadsAs
<1>3. CASE Record(s)
  <2>1. sink' = sink /\ Idle
    BY <1>3 DEF Record, Idle, fileVars
  <2>2. PICK t \in Tails : SetTail(s, t)
    BY <1>3, RecordFacts
  <2> QED
    BY <2>1, <2>2, <1>0, OneTail
<1>4. CASE Add(s)
  <2>1. Idle
    BY <1>4 DEF Add, Idle, fileVars
  <2> QED
    BY <2>1, <1>0, <1>4, AddFacts DEF AddsAs, Becomes, Swaps
<1>5. CASE TailEnds(s)
  <2>1. sink' = sink /\ Idle /\ SetTail(s, NoTail)
    BY <1>5 DEF TailEnds, Idle, fileVars
  <2> QED
    BY <2>1, <1>0, Nothing, OneTail
<1>6. CASE Take(s) \/ Pause(s) \/ Send(s) \/ SendFails(s) \/ SinkEnds(s)
  <2>1. tail' = tail /\ Idle
    BY <1>6, TailersAlone
  <2> QED
    BY <2>1, <1>0, <1>6, SinkFacts DEF Swaps
<1>7. CASE StartWorker(s)
  <2>1. Idle /\ SetTail(s, [NoTail EXCEPT !.at = "scan"]) /\ SetSink(s, [NoSink EXCEPT !.at = "idle"])
    BY <1>7 DEF StartWorker, Idle, fileVars
  <2> QED
    BY <2>1, <1>0, Nothing, OneTail, OneSink
<1> QED
  BY <1>1, <1>2, <1>3, <1>4, <1>5, <1>6, <1>7 DEF Working

\* What the worker s holds after each of them.
LEMMA HeldFacts ==
    ASSUME BasicInv, NEW s \in Slots
    PROVE  /\ ScanNothing(s) \/ Read(s) \/ Add(s) \/ Save(s) \/ Edit(s) \/ Take(s) \/ StartWorker(s)
                => Held(s)' = Held(s)
           /\ Record(s) => Held(s)' = Held(s) \cup EndLines(tail[s].pending)
           /\ TailEnds(s) => Held(s)' = LinesOf(sink[s].queue) \cup LinesOf(sink[s].batch)
           /\ Pause(s) =>
                \/ Held(s)' = Held(s) /\ fate' = fate
                \/ /\ Held(s)' = LinesOf(tail[s].todo) \cup LinesOf(sink[s].queue)
                   /\ GivenUp(LinesOf(sink[s].batch), "lost")
           /\ Send(s) \/ SendFails(s) =>
                Held(s)' = LinesOf(tail[s].todo) \cup LinesOf(sink[s].queue)
           /\ SinkEnds(s) => Held(s)' = LinesOf(tail[s].todo)
<1>0. Typed /\ tail[s].todo \in Seq(Entry) /\ tail[s].pending \in Seq(Parts) /\ TailOK(s) /\ SinkKept(s)
  BY Values DEF BasicInv
<1>1. ASSUME ScanNothing(s) \/ Save(s) \/ Edit(s) PROVE Held(s)' = Held(s)
  <2>1. sink' = sink
    BY <1>1 DEF ScanNothing, Save, Edit
  <2>2. tail'[s].todo = tail[s].todo
    BY <1>0, <1>1, QuietFacts DEF Becomes
  <2> QED
    BY <2>1, <2>2 DEF Held
<1>2. ASSUME Read(s) PROVE Held(s)' = Held(s)
  <2>1. sink' = sink
    BY <1>2 DEF Read
  <2>2. PICK start \in 0 .. Len(file), end \in 0 .. Len(file), old \in Seq(Parts), t \in Tails :
           ReadsAs(s, start, end, old, t)
    BY <1>2, ReadFacts
  <2>3. tail'[s].todo = tail[s].todo
    BY <2>2, <1>0, OneTail DEF ReadsAs
  <2> QED
    BY <2>1, <2>3 DEF Held
<1>3. ASSUME Record(s) PROVE Held(s)' = Held(s) \cup EndLines(tail[s].pending)
  <2>1. sink' = sink /\ tail[s].at = "record"
    BY <1>3 DEF Record
  <2>2. PICK t \in Tails : SetTail(s, t) /\ LinesOf(t.todo) = EndLines(tail[s].pending)
    BY <1>3, RecordFacts
  <2>3. tail'[s] = t
    BY <2>2, <1>0, OneTail
  <2>4. tail[s].todo = << >>
    BY <1>0, <2>1 DEF TailOK
  <2> QED
    BY <2>1, <2>2, <2>3, <2>4, NoEntries DEF Held
<1>4. ASSUME TailEnds(s)
      PROVE  Held(s)' = LinesOf(sink[s].queue) \cup LinesOf(sink[s].batch)
  <2>1. sink' = sink /\ SetTail(s, NoTail)
    BY <1>4 DEF TailEnds
  <2>2. tail'[s] = NoTail /\ NoTail.todo = << >>
    BY <2>1, <1>0, Nothing, OneTail DEF NoTail
  <2> QED
    BY <2>1, <2>2, NoEntries DEF Held
<1>5. ASSUME Pause(s)
      PROVE  \/ Held(s)' = Held(s) /\ fate' = fate
             \/ /\ Held(s)' = LinesOf(tail[s].todo) \cup LinesOf(sink[s].queue)
                /\ GivenUp(LinesOf(sink[s].batch), "lost")
  <2>1. tail' = tail
    BY <1>5, TailersAlone
  <2>2. PICK k \in Sinks :
           /\ Swaps(s, k) /\ k.queue = sink[s].queue
           /\ \/ k.batch = sink[s].batch /\ fate' = fate
              \/ k.batch = << >> /\ GivenUp(LinesOf(sink[s].batch), "lost")
    BY <1>0, <1>5, SinkFacts
  <2> QED
    BY <2>1, <2>2, NoEntries DEF Held, Swaps
<1>6. ASSUME Send(s) \/ SendFails(s)
      PROVE  Held(s)' = LinesOf(tail[s].todo) \cup LinesOf(sink[s].queue)
  <2>1. tail' = tail
    BY <1>6, TailersAlone
  <2>2. PICK k \in Sinks : Swaps(s, k) /\ k.queue = sink[s].queue /\ k.batch = << >>
    BY <1>0, <1>6, SinkFacts
  <2> QED
    BY <2>1, <2>2, NoEntries DEF Held, Swaps
<1>7. ASSUME SinkEnds(s) PROVE Held(s)' = LinesOf(tail[s].todo)
  <2>1. tail' = tail
    BY <1>7, TailersAlone
  <2>2. sink'[s].queue = << >> /\ sink'[s].batch = << >>
    BY <1>0, <1>7, SinkFacts DEF Swaps, NoSink
  <2> QED
    BY <2>1, <2>2, NoEntries DEF Held
<1>8. ASSUME StartWorker(s) PROVE Held(s)' = Held(s)
  <2>1. Free(s) /\ SetTail(s, [NoTail EXCEPT !.at = "scan"]) /\ SetSink(s, [NoSink EXCEPT !.at = "idle"])
    BY <1>8 DEF StartWorker
  <2>2. tail[s] = NoTail /\ sink[s] = NoSink
    BY <2>1, <1>0 DEF Free, TailOK, SinkKept
  <2>3. tail'[s].todo = << >> /\ sink'[s].queue = << >> /\ sink'[s].batch = << >>
    BY <2>1, <1>0, Nothing, OneTail, OneSink DEF NoTail, NoSink
  <2>4. tail[s].todo = << >> /\ sink[s].queue = << >> /\ sink[s].batch = << >>
    BY <2>2 DEF NoTail, NoSink
  <2> QED
    BY <2>3, <2>4 DEF Held
<1> QED
  BY <1>1, <1>2, <1>3, <1>4, <1>5, <1>6, <1>7, <1>8, MovesFacts

\* A worker that a step leaves alone holds what it did.
LEMMA HeldSame ==
    ASSUME NEW r \in Slots, tail'[r] = tail[r], sink'[r] = sink[r]
    PROVE  Held(r)' = Held(r)
BY DEF Held

\* A step of a worker, of the application or of the process.
LEMMA StepKinds ==
    ASSUME Next
    PROVE  Write \/ Rotate \/ Crash \/ Boot \/ \E s \in Slots : Working(s)
BY Steps DEF Working

\* The steps of the application, and a restart, leave the workers alone.
LEMMA WorkersAlone ==
    Write \/ Rotate \/ Boot => tail' = tail /\ sink' = sink /\ count' = count
BY DEF Write, Rotate, Boot, sentVars

\* What an ended process holds.
LEMMA NoWorkers ==
    ASSUME Crash
    PROVE  /\ \A s \in Slots : tail'[s] = NoTail /\ sink'[s] = NoSink /\ Held(s)' = {}
           /\ count' = count /\ recorded' = NoPosition /\ crashed' = TRUE /\ ~up' /\ Idle
<1>1. \A s \in Slots : tail'[s] = NoTail /\ sink'[s] = NoSink
  BY DEF Crash
<1>2. \A s \in Slots : Held(s)' = {}
  BY <1>1, NoEntries DEF Held, NoTail, NoSink
<1> QED
  BY <1>1, <1>2 DEF Crash, sentVars, Idle, fileVars

\* No step gives a worker lines, but Record those that waited in its tailer.
LEMMA HeldGrows ==
    ASSUME BasicInv, Next, NEW r \in Slots, NEW l, l \in Held(r)'
    PROVE  l \in Held(r) \/ (Record(r) /\ l \in EndLines(tail[r].pending))
<1>1. CASE Write \/ Rotate \/ Boot
  BY <1>1, WorkersAlone, HeldSame
<1>2. CASE Crash
  BY <1>2, NoWorkers
<1>3. ASSUME NEW s \in Slots, Working(s), s # r PROVE l \in Held(r)
  BY <1>3, OthersAlone, HeldSame
<1>4. CASE Working(r)
  BY <1>4, HeldFacts DEF Working, Held
<1> QED
  BY <1>1, <1>2, <1>3, <1>4, StepKinds

\* The lines that a worker has in hand wait in its tailer, or it holds them.
LEMMA InHandIs ==
    ASSUME BasicInv, NEW s \in Slots
    PROVE  InHand(s) = EndLines(tail[s].pending) \cup Held(s)
<1>1. tail[s].pending \in Seq(Parts)
  BY Values DEF BasicInv
<1>2. LinesOf(Entries(tail[s].pending)) = EndLines(tail[s].pending)
  BY <1>1, EntriesLines
<1> QED
  BY <1>2 DEF InHand, Held

\* What is in hand, and the file, hold lines that have been written to their end.
LEMMA HandWritten ==
    ASSUME BasicInv, NEW s \in Slots, NEW l \in InHand(s)
    PROVE  l \in Lines /\ 2 * l <= written
<1>1. CASE l \in Held(s)
  BY <1>1 DEF BasicInv, HeldOK
<1>2. CASE l \in EndLines(tail[s].pending)
  <2> DEFINE p == tail[s].pending
  <2>1. PICK i \in DOMAIN p : p[i][2] = 2 /\ p[i][1] = l
    BY <1>2 DEF EndLines
  <2>2. p \in Seq(Parts)
    BY Values DEF BasicInv
  <2>3. i \in 1 .. Len(p) /\ p[i] \in Parts
    BY <2>1, <2>2
  <2>4. Number(p[i]) <= written
    BY <2>3 DEF BasicInv, TailOK, PendingOK
  <2> QED
    BY <2>1, <2>3, <2>4, NextPart DEF Number, Lines
<1> QED
  BY <1>1, <1>2, InHandIs

\* Where the lines of the file end.
LEMMA FileEnds ==
    ASSUME BasicInv, file # Absent, NEW i \in 1 .. Len(file), file[i][2] = 2
    PROVE  /\ file[i] \in Parts /\ file[i][1] \in Lines /\ 2 * file[i][1] = Base + i
           /\ Base \in Nat /\ Base + Len(file) = written /\ Len(file) \in Nat /\ i \in Nat
<1>1. Typed /\ FileShape /\ file \in Seq(Parts) /\ Len(file) \in Nat /\ written \in Nat
  BY Values DEF BasicInv
<1>2. file[i] \in Parts /\ Number(file[i]) = Base + i
  BY <1>1 DEF FileShape
<1>3. Base \in Nat /\ Base + Len(file) = written
  BY <1>1 DEF FileShape, Base
<1> QED
  BY SMTT(90), <1>1, <1>2, <1>3, NextPart DEF Number, Lines

\* Lines are ingested by Send only.
LEMMA CountFacts ==
    ASSUME BasicInv, Next, NEW l \in Lines
    PROVE  /\ count'[l] = count[l]
              \/ \E s \in Slots : /\ Send(s) /\ l \in LinesOf(sink[s].batch)
                                  /\ count'[l] = IF count[l] = 0 THEN 1 ELSE 2
           /\ count[l] \in 0 .. 2 /\ count[l] > 0 => count'[l] > 0
<1>0. Typed /\ Typed' /\ count[l] \in 0 .. 2
  BY TypedStep DEF BasicInv, Typed
<1>1. CASE Write \/ Rotate \/ Boot \/ Crash
  BY <1>0, <1>1, WorkersAlone, NoWorkers
<1>2. ASSUME NEW s \in Slots, Working(s), ~Send(s) PROVE count' = count
  <2>1. CASE ScanNothing(s) \/ Read(s) \/ Record(s) \/ Add(s) \/ Save(s) \/ TailEnds(s) \/ Edit(s)
    BY <2>1 DEF ScanNothing, Read, Record, Add, Save, TailEnds, Edit, sentVars
  <2>2. CASE Take(s) \/ Pause(s) \/ SendFails(s) \/ SinkEnds(s) \/ StartWorker(s)
    BY <2>2 DEF Take, Pause, SendFails, SinkEnds, StartWorker, sentVars
  <2> QED
    BY <1>2, <2>1, <2>2 DEF Working
<1>3. ASSUME NEW s \in Slots, Send(s)
      PROVE  /\ count'[l] = count[l]
                \/ /\ l \in LinesOf(sink[s].batch)
                   /\ count'[l] = IF count[l] = 0 THEN 1 ELSE 2
             /\ count[l] > 0 => count'[l] > 0
  BY <1>0, <1>3 DEF Send, Ingested
<1> QED
  BY <1>0, <1>1, <1>2, <1>3, StepKinds

\* The first poll of a source that starts at the end gives up what is before it; other
\* lines are given up when they are in hand, or when the file that holds them goes.
LEMMA FateFacts ==
    ASSUME BasicInv, Next, NEW l \in Lines, fate'[l] # fate[l]
    PROVE  /\ fate[l] = "none" /\ count[l] = 0
           /\ \/ fate'[l] = "before" /\ \E s \in Slots : Read(s)
              \/ fate'[l] = "lost" /\ \E s \in Slots : l \in InHand(s)
              \/ fate'[l] = "lost" /\ Rotate /\ l \in Ahead(0)
<1>0. Typed
  BY DEF BasicInv
<1>a. ASSUME NEW L, NEW why \in {"before", "lost"}, GivenUp(L, why)
      PROVE  l \in L /\ count[l] = 0 /\ fate'[l] = why /\ fate[l] = "none"
  BY <1>0, <1>a, GivenFacts
<1>1. CASE Write \/ Boot
  BY <1>1 DEF Write, Boot
<1>2. CASE Rotate
  <2>1. GivenUp(Ahead(0) \ UNION {InHand(s) : s \in Slots}, "lost")
    BY <1>2 DEF Rotate
  <2> QED
    BY <2>1, <1>a, <1>2
<1>3. CASE Crash
  <2>1. GivenUp((UNION {InHand(s) : s \in Slots}) \ Ahead(saved.pos), "lost")
    BY <1>3 DEF Crash
  <2>2. l \in UNION {InHand(s) : s \in Slots} /\ count[l] = 0 /\ fate'[l] = "lost" /\ fate[l] = "none"
    BY <2>1, <1>a
  <2> QED
    BY <2>2
<1>4. ASSUME NEW s \in Slots, Read(s)
      PROVE  fate'[l] = "before" /\ fate[l] = "none" /\ count[l] = 0
  <2>1. PICK start \in 0 .. Len(file), end \in 0 .. Len(file), old \in Seq(Parts), t \in Tails :
           ReadsAs(s, start, end, old, t)
    BY <1>4, ReadFacts
  <2>2. GivenUp(IF FromEnd(s) THEN {file[i][1] : i \in 1 .. start} ELSE {}, "before")
    BY <2>1 DEF ReadsAs
  <2> QED
    BY <2>2, <1>a
<1>5. ASSUME NEW s \in Slots,
             Pause(s) \/ SendFails(s) \/ TailEnds(s) \/ SinkEnds(s)
      PROVE  l \in InHand(s) /\ fate'[l] = "lost" /\ fate[l] = "none" /\ count[l] = 0
  <2>1. PICK L \in SUBSET InHand(s) : GivenUp(L, "lost")
    <3>1. CASE Pause(s)
      <4>1. GivenUp(LinesOf(sink[s].batch), "lost")
        BY <3>1 DEF Pause
      <4> QED
        BY <4>1 DEF InHand
    <3>2. CASE SendFails(s)
      <4>1. GivenUp(LinesOf(sink[s].batch), "lost")
        BY <3>2 DEF SendFails
      <4> QED
        BY <4>1 DEF InHand
    <3>3. CASE TailEnds(s)
      <4>1. GivenUp(LinesOf(tail[s].todo), "lost")
        BY <3>3 DEF TailEnds
      <4> QED
        BY <4>1 DEF InHand
    <3>4. CASE SinkEnds(s)
      <4>1. GivenUp(LinesOf(sink[s].queue) \cup LinesOf(sink[s].batch), "lost")
        BY <3>4 DEF SinkEnds
      <4> QED
        BY <4>1 DEF InHand
    <3> QED
      BY <1>5, <3>1, <3>2, <3>3, <3>4
  <2> QED
    BY <2>1, <1>a
<1>6. ASSUME NEW s \in Slots,
             \/ ScanNothing(s) \/ Record(s) \/ Add(s) \/ Save(s) \/ Edit(s)
             \/ Take(s) \/ Send(s) \/ StartWorker(s)
      PROVE  FALSE
  BY <1>6 DEF ScanNothing, Record, Add, Save, Edit, Take, Send, StartWorker
<1> QED
  BY <1>1, <1>2, <1>3, <1>4, <1>5, <1>6, StepKinds DEF Working

\* Lines in hand, sent or lost stay written.
LEMMA HeldStep == BasicInv /\ Next => HeldOK'
<1> SUFFICES ASSUME BasicInv, Next PROVE HeldOK'
  OBVIOUS
<1>0. Typed /\ HeldOK /\ written \in Nat
  BY Values DEF BasicInv
<1>1. written' \in Nat /\ written <= written'
  BY <1>0, OthersIdle, WriteFacts, RotateFacts DEF Idle, BasicInv
<1>2. ASSUME NEW s \in Slots, NEW l \in Held(s)' PROVE l \in Lines /\ 2 * l <= written'
  <2>1. l \in InHand(s)
    BY <1>2, HeldGrows, InHandIs
  <2>2. l \in Lines /\ 2 * l <= written
    BY <2>1, HandWritten
  <2>3. l \in Nat
    BY <2>2 DEF Lines
  <2> QED
    BY <2>2, <2>3, <1>0, <1>1
<1>3. ASSUME NEW l \in Lines, count'[l] > 0 \/ fate'[l] = "lost" PROVE 2 * l <= written'
  <2>1. 2 * l <= written
    <3>1. CASE count[l] > 0 \/ fate[l] = "lost"
      BY <3>1, <1>0 DEF HeldOK
    <3>2. CASE \E s \in Slots : l \in InHand(s)
      BY <3>2, HandWritten
    <3>3. CASE Rotate /\ l \in Ahead(0)
      <4>1. file # Absent /\ file \in Seq(Parts) /\ DOMAIN file = 1 .. Len(file)
        BY <3>3, <1>0, Values DEF Rotate
      <4>2. PICK i \in 1 .. Len(file) : file[i][2] = 2 /\ file[i][1] = l
        BY <3>3, <4>1 DEF Ahead
      <4>3. 2 * l = Base + i /\ Base \in Nat /\ Base + Len(file) = written /\ Len(file) \in Nat
        BY <4>1, <4>2, FileEnds
      <4> QED
        BY <4>3
    <3>4. ASSUME NEW s \in Slots, l \in LinesOf(sink[s].batch) PROVE l \in InHand(s)
      BY <3>4 DEF InHand
    <3> QED
      BY <1>3, <3>1, <3>2, <3>3, <3>4, CountFacts, FateFacts
  <2>2. l \in Nat
    BY DEF Lines
  <2> QED
    BY <2>1, <2>2, <1>0, <1>1
<1> QED
  BY <1>2, <1>3 DEF HeldOK

\* A worker goes on only if it did, or starts.
LEMMA LiveFacts ==
    ASSUME BasicInv, Next, NEW s \in Slots, Live(s)'
    PROVE  StartWorker(s) \/ (Live(s) /\ ~Edit(s) /\ ~TailEnds(s) /\ ~SinkEnds(s))
<1>0. Typed
  BY DEF BasicInv
<1>1. CASE tail'[s] = tail[s]
  <2>1. Live(s)
    BY <1>1 DEF Live, Goes
  <2>2. ~Edit(s) /\ ~TailEnds(s)
    <3>1. Edit(s) => tail'[s].cancelled
      BY <1>0, QuietFacts DEF Becomes
    <3>2. TailEnds(s) => ~Goes(s)
      BY DEF TailEnds
    <3> QED
      BY <3>1, <3>2, <2>1, <1>1 DEF Live, Goes
  <2>3. ~SinkEnds(s)
    BY <2>1 DEF SinkEnds, Cancelled, Live, Goes
  <2> QED
    BY <2>1, <2>2, <2>3
<1>2. CASE Write \/ Rotate \/ Boot
  BY <1>1, <1>2, WorkersAlone
<1>3. CASE Crash
  BY <1>3, NoWorkers DEF Live, NoTail
<1>4. ASSUME NEW r \in Slots, Working(r), r # s PROVE tail'[s] = tail[s]
  BY <1>4, OthersAlone
<1>5. CASE Take(s) \/ Pause(s) \/ Send(s) \/ SendFails(s) \/ SinkEnds(s)
  BY <1>1, <1>5, TailersAlone
<1>6. CASE ScanNothing(s) \/ Add(s) \/ Save(s)
  <2>1. tail'[s].cancelled = tail[s].cancelled
    BY <1>6, <1>0, QuietFacts DEF Becomes
  <2>2. tail[s].at # "none" /\ ~SinkEnds(s)
    BY <1>6, <2>1 DEF ScanNothing, Add, Save, SinkEnds, Cancelled, Live, Goes
  <2>3. ~Edit(s)
    <3>1. Edit(s) => tail'[s].cancelled
      BY <1>0, QuietFacts DEF Becomes
    <3> QED
      BY <3>1 DEF Live, Goes
  <2>4. ~TailEnds(s)
    BY <2>1 DEF TailEnds, Live, Goes
  <2> QED
    BY <2>1, <2>2, <2>3, <2>4 DEF Live, Goes
<1>7. CASE Read(s)
  <2>1. PICK start \in 0 .. Len(file), end \in 0 .. Len(file), old \in Seq(Parts), t \in Tails :
           ReadsAs(s, start, end, old, t)
    BY <1>7, ReadFacts
  <2>2. tail'[s].cancelled = tail[s].cancelled /\ tail[s].at = "scan" /\ Goes(s)
    BY <2>1, <1>0, <1>7, OneTail DEF ReadsAs, Read
  <2>3. ~Edit(s) /\ ~TailEnds(s) /\ ~SinkEnds(s)
    <3>1. Edit(s) => tail'[s].cancelled
      BY <1>0, QuietFacts DEF Becomes
    <3> QED
      BY <3>1, <2>2 DEF Live, Goes, TailEnds, SinkEnds, Cancelled
  <2> QED
    BY <2>2, <2>3 DEF Live, Goes
<1>8. CASE Record(s)
  <2>1. PICK t \in Tails : SetTail(s, t) /\ t.cancelled = tail[s].cancelled
    BY <1>8, RecordFacts
  <2>2. tail'[s].cancelled = tail[s].cancelled /\ tail[s].at = "record"
    BY <2>1, <1>0, <1>8, OneTail DEF Record
  <2>3. ~Edit(s) /\ ~TailEnds(s) /\ ~SinkEnds(s)
    <3>1. Edit(s) => tail'[s].cancelled
      BY <1>0, QuietFacts DEF Becomes
    <3> QED
      BY <3>1, <2>2 DEF Live, Goes, TailEnds, SinkEnds, Cancelled
  <2> QED
    BY <2>2, <2>3 DEF Live, Goes
<1>9. CASE TailEnds(s)
  <2>1. SetTail(s, NoTail)
    BY <1>9 DEF TailEnds
  <2>2. tail'[s] = NoTail
    BY <2>1, <1>0, Nothing, OneTail
  <2> QED
    BY <2>2 DEF Live, NoTail
<1>10. CASE Edit(s)
  <2>1. tail'[s].cancelled
    BY <1>10, <1>0, QuietFacts DEF Becomes
  <2> QED
    BY <2>1 DEF Live, Goes
<1> QED
  BY <1>1, <1>2, <1>3, <1>4, <1>5, <1>6, <1>7, <1>8, <1>9, <1>10, StepKinds DEF Working

\* A sink that has ended holds nothing, and its worker does not go on.
LEMMA SinksStep == BasicInv /\ Next => \A s \in Slots : SinkKept(s)'
<1> SUFFICES ASSUME BasicInv, Next, NEW s \in Slots, sink'[s].at = "none"
             PROVE  sink'[s] = NoSink /\ ~Live(s)'
  BY DEF SinkKept
<1>0. Typed /\ SinkKept(s) /\ sink[s] \in Sinks
  BY Values DEF BasicInv
<1>1. CASE sink'[s] = sink[s] /\ ~StartWorker(s)
  BY <1>0, <1>1, LiveFacts DEF SinkKept
<1>2. ASSUME StartWorker(s) PROVE FALSE
  <2>1. SetSink(s, [NoSink EXCEPT !.at = "idle"])
    BY <1>2 DEF StartWorker
  <2>2. sink'[s].at = "idle"
    BY <2>1, <1>0, Nothing, OneSink DEF NoSink
  <2> QED
    BY <2>2
<1>3. CASE SinkEnds(s)
  <2>1. sink'[s] = NoSink
    BY <1>0, <1>3, SinkFacts DEF Swaps
  <2> QED
    BY <2>1, <1>2, <1>3, LiveFacts
<1>4. CASE Crash
  BY <1>4, NoWorkers DEF Live, NoTail
<1>5. ASSUME Take(s) \/ Pause(s) \/ Send(s) \/ SendFails(s) PROVE FALSE
  BY <1>0, <1>5, SinkFacts DEF Swaps
<1>6. CASE Add(s)
  <2>1. PICK t \in Tails, k \in Sinks : AddsAs(s, t, k)
    BY <1>0, <1>6, AddFacts
  <2>2. sink[s].at = "none" /\ Live(s)
    BY <2>1, <1>6 DEF AddsAs, Swaps, Add, Live, Goes
  <2> QED
    BY <2>2, <1>0 DEF SinkKept
<1>7. ASSUME ScanNothing(s) \/ Read(s) \/ Record(s) \/ Save(s) \/ TailEnds(s) \/ Edit(s)
      PROVE  sink' = sink
  BY <1>7 DEF ScanNothing, Read, Record, Save, TailEnds, Edit
<1>8. CASE Write \/ Rotate \/ Boot
  BY <1>8, <1>1, <1>2, WorkersAlone
<1>9. ASSUME NEW r \in Slots, Working(r), r # s PROVE sink'[s] = sink[s]
  BY <1>9, OthersAlone
<1> QED
  BY <1>1, <1>2, <1>3, <1>4, <1>5, <1>6, <1>7, <1>8, <1>9, StepKinds DEF Working

\* The start.
LEMMA BasicInit == Init => BasicInv
<1> SUFFICES ASSUME Init PROVE BasicInv
  OBVIOUS
<1>1. Typed
  BY TypedInit
<1>2. /\ file = Absent /\ epoch = 1 /\ written = 0 /\ recorded = NoPosition
      /\ saved = NoPosition /\ up /\ tail = [s \in Slots |-> NoTail]
      /\ sink = [s \in Slots |-> NoSink] /\ count = [l \in Lines |-> 0]
      /\ fate = [l \in Lines |-> "none"]
  BY DEF Init
<1>3. FileShape
  BY <1>2 DEF FileShape
<1>4. PlaceOK(NoPosition) /\ PlaceOK(NoTail)
  BY <1>2 DEF PlaceOK, NoPosition, NoTail
<1>5. PendingOK(NoTail)
  BY DEF PendingOK, NoTail, Distinct
<1>6. ASSUME NEW s \in Slots
      PROVE  tail[s] = NoTail /\ sink[s] = NoSink /\ TailOK(s) /\ SinkKept(s) /\ Held(s) = {}
  <2>1. tail[s] = NoTail /\ sink[s] = NoSink
    BY <1>2
  <2>2. TailOK(s)
    BY <2>1, <1>4, <1>5 DEF TailOK, NoTail
  <2>3. SinkKept(s)
    BY <2>1 DEF SinkKept, Live, NoTail
  <2>4. Held(s) = {}
    BY <2>1, NoEntries DEF Held, NoTail, NoSink
  <2> QED
    BY <2>1, <2>2, <2>3, <2>4
<1>7. HeldOK
  BY <1>2, <1>6 DEF HeldOK
<1> QED
  BY <1>1, <1>2, <1>3, <1>4, <1>6, <1>7 DEF BasicInv

\* The invariant is kept.
LEMMA BasicStep == BasicInv /\ [Next]_vars => BasicInv'
<1> SUFFICES ASSUME BasicInv, [Next]_vars PROVE BasicInv'
  OBVIOUS
<1>1. CASE Next
  BY <1>1, TypedStep, ShapeStep, TailsStep, PlacesStep, SinksStep, HeldStep DEF BasicInv
<1>2. CASE UNCHANGED vars
  <2>1. /\ UNCHANGED <<file, epoch, written, startAtEnd, up, recorded, dirty, saved>>
        /\ UNCHANGED <<tail, sink, count, broken, fate, missed, late, crashed, paused, troubles>>
    BY <1>2 DEF vars, fileVars, placeVars, sentVars, pastVars
  <2>2. Typed' /\ FileShape'
    BY <2>1 DEF BasicInv, Typed, FileShape, Base
  <2>3. /\ PlaceOK(recorded)' /\ (recorded.epoch = 0 => recorded = NoPosition)'
        /\ PlaceOK(saved)' /\ (saved.epoch = 0 => saved = NoPosition)' /\ (~up => crashed)'
    BY <2>1 DEF BasicInv, PlaceOK
  <2>4. ASSUME NEW s \in Slots PROVE TailOK(s)' /\ SinkKept(s)' /\ Held(s)' = Held(s)
    <3>1. TailOK(s)'
      BY <2>1, SameTail DEF BasicInv, Idle
    <3>2. SinkKept(s)'
      BY <2>1 DEF BasicInv, SinkKept, Live, Goes
    <3> QED
      BY <3>1, <3>2, <2>1, HeldSame
  <2>5. HeldOK'
    BY <2>1, <2>4 DEF BasicInv, HeldOK
  <2> QED
    BY <2>2, <2>3, <2>4, <2>5 DEF BasicInv
<1> QED
  BY <1>1, <1>2

\* Whatever the interleaving of the application, the workers, the edits and the ends of
\* the process, each part of the state keeps its values: the channel and the batch of a
\* sink stay within their limits, a sink has a batch exactly when it waits to send it,
\* and no position leaves the range of the parts written.
THEOREM FileSourceTypes == Spec => []TypeOK
<1>1. BasicInv => TypeOK
  BY TypedIsTypeOK DEF BasicInv
<1> QED
  BY <1>1, BasicInit, BasicStep, PTL DEF Spec

-----------------------------------------------------------------------------
(* No line is ingested twice.                                              *)

\* What has left the file had, but for the lines that Record takes.
LEMMA TakenGrows ==
    ASSUME BasicInv, Next, NEW l \in Lines, Taken(l)'
    PROVE  Taken(l) \/ \E s \in Slots : Record(s) /\ l \in EndLines(tail[s].pending)
<1>1. CASE count'[l] > 0
  <2>1. CASE count'[l] = count[l]
    BY <1>1, <2>1 DEF Taken
  <2>2. ASSUME NEW s \in Slots, l \in LinesOf(sink[s].batch) PROVE Taken(l)
    BY <2>2 DEF Taken, Held
  <2> QED
    BY <2>1, <2>2, CountFacts
<1>2. ASSUME NEW s \in Slots, l \in Held(s)'
      PROVE  Taken(l) \/ (Record(s) /\ l \in EndLines(tail[s].pending))
  BY <1>2, HeldGrows DEF Taken
<1> QED
  BY <1>1, <1>2 DEF Taken

\* What waits in a tailer are lines.
LEMMA PendingLines ==
    ASSUME BasicInv, NEW s \in Slots, NEW l \in EndLines(tail[s].pending)
    PROVE  /\ l \in Lines
           /\ \E i \in 1 .. Len(tail[s].pending) :
                /\ tail[s].pending[i] \in Parts /\ tail[s].pending[i][2] = 2
                /\ tail[s].pending[i][1] = l /\ Number(tail[s].pending[i]) = 2 * l
<1>1. tail[s].pending \in Seq(Parts)
  BY Values DEF BasicInv
<1>2. PICK i \in 1 .. Len(tail[s].pending) : tail[s].pending[i][2] = 2 /\ tail[s].pending[i][1] = l
  BY <1>1 DEF EndLines
<1>3. tail[s].pending[i] \in Parts
  BY <1>1
<1> QED
  BY <1>2, <1>3, NextPart DEF Lines, Number

\* The entries of one worker stay in one place each.
LEMMA OnePlaceStep ==
    ASSUME BasicInv, NEW s \in Slots, InOnePlace(s), Working(s),
           Record(s) => \A l \in EndLines(tail[s].pending) : l \notin Held(s)
    PROVE  InOnePlace(s)'
<1>0. /\ Typed /\ tail[s].todo \in Seq(Entry) /\ sink[s].queue \in Seq(Entry)
      /\ sink[s].batch \in Seq(Entry) /\ tail[s].pending \in Seq(Parts)
      /\ TailOK(s) /\ SinkKept(s)
  BY Values DEF BasicInv
<1>a. /\ Separate(tail[s].todo) /\ Separate(sink[s].queue)
      /\ LinesOf(tail[s].todo) \cap LinesOf(sink[s].queue) = {}
      /\ LinesOf(tail[s].todo) \cap LinesOf(sink[s].batch) = {}
      /\ LinesOf(sink[s].queue) \cap LinesOf(sink[s].batch) = {}
  BY DEF InOnePlace
<1>1. CASE ScanNothing(s) \/ Save(s) \/ Edit(s)
  <2>1. sink' = sink
    BY <1>1 DEF ScanNothing, Save, Edit
  <2>2. tail'[s].todo = tail[s].todo
    BY <1>0, <1>1, QuietFacts DEF Becomes
  <2> QED
    BY <2>1, <2>2, <1>a DEF InOnePlace
<1>2. CASE Read(s)
  <2>1. sink' = sink
    BY <1>2 DEF Read
  <2>2. PICK start \in 0 .. Len(file), end \in 0 .. Len(file), old \in Seq(Parts), t \in Tails :
           ReadsAs(s, start, end, old, t)
    BY <1>2, ReadFacts
  <2>3. tail'[s].todo = tail[s].todo
    BY <2>2, <1>0, OneTail DEF ReadsAs
  <2> QED
    BY <2>1, <2>3, <1>a DEF InOnePlace
<1>3. CASE Record(s)
  <2>1. sink' = sink
    BY <1>3 DEF Record
  <2>2. PICK t \in Tails : /\ SetTail(s, t) /\ t.todo = Entries(tail[s].pending)
                           /\ LinesOf(t.todo) = EndLines(tail[s].pending)
    BY <1>3, RecordFacts
  <2>3. tail'[s] = t
    BY <2>2, <1>0, OneTail
  <2>4. Distinct(tail[s].pending)
    BY <1>0 DEF TailOK, PendingOK
  <2>5. Separate(t.todo)
    BY <2>2, <2>4, <1>0, EntriesApart
  <2>6. \A l \in LinesOf(t.todo) : l \notin LinesOf(sink[s].queue) /\ l \notin LinesOf(sink[s].batch)
    BY <2>2, <1>3 DEF Held
  <2> QED
    BY <2>1, <2>3, <2>5, <2>6, <1>a DEF InOnePlace
<1>4. CASE Add(s)
  <2>1. PICK t \in Tails, k \in Sinks : AddsAs(s, t, k)
    BY <1>0, <1>4, AddFacts
  <2> DEFINE h == Head(tail[s].todo)
  <2>2. /\ tail'[s].todo = Tail(tail[s].todo) /\ tail[s].todo # << >>
        /\ sink'[s].queue = Append(sink[s].queue, h)
        /\ sink'[s].batch = sink[s].batch
    BY <2>1 DEF AddsAs, Becomes, Swaps
  <2>3. /\ h \in Entry
        /\ LinesOf(tail[s].todo) = EntryLines(h) \cup LinesOf(Tail(tail[s].todo))
        /\ Separate(Tail(tail[s].todo)) /\ EntryLines(h) \cap LinesOf(Tail(tail[s].todo)) = {}
    BY <1>0, <1>a, <2>2, HeadFacts
  <2> HIDE DEF h
  <2>4. EntryLines(h) \cap LinesOf(sink[s].queue) = {}
    BY <2>3, <1>a
  <2>5. /\ LinesOf(sink'[s].queue) = LinesOf(sink[s].queue) \cup EntryLines(h)
        /\ Separate(sink'[s].queue)
    BY <1>0, <1>a, <2>2, <2>3, <2>4, AppendFacts
  <2> QED
    BY <2>2, <2>3, <2>5, <1>a DEF InOnePlace
<1>5. CASE Take(s)
  <2>1. PICK k \in Sinks :
                   /\ Swaps(s, k) /\ sink[s].queue # << >> /\ k.queue = Tail(sink[s].queue)
                   /\ k.batch = Append(sink[s].batch, Head(sink[s].queue))
    BY <1>0, <1>5, SinkFacts
  <2> DEFINE h == Head(sink[s].queue)
  <2>2. /\ sink'[s].queue = Tail(sink[s].queue)
        /\ sink'[s].batch = Append(sink[s].batch, h)
        /\ tail'[s].todo = tail[s].todo
    BY <2>1, <1>5, TailersAlone DEF Swaps
  <2>3. /\ h \in Entry
        /\ LinesOf(sink[s].queue) = EntryLines(h) \cup LinesOf(Tail(sink[s].queue))
        /\ Separate(Tail(sink[s].queue)) /\ EntryLines(h) \cap LinesOf(Tail(sink[s].queue)) = {}
    BY <1>0, <1>a, <2>1, HeadFacts
  <2> HIDE DEF h
  <2>4. LinesOf(sink'[s].batch) = LinesOf(sink[s].batch) \cup EntryLines(h)
    BY <1>0, <2>2, <2>3, AppendFacts
  <2> QED
    BY <2>2, <2>3, <2>4, <1>a DEF InOnePlace
<1>6. CASE TailEnds(s)
  <2>1. sink' = sink /\ SetTail(s, NoTail)
    BY <1>6 DEF TailEnds
  <2>2. tail'[s].todo = << >>
    BY <2>1, <1>0, Nothing, OneTail DEF NoTail
  <2> QED
    BY <2>1, <2>2, <1>a, NoEntries DEF InOnePlace
<1>7. CASE Pause(s) \/ Send(s) \/ SendFails(s)
  <2>1. tail' = tail
    BY <1>7, TailersAlone
  <2>2. PICK k \in Sinks : /\ Swaps(s, k) /\ k.queue = sink[s].queue
                           /\ k.batch = sink[s].batch \/ k.batch = << >>
    BY <1>0, <1>7, SinkFacts
  <2> QED
    BY <2>1, <2>2, <1>a, NoEntries DEF InOnePlace, Swaps
<1>8. CASE SinkEnds(s)
  <2>1. tail' = tail
    BY <1>8, TailersAlone
  <2>2. sink'[s].queue = << >> /\ sink'[s].batch = << >>
    BY <1>0, <1>8, SinkFacts DEF Swaps, NoSink
  <2> QED
    BY <2>1, <2>2, <1>a, NoEntries DEF InOnePlace
<1>9. CASE StartWorker(s)
  <2>1. SetTail(s, [NoTail EXCEPT !.at = "scan"]) /\ SetSink(s, [NoSink EXCEPT !.at = "idle"])
    BY <1>9 DEF StartWorker
  <2>2. tail'[s].todo = << >> /\ sink'[s].queue = << >> /\ sink'[s].batch = << >>
    BY <2>1, <1>0, Nothing, OneTail, OneSink DEF NoTail, NoSink
  <2> QED
    BY <2>2, NoEntries DEF InOnePlace
<1> QED
  BY <1>1, <1>2, <1>3, <1>4, <1>5, <1>6, <1>7, <1>8, <1>9 DEF Working

\* What a read takes lies beyond the recorded position.
LEMMA ReadBeyond ==
    ASSUME BasicInv, NEW s \in Slots, Read(s), LiveOK(s), Behind
    PROVE  /\ tail'[s].epoch = epoch /\ tail'[s].tracked
           /\ Frontier <= tail'[s].pos - Len(tail'[s].pending)
           /\ \A l \in EndLines(tail'[s].pending) : ~Taken(l)
<1>0. Typed /\ FileShape /\ TailOK(s) /\ epoch \in Nat
      /\ tail[s].pos \in Nat /\ tail[s].epoch \in Nat /\ recorded.pos \in Nat /\ recorded.epoch \in Nat
      /\ tail[s].pending \in Seq(Parts) /\ Len(tail[s].pending) \in Nat
      /\ PlaceOK(tail[s]) /\ PlaceOK(recorded) /\ PendingOK(tail[s])
  BY Values DEF BasicInv, TailOK
<1>1. tail[s].at = "scan" /\ Live(s) /\ file # Absent
  BY DEF Read, Live
<1>2. PICK start \in 0 .. Len(file), end \in 0 .. Len(file), old \in Seq(Parts), t \in Tails :
         ReadsAs(s, start, end, old, t)
  BY ReadFacts
<1>3. /\ start <= end /\ SetTail(s, t)
      /\ t.tracked = TRUE /\ t.pos = end /\ t.epoch = epoch
      /\ t.pending = old \o SubSeq(file, start + 1, end)
      /\ old = << >> \/ (old = tail[s].pending /\ start = tail[s].pos)
  BY <1>2 DEF ReadsAs
<1>4. tail'[s] = t
  BY <1>0, <1>3, OneTail
<1> DEFINE q == old \o SubSeq(file, start + 1, end)
<1>5. /\ q \in Seq(Parts) /\ Len(q) = Len(old) + (end - start)
      /\ \A i \in 1 .. Len(old) : q[i] = old[i]
      /\ \A i \in 1 .. Len(q) :
           i > Len(old) => Number(q[i]) = Base + end - Len(q) + i
  BY SMTT(90), <1>1, <1>3, Added
<1> HIDE DEF q
<1>6. t.pending = q
  BY <1>3 DEF q
<1>7. /\ Len(old) \in Nat /\ Len(old) <= start
      /\ \A i \in 1 .. Len(old) : old[i][2] = 1
  BY SMTT(90), <1>0, <1>1, <1>3 DEF PendingOK
<1>8. Len(file) \in Nat /\ Base \in Nat
  BY SMTT(90), <1>0, <1>1, Values DEF FileShape, Base
<1>9. Frontier <= start - Len(old)
  <2>1. CASE recorded.epoch # epoch
    BY <2>1, <1>7, <1>8 DEF Frontier
  <2>2. CASE recorded.epoch = epoch
    <3>1. Frontier = recorded.pos
      BY <2>2 DEF Frontier
    <3>2. CASE tail[s].tracked
      <4>1. recorded.epoch <= tail[s].epoch /\ tail[s].epoch <= epoch
        BY <3>2, <1>1, <1>0 DEF LiveOK, PlaceOK
      <4>2. tail[s].epoch = epoch
        BY <4>1, <2>2, <1>0
      <4>3. recorded.pos <= tail[s].pos - Len(tail[s].pending)
        BY <4>2, <2>2, <3>2, <1>1 DEF LiveOK
      <4>4. start = tail[s].pos /\ old = tail[s].pending
        BY <4>2, <3>2, <1>2 DEF ReadsAs
      <4> QED
        BY <3>1, <4>3, <4>4
    <3>3. CASE ~tail[s].tracked
      <4>1. start = recorded.pos /\ old = << >>
        BY <3>3, <2>2, <1>2 DEF ReadsAs
      <4> QED
        BY <3>1, <4>1, <1>0
    <3> QED
      BY <3>2, <3>3
  <2> QED
    BY <2>1, <2>2
<1>10. Frontier <= end - Len(q) /\ Frontier \in Nat /\ Len(q) \in Nat /\ end \in Nat
  <2>1. Frontier \in Nat
    BY <1>0 DEF Frontier
  <2> QED
    BY <2>1, <1>3, <1>5, <1>7, <1>8, <1>9
<1>11. ASSUME NEW l \in EndLines(q) PROVE ~Taken(l)
  <2>1. PICK i \in 1 .. Len(q) : q[i][2] = 2 /\ q[i][1] = l
    BY <1>5, <1>11 DEF EndLines
  <2>2. q[i] \in Parts
    BY <1>5, <2>1
  <2>3. l \in Lines /\ Number(q[i]) = 2 * l
    BY <2>1, <2>2, NextPart DEF Lines, Number
  <2>4. i > Len(old)
    <3>1. ~ (i \in 1 .. Len(old))
      BY <2>1, <1>5, <1>7
    <3> QED
      BY <3>1, <1>7
  <2>5. 2 * l = Base + end - Len(q) + i
    BY <2>3, <2>4, <1>5
  <2>6. ~ (2 * l <= Base + Frontier)
    BY <2>5, <1>8, <1>10
  <2> QED
    BY <2>3, <2>6, <1>1 DEF Behind
<1> QED
  BY <1>3, <1>4, <1>6, <1>10, <1>11

\* What Record takes lies before the position that it records, and beyond the one
\* that was recorded.
LEMMA RecordBeyond ==
    ASSUME BasicInv, NEW s \in Slots, Record(s), LiveOK(s), Live(s), file # Absent
    PROVE  /\ Frontier <= Frontier'
           /\ \A l \in EndLines(tail[s].pending) : 2 * l <= Base + Frontier'
<1>0. Typed /\ FileShape /\ PlaceOK(tail[s]) /\ PendingOK(tail[s]) /\ epoch \in Nat
      /\ tail[s].pos \in Nat /\ tail[s].epoch \in Nat /\ recorded.pos \in Nat /\ recorded.epoch \in Nat
      /\ tail[s].pending \in Seq(Parts) /\ Len(tail[s].pending) \in Nat
      /\ tail[s].at = "record" /\ epoch' = epoch
  BY Values DEF BasicInv, TailOK, Record, fileVars
<1> DEFINE p == tail[s].pending
           n == LastEnd(p)
<1>1. PICK t \in Tails :
         /\ n \in 0 .. Len(p) /\ Len(t.pending) = Len(p) - n
         /\ recorded'.pos = tail[s].pos - Len(t.pending) /\ recorded'.epoch = tail[s].epoch
  BY RecordFacts
<1>2. \A i \in 1 .. Len(p) : p[i][2] = 2 => i <= n
  BY <1>0, LastEndFacts
<1> HIDE DEF n
<1>3. tail[s].tracked /\ Len(p) <= tail[s].pos /\ tail[s].epoch <= epoch
  BY <1>0 DEF PendingOK, PlaceOK
<1>4. /\ recorded.epoch <= tail[s].epoch
      /\ recorded.epoch = tail[s].epoch => recorded.pos <= tail[s].pos - Len(p)
  BY <1>3 DEF LiveOK
<1>5. Base \in Nat
  BY <1>0, Values DEF FileShape, Base
<1>6. CASE tail[s].epoch = epoch
  <2>1. Frontier' = tail[s].pos - (Len(p) - n)
    BY <1>6, <1>0, <1>1 DEF Frontier
  <2>2. Frontier <= Frontier'
    BY SMTT(90), <2>1, <1>0, <1>1, <1>3, <1>4, <1>6 DEF Frontier
  <2>3. ASSUME NEW l \in EndLines(p) PROVE 2 * l <= Base + Frontier'
    <3>1. PICK i \in 1 .. Len(p) : p[i][2] = 2 /\ Number(p[i]) = 2 * l
      BY PendingLines
    <3>2. 2 * l = Base + tail[s].pos - Len(p) + i
      BY <3>1, <1>0, <1>6 DEF PendingOK
    <3>3. i <= n /\ i \in Nat /\ n \in Nat /\ Len(p) \in Nat /\ tail[s].pos \in Nat
      <4>1. i <= n
        BY <3>1, <1>2
      <4>2. Len(p) \in Nat /\ tail[s].pos \in Nat /\ i \in Nat
        BY <1>0
      <4>3. n \in Nat
        BY <4>2, <1>1
      <4> QED
        BY <4>1, <4>2, <4>3
    <3>4. \A a, b, c, d, e \in Nat : d <= e => a + b - c + d <= a + (b - (c - e))
      OBVIOUS
    <3>5. Base + tail[s].pos - Len(p) + i <= Base + (tail[s].pos - (Len(p) - n))
      BY <3>3, <3>4, <1>5
    <3> QED
      BY <3>2, <3>5, <2>1
  <2> QED
    BY <2>2, <2>3
<1>7. CASE tail[s].epoch # epoch
  <2>1. Frontier' = 0 /\ Frontier = 0
    BY <1>7, <1>0, <1>1, <1>3, <1>4 DEF Frontier
  <2>2. ASSUME NEW l \in EndLines(p) PROVE 2 * l <= Base + Frontier'
    <3>1. PICK i \in 1 .. Len(p) : p[i][2] = 2 /\ Number(p[i]) = 2 * l
      BY PendingLines
    <3>2. 2 * l <= Base
      BY <3>1, <1>0, <1>7 DEF PendingOK
    <3> QED
      BY <3>2, <2>1, <1>5
  <2> QED
    BY <2>1, <2>2
<1> QED
  BY <1>6, <1>7

\* The steps of a worker leave the recorded position alone, but for Record.
LEMMA PlaceAlone ==
    ASSUME NEW s \in Slots, Working(s), ~Record(s)
    PROVE  recorded' = recorded
<1>1. CASE ScanNothing(s) \/ Read(s) \/ Add(s) \/ Save(s) \/ TailEnds(s) \/ Edit(s)
  BY <1>1 DEF ScanNothing, Read, Add, Save, TailEnds, Edit, placeVars
<1>2. CASE Take(s) \/ Pause(s) \/ Send(s) \/ SendFails(s) \/ SinkEnds(s) \/ StartWorker(s)
  BY <1>2 DEF Take, Pause, Send, SendFails, SinkEnds, StartWorker, placeVars
<1> QED
  BY <1>1, <1>2 DEF Working

\* While the process runs, and no cancelled worker records.
LEMMA Unharmed ==
    ASSUME BasicInv, Next, ~crashed', ~late'
    PROVE  /\ ~crashed /\ ~late /\ ~Crash /\ ~Boot
           /\ \A s \in Slots : Record(s) => Goes(s)
<1>1. late /\ Next => late'
  <2>1. Write \/ Rotate \/ Crash \/ Boot => late' = late
    BY DEF Write, Rotate, Crash, Boot
  <2>2. ASSUME NEW s \in Slots, Working(s), late PROVE late'
    <3>1. CASE ScanNothing(s) \/ Read(s) \/ Record(s) \/ Add(s) \/ Save(s) \/ TailEnds(s) \/ Edit(s)
      BY <3>1, <2>2 DEF ScanNothing, Read, Record, Add, Save, TailEnds, Edit
    <3>2. CASE Take(s) \/ Pause(s) \/ Send(s) \/ SendFails(s) \/ SinkEnds(s) \/ StartWorker(s)
      BY <3>2, <2>2 DEF Take, Pause, Send, SendFails, SinkEnds, StartWorker
    <3> QED
      BY <2>2, <3>1, <3>2 DEF Working
  <2> QED
    BY <2>1, <2>2, StepKinds
<1>2. crashed /\ Next => crashed'
  <2>1. Write \/ Rotate \/ Crash \/ Boot => crashed' = crashed \/ crashed' = TRUE
    BY DEF Write, Rotate, Crash, Boot, pastVars
  <2>2. ASSUME NEW s \in Slots, Working(s) PROVE crashed' = crashed
    <3>1. CASE ScanNothing(s) \/ Read(s) \/ Record(s) \/ Add(s) \/ Save(s) \/ TailEnds(s) \/ Edit(s)
      BY <3>1 DEF ScanNothing, Read, Record, Add, Save, TailEnds, Edit, pastVars
    <3>2. CASE Take(s) \/ Pause(s) \/ Send(s) \/ SendFails(s) \/ SinkEnds(s) \/ StartWorker(s)
      BY <3>2 DEF Take, Pause, Send, SendFails, SinkEnds, StartWorker, pastVars
    <3> QED
      BY <2>2, <3>1, <3>2 DEF Working
  <2> QED
    BY <2>1, <2>2, StepKinds
<1>3. ~Crash
  BY NoWorkers
<1>4. ~Boot
  BY <1>2 DEF Boot, BasicInv
<1>5. \A s \in Slots : Record(s) => Goes(s)
  BY DEF Record
<1> QED
  BY <1>1, <1>2, <1>3, <1>4, <1>5

\* The application and the rotation take nothing from the file.
LEMMA OnceWorld ==
    ASSUME BasicInv, OnceNow, Write \/ Rotate
    PROVE  OnceNow'
<1>0. Typed /\ FileShape /\ HeldOK /\ written \in Nat
  BY Values DEF BasicInv
<1>1. tail' = tail /\ sink' = sink /\ count' = count /\ recorded' = recorded
  BY WorkersAlone DEF Write, Rotate, placeVars
<1>2. \A s \in Slots : Held(s)' = Held(s)
  BY <1>1, HeldSame
<1>3. \A l : Taken(l)' = Taken(l)
  BY <1>1, <1>2 DEF Taken
<1>4. CountedOnce' /\ Apart'
  BY <1>1, <1>2 DEF OnceNow, CountedOnce, Apart
<1>5. OneLive' /\ \A s \in Slots : InOnePlace(s)'
  BY <1>1 DEF OnceNow, OneLive, Live, Goes, InOnePlace
<1>6. \A s \in Slots : LiveOK(s)'
  BY <1>1, <1>3 DEF OnceNow, LiveOK, Live, Goes
<1>7. \A l \in Lines : Taken(l) => 2 * l <= written
  BY <1>0 DEF HeldOK, Taken
<1>8. recorded.pos \in Nat /\ Frontier' \in Nat
  <2>1. recorded.pos \in Nat
    BY <1>0, Values
  <2> QED
    BY <2>1, <1>1 DEF Frontier
<1>9. Behind'
  <2>1. CASE file = Absent \/ epoch' # epoch
    <3>1. file' # Absent => Base' = written
      BY <2>1, <1>0, WriteFacts, RotateFacts
    <3>2. ASSUME file' # Absent, NEW l \in Lines, Taken(l)' PROVE 2 * l <= Base' + Frontier'
      <4>1. 2 * l <= written /\ 2 * l \in Nat
        BY <3>2, <1>3, <1>7 DEF Lines
      <4>2. \A a, b, c \in Nat : a <= b => a <= b + c
        OBVIOUS
      <4>3. 2 * l <= written + Frontier'
        BY <4>1, <4>2, <1>0, <1>8
      <4> QED
        BY <4>3, <3>1, <3>2
    <3> QED
      BY <3>2 DEF Behind
  <2>2. CASE file # Absent /\ epoch' = epoch
    <3>1. Base' = Base
      BY <2>2, <1>0, WriteFacts, RotateFacts, Values
    <3>2. Frontier' = Frontier
      BY <2>2, <1>1 DEF Frontier
    <3> QED
      BY <3>1, <3>2, <2>2, <1>3 DEF OnceNow, Behind
  <2> QED
    BY <2>1, <2>2
<1> QED
  BY <1>4, <1>5, <1>6, <1>9 DEF OnceNow

\* A worker that records goes on, and what it takes was nobody's.
LEMMA RecordTakes ==
    ASSUME BasicInv, OnceNow, NEW s \in Slots, Record(s), Goes(s)
    PROVE  /\ Live(s)
           /\ \A l \in EndLines(tail[s].pending) :
                l \in Lines /\ count[l] = 0 /\ \A r \in Slots : l \notin Held(r)
<1>1. Live(s)
  BY DEF Record, Live
<1>2. \A l \in EndLines(tail[s].pending) : ~Taken(l) /\ l \in Lines
  BY <1>1, PendingLines DEF OnceNow, LiveOK
<1>3. \A l \in Lines : count[l] \in 0 .. 2
  BY DEF BasicInv, Typed
<1> QED
  BY <1>1, <1>2, <1>3 DEF Taken

\* What is sent is counted once.
LEMMA OnceCounted ==
    ASSUME BasicInv, Next, OnceNow, NEW s \in Slots, Working(s), Record(s) => Goes(s)
    PROVE  CountedOnce' /\ Apart'
<1>0. /\ \A l \in Lines : count[l] <= 1 /\ count[l] \in 0 .. 2
      /\ \A r \in Slots : \A l \in Held(r) : count[l] = 0 /\ l \in Lines
      /\ \A q, r \in Slots : q # r => Held(q) \cap Held(r) = {}
  BY DEF OnceNow, CountedOnce, Apart, BasicInv, Typed, HeldOK
<1>1. \A r \in Slots : r # s => Held(r)' = Held(r)
  BY OthersAlone, HeldSame
<1>2. ASSUME NEW r \in Slots, Send(r) PROVE r = s /\ Send(s)
  <2>1. CASE r # s
    <3>1. sink[r].batch # << >>
      BY <1>2 DEF Send, BasicInv, Typed, SinkOK
    <3>2. sink'[r] = sink[r]
      BY <2>1, OthersAlone
    <3>3. sink'[r].at # "gather"
      <4>1. SetSink(r, AfterSend(r)) /\ sink[r] \in Sinks
        BY <1>2, Values DEF Send, BasicInv
      <4> DEFINE k == AfterSend(r)
      <4>2. k \in Sinks /\ k.at = "idle"
        <5>1. << >> \in Seq(Entry)
          OBVIOUS
        <5> QED
          BY <4>1, <5>1 DEF AfterSend, Sinks
      <4> HIDE DEF k
      <4>3. sink'[r] = k
        BY <4>1, <4>2, OneSink DEF BasicInv, k
      <4> QED
        BY <4>2, <4>3
    <3> QED
      BY <3>2, <3>3, <1>2 DEF Send
  <2> QED
    BY <2>1, <1>2
<1>3. \A r \in Slots : \A l \in Held(r)' :
         l \in Held(r) \/ (r = s /\ Record(s) /\ l \in EndLines(tail[s].pending))
  BY <1>1, HeldGrows
<1>4. ASSUME Record(s), NEW l \in EndLines(tail[s].pending)
      PROVE  l \in Lines /\ count[l] = 0 /\ \A r \in Slots : l \notin Held(r)
  BY <1>4, RecordTakes
<1>5. Apart'
  <2> SUFFICES ASSUME NEW q \in Slots, NEW r \in Slots, q # r, NEW l, l \in Held(q)', l \in Held(r)'
               PROVE  FALSE
    BY DEF Apart
  <2> QED
    BY <1>0, <1>3, <1>4
<1>6. \A l \in Lines : count'[l] <= 1
  <2> SUFFICES ASSUME NEW l \in Lines PROVE count'[l] <= 1
    OBVIOUS
  <2>1. CASE count'[l] = count[l]
    BY <2>1, <1>0
  <2>2. CASE Send(s) /\ l \in LinesOf(sink[s].batch) /\ count'[l] = IF count[l] = 0 THEN 1 ELSE 2
    BY <2>2, <1>0 DEF Held
  <2> QED
    BY <2>1, <2>2, <1>2, CountFacts
<1>7. ASSUME NEW r \in Slots, NEW l \in Held(r)' PROVE count'[l] = 0
  <2>1. l \in Lines /\ count[l] = 0
    BY <1>0, <1>3, <1>4, <1>7
  <2>2. CASE count'[l] = count[l]
    BY <2>1, <2>2
  <2>3. CASE Send(s) /\ l \in LinesOf(sink[s].batch)
    <3>1. l \in Held(s)
      BY <2>3 DEF Held
    <3>2. CASE r # s
      BY <3>1, <3>2, <1>0, <1>1, <1>7
    <3>3. CASE r = s
      <4>1. Held(s)' = LinesOf(tail[s].todo) \cup LinesOf(sink[s].queue)
        BY <2>3, HeldFacts
      <4> QED
        BY <4>1, <3>3, <2>3, <1>7 DEF OnceNow, InOnePlace
    <3> QED
      BY <3>2, <3>3
  <2> QED
    BY <2>1, <2>2, <2>3, <1>2, CountFacts
<1> QED
  BY <1>5, <1>6, <1>7 DEF CountedOnce

\* The workers that go on stay beyond the recorded position.
LEMMA OnceLive ==
    ASSUME BasicInv, Next, OnceNow, NEW s \in Slots, Working(s), Record(s) => Goes(s),
           NEW r \in Slots
    PROVE  LiveOK(r)'
<1> SUFFICES ASSUME Live(r)'
             PROVE  /\ tail'[r].tracked => recorded'.epoch <= tail'[r].epoch
                    /\ tail'[r].tracked /\ recorded'.epoch = tail'[r].epoch =>
                         recorded'.pos <= tail'[r].pos - Len(tail'[r].pending)
                    /\ \A l \in EndLines(tail'[r].pending) : ~Taken(l)'
  BY DEF LiveOK
<1>0. Typed /\ LiveOK(r) /\ TailOK(r)
  BY DEF OnceNow, BasicInv
<1>1. CASE StartWorker(r)
  <2>1. SetTail(r, [NoTail EXCEPT !.at = "scan"])
    BY <1>1 DEF StartWorker
  <2>2. tail'[r].tracked = FALSE /\ tail'[r].pending = << >>
    BY <2>1, <1>0, Nothing, OneTail DEF NoTail
  <2> QED
    BY <2>2 DEF EndLines
<1>2. CASE Record(r)
  <2>1. PICK t \in Tails :
         /\ SetTail(r, t) /\ t.tracked = tail[r].tracked
         /\ t.pos = tail[r].pos /\ t.epoch = tail[r].epoch
         /\ \A i \in 1 .. Len(t.pending) : t.pending[i][2] = 1
         /\ recorded'.pos = tail[r].pos - Len(t.pending) /\ recorded'.epoch = tail[r].epoch
    BY <1>2, RecordFacts
  <2>2. tail'[r] = t
    BY <2>1, <1>0, OneTail
  <2>3. t.pending \in Seq(Parts) /\ t.pos \in Nat /\ t.epoch \in Nat /\ Len(t.pending) \in Nat
    BY TailFields
  <2>4. EndLines(t.pending) = {}
    BY <2>1, <2>3 DEF EndLines
  <2> QED
    BY <2>1, <2>2, <2>3, <2>4
<1>3. CASE Live(r) /\ ~Record(r)
  <2>1. ~Record(s)
    <3>1. Record(s) => Live(s)
      BY RecordTakes
    <3> QED
      BY <3>1, <1>3 DEF OnceNow, OneLive
  <2>2. recorded' = recorded
    BY <2>1, PlaceAlone
  <2>3. ASSUME NEW q \in Slots, Record(q) PROVE FALSE
    <3>1. q # s => tail'[q] = tail[q]
      BY OthersAlone
    <3>2. PICK t \in Tails : SetTail(q, t) /\ t.at = "add" /\ tail[q].at = "record"
      BY <2>3, RecordFacts
    <3>3. tail'[q].at = "add"
      BY <3>2, <1>0, OneTail
    <3>4. q # s
      BY <2>1, <2>3
    <3> QED
      BY <3>1, <3>2, <3>3, <3>4
  <2>4. \A l \in Lines : Taken(l)' => Taken(l)
    BY <2>3, TakenGrows
  <2>5. /\ tail[r].tracked => recorded.epoch <= tail[r].epoch
        /\ tail[r].tracked /\ recorded.epoch = tail[r].epoch =>
             recorded.pos <= tail[r].pos - Len(tail[r].pending)
        /\ \A l \in EndLines(tail[r].pending) : ~Taken(l) /\ l \in Lines
    BY <1>0, <1>3, PendingLines DEF LiveOK
  <2>6. CASE Read(r)
    <3>1. /\ tail'[r].epoch = epoch /\ tail'[r].tracked
          /\ Frontier <= tail'[r].pos - Len(tail'[r].pending)
          /\ \A l \in EndLines(tail'[r].pending) : ~Taken(l)
      BY <2>6, <1>0, ReadBeyond DEF OnceNow
    <3>2. recorded.epoch <= epoch
      BY DEF BasicInv, PlaceOK
    <3>3. tail'[r].pending \in Seq(Parts)
      BY TypedStep, TailFields DEF Typed
    <3>4. EndLines(tail'[r].pending) \subseteq Lines
      <4>1. \A i \in DOMAIN tail'[r].pending : tail'[r].pending[i] \in Parts
        BY <3>3
      <4> QED
        BY <4>1 DEF EndLines, Parts
    <3> QED
      BY <3>1, <3>2, <3>4, <2>2, <2>4 DEF Frontier
  <2>7. CASE /\ tail'[r].pos = tail[r].pos /\ tail'[r].epoch = tail[r].epoch
             /\ \/ tail'[r].tracked = tail[r].tracked /\ tail'[r].pending = tail[r].pending
                \/ ~tail'[r].tracked /\ tail'[r].pending = << >>
    <3>1. EndLines(<< >>) = {}
      BY DEF EndLines
    <3> QED
      BY <3>1, <2>2, <2>4, <2>5, <2>7
  <2>8. (~Edit(r) /\ ~TailEnds(r) /\ ~SinkEnds(r)) \/ StartWorker(r)
    BY LiveFacts
  <2>9. CASE tail'[r] = tail[r]
    BY <2>7, <2>9
  <2>10. CASE ScanNothing(r)
    <3>1. PICK t \in Tails : Becomes(r, t) /\ ~t.tracked /\ t.pending = << >>
      BY <2>10, <1>0, QuietFacts
    <3> QED
      BY <3>1, <2>7 DEF Becomes
  <2>11. CASE Save(r)
    <3>1. PICK t \in Tails : Becomes(r, t) /\ t.tracked = tail[r].tracked /\ t.pending = tail[r].pending
      BY <2>11, <1>0, QuietFacts
    <3> QED
      BY <3>1, <2>7 DEF Becomes
  <2>12. CASE Add(r)
    <3>1. PICK t \in Tails : Becomes(r, t) /\ t.tracked = tail[r].tracked /\ t.pending = tail[r].pending
      BY <2>12, <1>0, QuietFacts
    <3> QED
      BY <3>1, <2>7 DEF Becomes
  <2>13. CASE Take(r) \/ Pause(r) \/ Send(r) \/ SendFails(r)
    BY <2>9, <2>13, TailersAlone
  <2>14. r # s => tail'[r] = tail[r]
    BY OthersAlone
  <2> QED
    BY <1>1, <1>3, <2>6, <2>8, <2>9, <2>10, <2>11, <2>12, <2>13, <2>14 DEF Working
<1> QED
  BY <1>1, <1>2, <1>3, LiveFacts

\* One worker at most goes on.
LEMMA OnceOne ==
    ASSUME BasicInv, Next, OneLive, NEW s \in Slots, Working(s)
    PROVE  OneLive'
<1>1. CASE StartWorker(s)
  <2>1. \A r \in Slots : ~Live(r)
    BY <1>1 DEF StartWorker, Wanted, Live
  <2>2. ASSUME NEW r \in Slots, r # s PROVE ~Live(r)'
    <3>1. tail'[r] = tail[r]
      BY <2>2, OthersAlone
    <3> QED
      BY <3>1, <2>1 DEF Live, Goes
  <2> QED
    BY <2>2 DEF OneLive
<1>2. CASE ~StartWorker(s)
  <2>1. ASSUME NEW r \in Slots, Live(r)' PROVE Live(r)
    <3>1. CASE r = s
      BY <3>1, <1>2, <2>1, LiveFacts
    <3>2. CASE r # s
      <4>1. tail'[r] = tail[r]
        BY <3>2, OthersAlone
      <4> QED
        BY <4>1, <2>1 DEF Live, Goes
    <3> QED
      BY <3>1, <3>2
  <2> QED
    BY <2>1 DEF OneLive
<1> QED
  BY <1>1, <1>2

\* What has left the file stays before the recorded position.
LEMMA OnceBehind ==
    ASSUME BasicInv, Next, OnceNow, NEW s \in Slots, Working(s), Record(s) => Goes(s)
    PROVE  Behind'
<1> SUFFICES ASSUME file' # Absent, NEW l \in Lines, Taken(l)'
             PROVE  2 * l <= Base' + Frontier'
  BY DEF Behind
<1>0. /\ file' = file /\ epoch' = epoch /\ Base' = Base /\ file # Absent
  BY OthersAlone DEF Idle, Base
<1>1. CASE Record(s)
  <2>1. Live(s) /\ LiveOK(s)
    BY <1>1, RecordTakes DEF OnceNow
  <2>2. /\ Frontier <= Frontier'
        /\ \A x \in EndLines(tail[s].pending) : 2 * x <= Base + Frontier'
    BY <1>0, <1>1, <2>1, RecordBeyond
  <2>3. Base \in Nat /\ Frontier \in Nat /\ Frontier' \in Int /\ 2 * l \in Nat
    <3>1. Base \in Nat
      BY <1>0, Values DEF BasicInv, FileShape, Base
    <3>2. Frontier \in Nat
      BY Values DEF BasicInv, Frontier
    <3>3. recorded'.pos \in Int
      BY TypedStep, Bounds DEF Typed, Places
    <3> QED
      BY <3>1, <3>2, <3>3 DEF Frontier, Lines
  <2>4. CASE Taken(l)
    <3>1. 2 * l <= Base + Frontier
      BY <2>4, <1>0 DEF OnceNow, Behind
    <3>2. \A a, b, c \in Int : \A d \in Int : a <= b + c /\ c <= d => a <= b + d
      OBVIOUS
    <3>3. 2 * l <= Base + Frontier'
      BY <3>1, <3>2, <2>2, <2>3
    <3> QED
      BY <3>3, <1>0
  <2>5. ASSUME NEW q \in Slots, Record(q), l \in EndLines(tail[q].pending) PROVE q = s
    <3>1. tail[q].at = "record" /\ tail'[q].at = "add"
      <4>1. PICK t \in Tails : SetTail(q, t) /\ t.at = "add" /\ tail[q].at = "record"
        BY <2>5, RecordFacts
      <4> QED
        BY <4>1, OneTail DEF BasicInv
    <3> QED
      BY <3>1, OthersAlone
  <2> QED
    BY <2>2, <2>4, <2>5, <1>0, TakenGrows
<1>2. CASE ~Record(s)
  <2>1. recorded' = recorded
    BY <1>2, PlaceAlone
  <2>2. Frontier' = Frontier
    BY <2>1, <1>0 DEF Frontier
  <2>3. ASSUME NEW q \in Slots, Record(q) PROVE FALSE
    <3>1. tail[q].at = "record" /\ tail'[q].at = "add"
      <4>1. PICK t \in Tails : SetTail(q, t) /\ t.at = "add" /\ tail[q].at = "record"
        BY <2>3, RecordFacts
      <4> QED
        BY <4>1, OneTail DEF BasicInv
    <3> QED
      BY <3>1, <1>2, <2>3, OthersAlone
  <2>4. Taken(l)
    BY <2>3, TakenGrows
  <2> QED
    BY <2>2, <2>4, <1>0 DEF OnceNow, Behind
<1> QED
  BY <1>1, <1>2

\* The second invariant is kept.
LEMMA OnceStep == BasicInv /\ OnceInv /\ [Next]_vars => OnceInv'
<1> SUFFICES ASSUME BasicInv, OnceInv, [Next]_vars, ~crashed', ~late' PROVE OnceNow'
  BY DEF OnceInv
<1>1. CASE Next
  <2>1. /\ OnceNow /\ ~Crash /\ ~Boot
        /\ \A s \in Slots : Record(s) => Goes(s)
    BY <1>1, Unharmed DEF OnceInv
  <2>2. CASE Write \/ Rotate
    BY <2>1, <2>2, OnceWorld
  <2>3. ASSUME NEW s \in Slots, Working(s) PROVE OnceNow'
    <3>1. CountedOnce' /\ Apart' /\ OneLive' /\ Behind' /\ \A r \in Slots : LiveOK(r)'
      BY <1>1, <2>1, <2>3, OnceCounted, OnceLive, OnceOne, OnceBehind DEF OnceNow
    <3>2. ASSUME NEW r \in Slots PROVE InOnePlace(r)'
      <4>1. CASE r = s
        <5>1. Record(s) => \A l \in EndLines(tail[s].pending) : l \notin Held(s)
          BY <2>1, RecordTakes
        <5> QED
          BY <4>1, <5>1, <2>1, <2>3, OnePlaceStep DEF OnceNow
      <4>2. CASE r # s
        <5>1. tail'[r] = tail[r] /\ sink'[r] = sink[r]
          BY <4>2, <2>3, OthersAlone
        <5> QED
          BY <5>1, <2>1 DEF OnceNow, InOnePlace
      <4> QED
        BY <4>1, <4>2
    <3> QED
      BY <3>1, <3>2 DEF OnceNow
  <2> QED
    BY <1>1, <2>1, <2>2, <2>3, StepKinds
<1>2. CASE UNCHANGED vars
  <2>1. UNCHANGED <<file, epoch, written, recorded, tail, sink, count, late, crashed>>
    BY <1>2 DEF vars, fileVars, placeVars, sentVars, pastVars
  <2>2. \A s \in Slots : Held(s)' = Held(s)
    BY <2>1, HeldSame
  <2>3. \A l : Taken(l)' = Taken(l)
    BY <2>1, <2>2 DEF Taken
  <2>4. OnceNow
    BY <2>1 DEF OnceInv
  <2>5. CountedOnce' /\ Apart' /\ OneLive'
    BY <2>1, <2>2, <2>4 DEF OnceNow, CountedOnce, Apart, OneLive, Live, Goes
  <2>6. Behind'
    BY <2>1, <2>3, <2>4 DEF OnceNow, Behind, Base, Frontier
  <2>7. \A s \in Slots : InOnePlace(s)' /\ LiveOK(s)'
    BY <2>1, <2>3, <2>4 DEF OnceNow, InOnePlace, LiveOK, Live, Goes
  <2> QED
    BY <2>5, <2>6, <2>7 DEF OnceNow
<1> QED
  BY <1>1, <1>2

\* The start.
LEMMA OnceInit == Init => OnceInv
<1> SUFFICES ASSUME Init PROVE OnceNow
  BY DEF OnceInv
<1>1. /\ file = Absent /\ tail = [s \in Slots |-> NoTail]
      /\ sink = [s \in Slots |-> NoSink] /\ count = [l \in Lines |-> 0]
  BY DEF Init
<1>2. \A s \in Slots : tail[s] = NoTail /\ sink[s] = NoSink
  BY <1>1
<1>3. \A s \in Slots : Held(s) = {}
  BY <1>2, NoEntries DEF Held, NoTail, NoSink
<1>4. \A s \in Slots : ~Live(s)
  BY <1>2 DEF Live, NoTail
<1>5. CountedOnce /\ Apart /\ OneLive /\ Behind
  BY <1>1, <1>3, <1>4 DEF CountedOnce, Apart, OneLive, Behind
<1>6. \A s \in Slots : InOnePlace(s) /\ LiveOK(s)
  BY <1>2, <1>4, NoEntries DEF InOnePlace, LiveOK, NoTail, NoSink
<1> QED
  BY <1>5, <1>6 DEF OnceNow

\* As long as the process runs and no cancelled worker has taken the position back, no
\* line is ingested twice: whatever the rotations, the changes of the source and the
\* refusals of the store, for any number of workers and of lines.
THEOREM LinesSentOnce == Spec => []NoLineTwice
<1>1. OnceInv => NoLineTwice
  BY DEF OnceInv, OnceNow, CountedOnce, NoLineTwice
<1> QED
  BY <1>1, BasicInit, BasicStep, OnceInit, OnceStep, PTL DEF Spec

-----------------------------------------------------------------------------
(* What is ingested is made of whole lines.                                *)

\* What was given up before the beginning stays so.
LEMMA BeforeKept ==
    ASSUME BasicInv, Next, NEW l \in Lines, fate[l] = "before"
    PROVE  fate'[l] = "before"
BY FateFacts

\* A boundary stays one.
LEMMA BoundaryKept ==
    ASSUME BasicInv, Next, Base' = Base, NEW pos, Boundary(pos)
    PROVE  Boundary(pos)'
BY BeforeKept DEF Boundary

\* A worker gets no texts, but those that Record parses.
LEMMA TextsGrow ==
    ASSUME BasicInv, NEW s \in Slots, Working(s), NEW x \in HeldTexts(s)'
    PROVE  x \in HeldTexts(s) \/ (Record(s) /\ x \in TextsOf(Entries(tail[s].pending)))
<1>0. /\ Typed /\ tail[s].todo \in Seq(Entry) /\ sink[s].queue \in Seq(Entry)
      /\ sink[s].batch \in Seq(Entry)
  BY Values DEF BasicInv
<1>1. CASE ScanNothing(s) \/ Save(s) \/ Edit(s)
  <2>1. sink' = sink
    BY <1>1 DEF ScanNothing, Save, Edit
  <2>2. tail'[s].todo = tail[s].todo
    BY <1>0, <1>1, QuietFacts DEF Becomes
  <2> QED
    BY <2>1, <2>2 DEF HeldTexts
<1>2. CASE Read(s)
  <2>1. sink' = sink
    BY <1>2 DEF Read
  <2>2. PICK start \in 0 .. Len(file), end \in 0 .. Len(file), old \in Seq(Parts), t \in Tails :
           ReadsAs(s, start, end, old, t)
    BY <1>2, ReadFacts
  <2>3. tail'[s].todo = tail[s].todo
    BY <2>2, <1>0, OneTail DEF ReadsAs
  <2> QED
    BY <2>1, <2>3 DEF HeldTexts
<1>3. CASE Record(s)
  <2>1. sink' = sink
    BY <1>3 DEF Record
  <2>2. PICK t \in Tails : SetTail(s, t) /\ t.todo = Entries(tail[s].pending)
    BY <1>3, RecordFacts
  <2>3. tail'[s] = t
    BY <2>2, <1>0, OneTail
  <2> QED
    BY <2>1, <2>2, <2>3, <1>3 DEF HeldTexts
<1>4. CASE Add(s)
  <2>1. PICK t \in Tails, k \in Sinks : AddsAs(s, t, k)
    BY <1>0, <1>4, AddFacts
  <2> DEFINE h == Head(tail[s].todo)
  <2>2. /\ tail'[s].todo = Tail(tail[s].todo) /\ tail[s].todo # << >>
        /\ sink'[s].queue = Append(sink[s].queue, h)
        /\ sink'[s].batch = sink[s].batch
    BY <2>1 DEF AddsAs, Becomes, Swaps
  <2>3. /\ h \in Entry /\ TextsOf(Tail(tail[s].todo)) \subseteq TextsOf(tail[s].todo)
        /\ \A j \in 1 .. Len(h) : h[j] \in TextsOf(tail[s].todo)
    BY <1>0, <2>2, HeadFacts
  <2> HIDE DEF h
  <2>4. \A y \in TextsOf(sink'[s].queue) :
           y \in TextsOf(sink[s].queue) \/ \E j \in 1 .. Len(h) : y = h[j]
    BY <1>0, <2>2, <2>3, AppendFacts
  <2> QED
    BY <2>2, <2>3, <2>4 DEF HeldTexts
<1>5. CASE Take(s)
  <2>1. PICK k \in Sinks :
                   /\ Swaps(s, k) /\ sink[s].queue # << >> /\ k.queue = Tail(sink[s].queue)
                   /\ k.batch = Append(sink[s].batch, Head(sink[s].queue))
    BY <1>0, <1>5, SinkFacts
  <2> DEFINE h == Head(sink[s].queue)
  <2>2. /\ sink'[s].queue = Tail(sink[s].queue)
        /\ sink'[s].batch = Append(sink[s].batch, h)
        /\ tail'[s].todo = tail[s].todo
    BY <2>1, <1>5, TailersAlone DEF Swaps
  <2>3. /\ h \in Entry /\ TextsOf(Tail(sink[s].queue)) \subseteq TextsOf(sink[s].queue)
        /\ \A j \in 1 .. Len(h) : h[j] \in TextsOf(sink[s].queue)
    BY <1>0, <2>1, HeadFacts
  <2> HIDE DEF h
  <2>4. \A y \in TextsOf(sink'[s].batch) :
           y \in TextsOf(sink[s].batch) \/ \E j \in 1 .. Len(h) : y = h[j]
    BY <1>0, <2>2, <2>3, AppendFacts
  <2> QED
    BY <2>2, <2>3, <2>4 DEF HeldTexts
<1>6. CASE TailEnds(s)
  <2>1. sink' = sink /\ SetTail(s, NoTail)
    BY <1>6 DEF TailEnds
  <2>2. tail'[s].todo = << >>
    BY <2>1, <1>0, Nothing, OneTail DEF NoTail
  <2> QED
    BY <2>1, <2>2, NoEntries DEF HeldTexts
<1>7. CASE Pause(s) \/ Send(s) \/ SendFails(s)
  <2>1. tail' = tail
    BY <1>7, TailersAlone
  <2>2. PICK k \in Sinks : /\ Swaps(s, k) /\ k.queue = sink[s].queue
                           /\ k.batch = sink[s].batch \/ k.batch = << >>
    BY <1>0, <1>7, SinkFacts
  <2> QED
    BY <2>1, <2>2, NoEntries DEF HeldTexts, Swaps
<1>8. CASE SinkEnds(s)
  <2>1. tail' = tail
    BY <1>8, TailersAlone
  <2>2. sink'[s].queue = << >> /\ sink'[s].batch = << >>
    BY <1>0, <1>8, SinkFacts DEF Swaps, NoSink
  <2> QED
    BY <2>1, <2>2, NoEntries DEF HeldTexts
<1>9. CASE StartWorker(s)
  <2>1. SetTail(s, [NoTail EXCEPT !.at = "scan"]) /\ SetSink(s, [NoSink EXCEPT !.at = "idle"])
    BY <1>9 DEF StartWorker
  <2>2. tail'[s].todo = << >> /\ sink'[s].queue = << >> /\ sink'[s].batch = << >>
    BY <2>1, <1>0, Nothing, OneTail, OneSink DEF NoTail, NoSink
  <2> QED
    BY <2>2, NoEntries DEF HeldTexts
<1> QED
  BY <1>1, <1>2, <1>3, <1>4, <1>5, <1>6, <1>7, <1>8, <1>9 DEF Working

\* The lines of the texts that a worker holds are lines that it holds.
LEMMA TextLines ==
    ASSUME BasicInv, NEW s \in Slots, NEW x \in HeldTexts(s)
    PROVE  LineOf(x) \in Held(s) /\ LineOf(x) \in Lines
<1>1. LineOf(x) \in Held(s)
  BY DEF HeldTexts, Held, LinesOf
<1> QED
  BY <1>1 DEF BasicInv, HeldOK

\* What waits in a tailer that has nothing of this file.
LEMMA NothingWaits ==
    ASSUME BasicInv, NEW t, t.pending = << >>, t.epoch = epoch' /\ file' # Absent => Boundary(t.pos)'
    PROVE  SliceOK(t)'
BY DEF SliceOK, InARow

\* The beginning of a file is a boundary.
LEMMA FirstBoundary ==
    ASSUME BasicInv, file # Absent
    PROVE  Boundary(0) /\ Base \in Nat
<1>1. Base \in Nat /\ Base % 2 = 0
  BY Values DEF BasicInv, FileShape, Base
<1>2. \A l \in Lines : l \in Nat
  BY DEF Lines
<1>3. \A l \in Nat : 2 * l # Base + 0 + 1
  BY <1>1
<1> QED
  BY <1>1, <1>2, <1>3 DEF Boundary

\* After an end of line, and before the beginning of one, is a boundary.
LEMMA LineBoundary ==
    ASSUME BasicInv, file # Absent, NEW pos \in Int, NEW p \in Parts,
           (p[2] = 2 /\ Number(p) = Base + pos) \/ (p[2] = 1 /\ Number(p) = Base + pos + 1)
    PROVE  Boundary(pos)
<1>1. p[1] \in Nat
  BY NextPart
<1>2. Base \in Nat
  BY FirstBoundary
<1>3. ASSUME NEW l \in Lines PROVE 2 * l # Base + pos + 1
  <2>1. l \in Nat
    BY DEF Lines
  <2>2. CASE p[2] = 2 /\ Number(p) = Base + pos
    <3>1. 2 * p[1] = Base + pos
      BY <2>2, <1>1 DEF Number
    <3>2. 2 * l # 2 * p[1] + 1
      BY <2>1, <1>1
    <3> QED
      BY <3>1, <3>2
  <2>3. CASE p[2] = 1 /\ Number(p) = Base + pos + 1
    <3>1. 2 * p[1] - 1 = Base + pos + 1
      BY <2>3, <1>1 DEF Number
    <3>2. 2 * l # 2 * p[1] - 1
      BY <2>1, <1>1
    <3> QED
      BY <3>1, <3>2
  <2> QED
    BY <2>2, <2>3
<1> QED
  BY <1>3 DEF Boundary

\* Record leaves the beginning of a line, and records where it begins.
LEMMA RecordWhole ==
    ASSUME BasicInv, Next, WholeNow, NEW s \in Slots, Record(s)
    PROVE  /\ SliceOK(tail[s])'
           /\ (recorded.epoch = epoch => Boundary(recorded.pos))'
           /\ \A x \in TextsOf(Entries(tail[s].pending)) : Sound(x)'
<1>0. Typed /\ FileShape /\ PlaceOK(tail[s]) /\ PendingOK(tail[s]) /\ epoch \in Nat
      /\ tail[s].pos \in Nat /\ tail[s].epoch \in Nat
      /\ tail[s].pending \in Seq(Parts) /\ Len(tail[s].pending) \in Nat
      /\ tail[s].at = "record" /\ epoch' = epoch /\ file' = file /\ Base' = Base
  BY Values DEF BasicInv, TailOK, Record, fileVars, Base
<1> DEFINE p == tail[s].pending
           n == LastEnd(p)
<1>1. PICK t \in Tails :
         /\ SetTail(s, t) /\ t.pos = tail[s].pos /\ t.epoch = tail[s].epoch
         /\ n \in 0 .. Len(p) /\ Len(t.pending) = Len(p) - n
         /\ \A i \in 1 .. Len(t.pending) : t.pending[i] = p[n + i] /\ t.pending[i][2] = 1
         /\ recorded'.pos = tail[s].pos - Len(t.pending) /\ recorded'.epoch = tail[s].epoch
  BY RecordFacts
<1>2. n # 0 => p[n][2] = 2
  BY <1>0, LastEndFacts
<1> HIDE DEF n
<1>3. tail'[s] = t /\ t.pending \in Seq(Parts)
  BY <1>0, <1>1, OneTail, TailFields
<1>4. p # << >> /\ Len(p) >= 1 /\ Len(t.pending) \in Nat /\ n \in Nat
  <2>1. p # << >>
    BY <1>0 DEF PendingOK
  <2> QED
    BY <2>1, <1>0, <1>1
<1>5. /\ InARow(p)
      /\ p[1][2] = 2 => fate[p[1][1]] = "before"
      /\ t.epoch = epoch /\ file # Absent =>
           \A i \in 1 .. Len(p) : Number(p[i]) = Base + t.pos - Len(p) + i
  BY <1>1, <1>4 DEF WholeNow, SliceOK
<1>6. InARow(t.pending)
  <2> SUFFICES ASSUME NEW i \in 1 .. Len(t.pending), i # 1
               PROVE  Number(t.pending[i]) = Number(t.pending[i - 1]) + 1
    BY DEF InARow
  <2>1. i - 1 \in 1 .. Len(t.pending) /\ n + i \in 1 .. Len(p) /\ n + i # 1
    BY <1>0, <1>1, <1>4
  <2>2. t.pending[i] = p[n + i] /\ t.pending[i - 1] = p[n + (i - 1)]
    BY <1>1, <2>1
  <2>3. n + (i - 1) = (n + i) - 1
    BY <1>4, <2>1
  <2>4. Number(p[n + i]) = Number(p[(n + i) - 1]) + 1
    BY <1>5, <2>1 DEF InARow
  <2> QED
    BY <2>2, <2>3, <2>4
<1>7. ASSUME t.epoch = epoch
      PROVE  /\ file # Absent
             /\ \A i \in 1 .. Len(t.pending) : Number(t.pending[i]) = Base + t.pos - Len(t.pending) + i
             /\ Boundary(t.pos - Len(t.pending))
  <2>1. file # Absent
    BY <1>7, <1>0, <1>1 DEF PlaceOK
  <2>2. Base \in Nat
    BY <2>1, FirstBoundary
  <2>3. ASSUME NEW i \in 1 .. Len(t.pending)
        PROVE  Number(t.pending[i]) = Base + t.pos - Len(t.pending) + i
    <3>1. n + i \in 1 .. Len(p)
      BY <1>0, <1>1, <1>4
    <3>2. Number(t.pending[i]) = Base + t.pos - Len(p) + (n + i)
      BY <3>1, <1>1, <1>5, <1>7, <2>1
    <3>3. Len(p) \in Nat /\ n \in Nat /\ t.pos \in Nat /\ i \in Nat /\ Len(t.pending) = Len(p) - n
      BY <1>0, <1>1, <1>4
    <3> QED
      BY SMTT(90), <3>2, <3>3, <2>2
  <2>4. Boundary(t.pos - Len(t.pending))
    <3>1. t.pos - Len(t.pending) \in Int
      BY <1>0, <1>1, <1>4
    <3>2. CASE n # 0
      <4>1. n \in 1 .. Len(p)
        BY <3>2, <1>1, <1>4
      <4>2. Number(p[n]) = Base + t.pos - Len(p) + n
        BY <4>1, <1>5, <1>7, <2>1
      <4>3. Number(p[n]) = Base + (t.pos - Len(t.pending))
        BY SMTT(90), <4>2, <1>0, <1>1, <1>4, <2>2
      <4>4. p[n] \in Parts
        BY <4>1, <1>0
      <4> QED
        BY <4>3, <4>4, <3>1, <3>2, <1>2, <2>1, LineBoundary
    <3>3. CASE n = 0
      <4>1. 1 \in 1 .. Len(p) /\ 1 \in 1 .. Len(t.pending)
        BY <3>3, <1>0, <1>1, <1>4
      <4>2. Number(p[1]) = Base + t.pos - Len(p) + 1
        BY <4>1, <1>5, <1>7, <2>1
      <4>3. Number(p[1]) = Base + (t.pos - Len(t.pending)) + 1
        BY <4>2, <3>3, <1>0, <1>1, <1>4, <2>2
      <4>4. p[1] \in Parts
        BY <4>1, <1>0
      <4>5. p[1][2] = 1
        <5>1. t.pending[1] = p[n + 1] /\ t.pending[1][2] = 1 /\ n + 1 = 1
          BY <4>1, <3>3, <1>1
        <5> QED
          BY <5>1
      <4> QED
        BY <4>3, <4>4, <4>5, <3>1, <2>1, LineBoundary
    <3> QED
      BY <3>2, <3>3
  <2> QED
    BY <2>1, <2>3, <2>4
<1>8. (recorded.epoch = epoch => Boundary(recorded.pos))'
  <2> SUFFICES ASSUME t.epoch = epoch PROVE Boundary(recorded.pos)'
    BY <1>0, <1>1
  <2>1. PICK pos : pos = recorded'.pos
    OBVIOUS
  <2>2. pos = t.pos - Len(t.pending)
    BY <2>1, <1>1
  <2>3. Boundary(pos)
    BY <2>2, <1>7
  <2>4. Boundary(pos)'
    BY <2>3, <1>0, BoundaryKept
  <2> QED
    BY <2>1, <2>4 DEF Boundary
<1>9. SliceOK(tail[s])'
  <2>1. t.pending # << >> => t.pending[1][2] = 1
    <3>1. t.pending # << >> => 1 \in 1 .. Len(t.pending)
      BY <1>3, <1>4
    <3> QED
      BY <3>1, <1>1
  <2>2. ASSUME t.epoch = epoch, t.pending = << >> PROVE Boundary(t.pos)'
    <3>1. t.pos - Len(t.pending) = t.pos
      BY <2>2, <1>0, <1>1
    <3>2. Boundary(t.pos)
      BY <2>2, <3>1, <1>7
    <3> QED
      BY <3>2, <1>0, BoundaryKept
  <2>3. SliceOK(t)'
    BY <2>1, <2>2, <1>0, <1>6, <1>7 DEF SliceOK
  <2> QED
    BY <2>3, <1>3 DEF SliceOK
<1>10. ASSUME NEW x \in TextsOf(Entries(p)) PROVE Sound(x)'
  <2>1. Whole(x) \/ (p[1][2] = 2 /\ LineOf(x) = p[1][1])
    BY <1>0, <1>5, <1>10, EntriesWhole
  <2>2. p[1] \in Parts
    BY <1>0, <1>4
  <2>3. p[1][1] \in Lines
    BY <2>2 DEF Parts
  <2> QED
    BY <2>1, <2>3, <1>5, BeforeKept DEF Sound
<1> QED
  BY <1>8, <1>9, <1>10

\* The place where a read begins is a boundary, or the read goes on behind what waits.
LEMMA ReadFromBoundary ==
    ASSUME BasicInv, Next, WholeNow, NEW s \in Slots, Read(s), ~missed',
           NEW start \in 0 .. Len(file), NEW end \in 0 .. Len(file), NEW old \in Seq(Parts),
           NEW t \in Tails, ReadsAs(s, start, end, old, t)
    PROVE  \/ old = << >> /\ Boundary(start)'
           \/ /\ old = tail[s].pending /\ old # << >> /\ start = tail[s].pos
              /\ tail[s].epoch = epoch
<1>0. /\ Typed /\ FileShape /\ HeldOK /\ file # Absent /\ file \in Seq(Parts) /\ Len(file) \in Nat
      /\ Base' = Base
  BY Values DEF BasicInv, Read, fileVars, Base
<1>1. CASE tail[s].tracked /\ tail[s].epoch = epoch
  <2>1. start = tail[s].pos /\ old = tail[s].pending
    BY <1>1 DEF ReadsAs
  <2>2. old = << >> => Boundary(start)
    BY <2>1, <1>0, <1>1 DEF WholeNow, SliceOK
  <2> QED
    BY <2>1, <2>2, <1>0, <1>1, BoundaryKept
<1>2. CASE ~tail[s].tracked /\ recorded.epoch = epoch
  <2>1. start = recorded.pos /\ old = << >>
    BY <1>2 DEF ReadsAs
  <2> QED
    BY <2>1, <1>0, <1>2, BoundaryKept DEF WholeNow
<1>3. CASE start = 0 /\ old = << >>
  BY <1>0, <1>3, FirstBoundary, BoundaryKept
<1>4. CASE /\ ~tail[s].tracked /\ recorded.epoch # epoch /\ old = << >>
           /\ FromEnd(s) /\ start = Len(file)
  <2>1. GivenUp({file[i][1] : i \in 1 .. start}, "before")
    BY <1>4 DEF ReadsAs
  <2> SUFFICES ASSUME NEW l \in Lines, 2 * l = Base + Len(file) + 1
               PROVE  fate'[l] = "before"
    BY <1>0, <1>4 DEF Boundary
  <2>2. Base \in Nat /\ Base % 2 = 0 /\ Base + Len(file) = written /\ l \in Nat
    BY SMTT(90), <1>0, FirstBoundary, Values DEF FileShape, Base, Lines
  <2>3. ~ (2 * l <= written)
    BY <2>2, <1>0
  <2>4. count[l] = 0 /\ fate[l] # "lost"
    BY <2>3, <1>0 DEF HeldOK, Typed
  <2>5. Len(file) # 0
    BY <2>2
  <2>6. l \in {file[i][1] : i \in 1 .. start}
    <3>1. Len(file) \in 1 .. Len(file) /\ file[Len(file)] \in Parts
      BY <2>5, <1>0
    <3>2. Number(file[Len(file)]) = 2 * l - 1
      <4>1. Number(file[Len(file)]) = Base + Len(file)
        BY <3>1, <1>0 DEF FileShape
      <4> QED
        BY <4>1, <2>2, <1>0
    <3>3. file[Len(file)][1] \in Nat /\ file[Len(file)][2] \in {1, 2}
      BY <3>1, NextPart
    <3>4. file[Len(file)][1] = l
      BY SMTT(90), <3>2, <3>3, <2>2 DEF Number
    <3> QED
      BY <3>1, <3>4, <1>4
  <2>7. CASE fate[l] = "none"
    BY <2>1, <2>4, <2>6, <2>7, <1>0, GivenFacts
  <2>8. CASE fate[l] = "before"
    BY <2>8, BeforeKept
  <2> QED
    BY <2>4, <2>7, <2>8, <1>0 DEF Typed
<1> QED
  BY <1>1, <1>2, <1>3, <1>4 DEF ReadsAs

\* What waits after a read follows each other.
LEMMA ReadWhole ==
    ASSUME BasicInv, Next, WholeNow, NEW s \in Slots, Read(s), ~missed'
    PROVE  SliceOK(tail[s])'
<1>0. /\ Typed /\ file # Absent /\ Len(file) \in Nat /\ Base \in Nat
      /\ epoch' = epoch /\ file' = file /\ Base' = Base
      /\ tail[s].pending \in Seq(Parts)
  BY Values, FirstBoundary DEF BasicInv, Read, fileVars, Base
<1>1. PICK start \in 0 .. Len(file), end \in 0 .. Len(file), old \in Seq(Parts), t \in Tails :
         ReadsAs(s, start, end, old, t)
  BY ReadFacts
<1>2. /\ start <= end /\ SetTail(s, t)
      /\ t.pos = end /\ t.epoch = epoch
      /\ t.pending = old \o SubSeq(file, start + 1, end)
  BY <1>1 DEF ReadsAs
<1>3. tail'[s] = t
  BY <1>0, <1>2, OneTail
<1>4. \/ old = << >> /\ Boundary(start)'
      \/ /\ old = tail[s].pending /\ old # << >> /\ start = tail[s].pos
         /\ tail[s].epoch = epoch
  BY <1>1, ReadFromBoundary
<1> DEFINE q == old \o SubSeq(file, start + 1, end)
<1>5. /\ q \in Seq(Parts) /\ Len(q) = Len(old) + (end - start)
      /\ \A i \in 1 .. Len(old) : q[i] = old[i]
      /\ \A i \in 1 .. Len(q) :
           i > Len(old) => Number(q[i]) = Base + end - Len(q) + i
  BY ZenonT(90), <1>0, <1>2, Added
<1> HIDE DEF q
<1>6. t.pending = q
  BY <1>2 DEF q
<1>7. start \in Nat /\ end \in Nat /\ Len(old) \in Nat /\ Len(q) \in Nat
  BY <1>0, <1>5
<1>8. ASSUME NEW i \in 1 .. Len(old) PROVE Number(q[i]) = Base + end - Len(q) + i
  <2>1. old = tail[s].pending /\ start = tail[s].pos /\ tail[s].epoch = epoch
    BY <1>4, <1>7, <1>8
  <2>2. Number(old[i]) = Base + start - Len(old) + i
    BY <2>1, <1>0, <1>8 DEF WholeNow, SliceOK
  <2> QED
    BY <2>2, <1>0, <1>5, <1>7
<1>9. ASSUME NEW i \in 1 .. Len(q) PROVE Number(q[i]) = Base + end - Len(q) + i
  <2>1. CASE i > Len(old)
    BY <2>1, <1>5
  <2>2. CASE ~(i > Len(old))
    <3>1. i \in 1 .. Len(old)
      BY <2>2, <1>7
    <3> QED
      BY <3>1, <1>8
  <2> QED
    BY <2>1, <2>2
<1>10. InARow(q)
  <2> SUFFICES ASSUME NEW i \in 1 .. Len(q), i # 1
               PROVE  Number(q[i]) = Number(q[i - 1]) + 1
    BY DEF InARow
  <2>1. i - 1 \in 1 .. Len(q) /\ i \in Nat
    BY <1>7
  <2>2. Number(q[i]) = Base + end - Len(q) + i /\ Number(q[i - 1]) = Base + end - Len(q) + (i - 1)
    BY <2>1, <1>9
  <2> QED
    BY <2>1, <2>2, <1>0, <1>7
<1>11. ASSUME q # << >>, q[1][2] = 2 PROVE fate'[q[1][1]] = "before"
  <2>1. 1 \in 1 .. Len(q) /\ q[1] \in Parts
    BY <1>5, <1>7, <1>11
  <2>2. q[1][1] \in Lines /\ Number(q[1]) = 2 * q[1][1]
    BY <2>1, <1>11, NextPart DEF Lines, Number
  <2>3. CASE old = << >>
    <3>1. Boundary(start)'
      BY <2>3, <1>4
    <3>2. 2 * q[1][1] = Base + start + 1
      <4>1. Len(old) = 0
        BY <2>3
      <4>2. Number(q[1]) = Base + end - Len(q) + 1
        BY <2>1, <1>9
      <4> QED
        BY <4>1, <4>2, <2>2, <1>0, <1>5, <1>7
    <3> QED
      BY <3>1, <3>2, <2>2, <1>0 DEF Boundary
  <2>4. CASE old # << >>
    <3>1. old = tail[s].pending
      BY <2>4, <1>4
    <3>2. 1 \in 1 .. Len(old) /\ q[1] = old[1]
      BY <2>4, <1>5, <1>7
    <3>3. fate[old[1][1]] = "before"
      BY <2>4, <3>1, <3>2, <1>11 DEF WholeNow, SliceOK
    <3> QED
      BY <3>2, <3>3, <2>2, BeforeKept
  <2> QED
    BY <2>3, <2>4
<1>12. ASSUME q = << >> PROVE Boundary(end)'
  <2>1. Len(q) = 0
    BY <1>12
  <2>2. Len(old) = 0 /\ end = start
    BY <2>1, <1>2, <1>5, <1>7
  <2>3. old = << >>
    BY <2>2
  <2> QED
    BY <2>2, <2>3, <1>4
<1>13. SliceOK(t)'
  BY <1>0, <1>2, <1>6, <1>9, <1>10, <1>11, <1>12 DEF SliceOK
<1> QED
  BY <1>3, <1>13 DEF SliceOK

\* The tailer of a step that reads and records nothing.
LEMMA WholeSame ==
    ASSUME BasicInv, Next, WholeNow, Idle, NEW s \in Slots,
           \/ /\ tail'[s].pending = tail[s].pending /\ tail'[s].pos = tail[s].pos
              /\ tail'[s].epoch = tail[s].epoch
           \/ tail'[s].pending = << >> /\ (tail'[s].epoch # epoch \/ file = Absent)
    PROVE  SliceOK(tail[s])'
<1>0. file' = file /\ epoch' = epoch /\ Base' = Base
  BY DEF Idle, Base
<1>1. CASE /\ tail'[s].pending = tail[s].pending /\ tail'[s].pos = tail[s].pos
           /\ tail'[s].epoch = tail[s].epoch
  <2>1. SliceOK(tail[s])
    BY DEF WholeNow
  <2>2. tail[s].pending # << >> => tail[s].pending[1] \in Parts
    <3>1. tail[s].pending \in Seq(Parts) /\ Len(tail[s].pending) \in Nat
      BY Values DEF BasicInv
    <3>2. tail[s].pending # << >> => 1 \in 1 .. Len(tail[s].pending)
      BY <3>1
    <3> QED
      BY <3>1, <3>2
  <2>3. tail[s].pending # << >> => tail[s].pending[1][1] \in Lines
    BY <2>2 DEF Parts
  <2>4. tail[s].pending # << >> /\ tail[s].pending[1][2] = 2 => fate'[tail[s].pending[1][1]] = "before"
    BY <2>1, <2>3, BeforeKept DEF SliceOK
  <2>5. PICK pos : pos = tail[s].pos
    OBVIOUS
  <2>6. tail[s].epoch = epoch /\ file # Absent /\ tail[s].pending = << >> => Boundary(pos)'
    BY <2>1, <2>5, <1>0, BoundaryKept DEF SliceOK
  <2> QED
    BY <2>1, <2>4, <2>5, <2>6, <1>0, <1>1 DEF SliceOK, Boundary
<1>2. CASE tail'[s].pending = << >> /\ (tail'[s].epoch # epoch \/ file = Absent)
  BY <1>0, <1>2 DEF SliceOK, InARow
<1> QED
  BY <1>1, <1>2

\* A rotation that went unseen is not forgotten.
LEMMA MissedKept ==
    ASSUME Typed, Next, ~missed'
    PROVE  ~missed
<1>1. Write \/ Rotate \/ Crash \/ Boot => missed' = missed
  BY DEF Write, Rotate, Crash, Boot
<1>2. ASSUME NEW s \in Slots, Working(s) PROVE ~missed
  <2>1. CASE ScanNothing(s) \/ Record(s) \/ Add(s) \/ Save(s) \/ TailEnds(s) \/ Edit(s)
    BY <2>1 DEF ScanNothing, Record, Add, Save, TailEnds, Edit
  <2>2. CASE Take(s) \/ Pause(s) \/ Send(s) \/ SendFails(s) \/ SinkEnds(s) \/ StartWorker(s)
    BY <2>2 DEF Take, Pause, Send, SendFails, SinkEnds, StartWorker
  <2>3. CASE Read(s)
    BY <2>3 DEF Read
  <2> QED
    BY <1>2, <2>1, <2>2, <2>3 DEF Working
<1> QED
  BY <1>1, <1>2, StepKinds

\* The workers keep whole lines.
LEMMA WholeWorker ==
    ASSUME BasicInv, Next, WholeNow, NEW s \in Slots, Working(s), ~missed'
    PROVE  WholeNow'
<1>0. Typed /\ Idle /\ file' = file /\ epoch' = epoch /\ Base' = Base
  BY OthersAlone DEF BasicInv, Idle, Base
<1>1. ASSUME NEW r \in Slots PROVE SliceOK(tail[r])'
  <2>1. CASE tail'[r] = tail[r]
    BY <2>1, <1>0, WholeSame
  <2>2. CASE Read(r)
    BY <2>2, ReadWhole
  <2>3. CASE Record(r)
    BY <2>3, RecordWhole
  <2>4. CASE ScanNothing(r)
    <3>1. PICK t \in Tails : Becomes(r, t) /\ t.pending = << >>
      BY <2>4, <1>0, QuietFacts
    <3>2. file = Absent
      BY <2>4 DEF ScanNothing
    <3> QED
      BY <3>1, <3>2, <1>0, WholeSame DEF Becomes
  <2>5. CASE Add(r)
    <3>1. PICK t \in Tails : Becomes(r, t) /\ t.pending = tail[r].pending
      BY <2>5, <1>0, QuietFacts
    <3> QED
      BY <3>1, <1>0, WholeSame DEF Becomes
  <2>6. CASE Save(r)
    <3>1. PICK t \in Tails : Becomes(r, t) /\ t.pending = tail[r].pending
      BY <2>6, <1>0, QuietFacts
    <3> QED
      BY <3>1, <1>0, WholeSame DEF Becomes
  <2>7. CASE Edit(r)
    <3>1. PICK t \in Tails : Becomes(r, t) /\ t.pending = tail[r].pending
      BY <2>7, <1>0, QuietFacts
    <3> QED
      BY <3>1, <1>0, WholeSame DEF Becomes
  <2>8. epoch \in Nat /\ epoch >= 1
    BY <1>0, Values
  <2>9. CASE TailEnds(r)
    <3>1. SetTail(r, NoTail)
      BY <2>9 DEF TailEnds
    <3>2. tail'[r].pending = << >> /\ tail'[r].epoch = 0
      BY <3>1, <1>0, Nothing, OneTail DEF NoTail
    <3> QED
      BY <3>2, <2>8, <1>0, WholeSame
  <2>10. CASE StartWorker(r)
    <3>1. SetTail(r, [NoTail EXCEPT !.at = "scan"])
      BY <2>10 DEF StartWorker
    <3>2. tail'[r].pending = << >> /\ tail'[r].epoch = 0
      BY <3>1, <1>0, Nothing, OneTail DEF NoTail
    <3> QED
      BY <3>2, <2>8, <1>0, WholeSame
  <2>11. CASE Take(r) \/ Pause(r) \/ Send(r) \/ SendFails(r) \/ SinkEnds(r)
    BY <2>1, <2>11, TailersAlone
  <2>12. r # s => tail'[r] = tail[r]
    BY OthersAlone
  <2> QED
    BY <2>1, <2>2, <2>3, <2>4, <2>5, <2>6, <2>7, <2>9, <2>10, <2>11, <2>12 DEF Working
<1>2. ASSUME NEW r \in Slots, NEW x \in HeldTexts(r)' PROVE Sound(x)'
  <2>1. CASE x \in HeldTexts(r)
    <3>1. Sound(x) /\ LineOf(x) \in Lines
      BY <2>1, TextLines DEF WholeNow
    <3> QED
      BY <3>1, BeforeKept DEF Sound
  <2>2. CASE r # s
    <3>1. tail'[r] = tail[r] /\ sink'[r] = sink[r]
      BY <2>2, OthersAlone
    <3>2. x \in HeldTexts(r)
      BY <3>1, <1>2 DEF HeldTexts
    <3> QED
      BY <3>2, <2>1
  <2>3. CASE r = s /\ Record(s) /\ x \in TextsOf(Entries(tail[s].pending))
    BY <2>3, RecordWhole
  <2> QED
    BY <1>2, <2>1, <2>2, <2>3, TextsGrow
<1>3. ~broken'
  <2>1. CASE Send(s)
    <3>1. \A x \in TextsOf(sink[s].batch) : Sound(x)
      BY DEF WholeNow, HeldTexts
    <3>2. broken' = (broken \/ \E x \in TextsOf(sink[s].batch) :
                                  ~Whole(x) /\ fate[LineOf(x)] # "before")
      BY <2>1 DEF Send, Ingested
    <3> QED
      BY <3>1, <3>2 DEF WholeNow, Sound
  <2>2. CASE ScanNothing(s) \/ Read(s) \/ Record(s) \/ Add(s) \/ Save(s) \/ TailEnds(s) \/ Edit(s)
    BY <2>2 DEF ScanNothing, Read, Record, Add, Save, TailEnds, Edit, sentVars, WholeNow
  <2>3. CASE Take(s) \/ Pause(s) \/ SendFails(s) \/ SinkEnds(s) \/ StartWorker(s)
    BY <2>3 DEF Take, Pause, SendFails, SinkEnds, StartWorker, sentVars, WholeNow
  <2> QED
    BY <2>1, <2>2, <2>3 DEF Working
<1>4. PICK p : p = recorded.pos
  OBVIOUS
<1>5. PICK q : q = saved.pos
  OBVIOUS
<1>6. /\ recorded.epoch = epoch => Boundary(p)'
      /\ saved.epoch = epoch => Boundary(q)'
  BY <1>0, <1>4, <1>5, BoundaryKept DEF WholeNow
<1>7. (recorded.epoch = epoch => Boundary(recorded.pos))'
  <2>1. CASE Record(s)
    BY <2>1, RecordWhole
  <2>2. CASE ~Record(s)
    <3>1. recorded' = recorded
      BY <2>2, PlaceAlone
    <3> QED
      BY <3>1, <1>0, <1>4, <1>6 DEF Boundary
  <2> QED
    BY <2>1, <2>2
<1>8. (saved.epoch = epoch => Boundary(saved.pos))'
  <2>1. saved' = saved \/ saved' = recorded
    <3>1. CASE ScanNothing(s) \/ Read(s) \/ Record(s) \/ Add(s) \/ Save(s) \/ TailEnds(s) \/ Edit(s)
      BY <3>1 DEF ScanNothing, Read, Record, Add, Save, TailEnds, Edit, placeVars
    <3>2. CASE Take(s) \/ Pause(s) \/ Send(s) \/ SendFails(s) \/ SinkEnds(s) \/ StartWorker(s)
      BY <3>2 DEF Take, Pause, Send, SendFails, SinkEnds, StartWorker, placeVars
    <3> QED
      BY <3>1, <3>2 DEF Working
  <2> QED
    BY <2>1, <1>0, <1>4, <1>5, <1>6 DEF Boundary
<1> QED
  BY <1>1, <1>2, <1>3, <1>7, <1>8 DEF WholeNow

\* So does the rest of the world: a new file has no position yet.
LEMMA WholeWorld ==
    ASSUME BasicInv, Next, WholeNow, Write \/ Rotate \/ Crash \/ Boot
    PROVE  WholeNow'
<1>0. /\ Typed /\ FileShape /\ epoch \in Nat /\ epoch >= 1
      /\ \A s \in Slots : PlaceOK(tail[s]) /\ tail[s].epoch \in Nat
      /\ PlaceOK(recorded) /\ PlaceOK(saved) /\ recorded.epoch \in Nat /\ saved.epoch \in Nat
  BY Values DEF BasicInv, TailOK
<1>1. CASE Write \/ Rotate
  <2>1. /\ tail' = tail /\ sink' = sink /\ recorded' = recorded /\ saved' = saved /\ broken' = broken
    BY <1>1 DEF Write, Rotate, placeVars, sentVars
  <2>2. \A s \in Slots : HeldTexts(s)' = HeldTexts(s)
    BY <2>1 DEF HeldTexts
  <2>3. ASSUME NEW s \in Slots, NEW x \in HeldTexts(s) PROVE Sound(x)'
    <3>1. Sound(x) /\ LineOf(x) \in Lines
      BY <2>3, TextLines DEF WholeNow
    <3> QED
      BY <3>1, BeforeKept DEF Sound
  <2>4. CASE file = Absent \/ Rotate
    <3>1. \A s \in Slots : tail[s].epoch # epoch'
      BY <2>4, <1>0, <1>1, WriteFacts, RotateFacts DEF PlaceOK
    <3>2. recorded.epoch # epoch' /\ saved.epoch # epoch'
      BY <2>4, <1>0, <1>1, WriteFacts, RotateFacts DEF PlaceOK
    <3>3. ASSUME NEW s \in Slots PROVE SliceOK(tail[s])'
      <4>1. SliceOK(tail[s])
        BY DEF WholeNow
      <4>2. tail[s].pending # << >> => tail[s].pending[1] \in Parts
        <5>1. tail[s].pending \in Seq(Parts) /\ Len(tail[s].pending) \in Nat
          BY Values DEF BasicInv
        <5>2. tail[s].pending # << >> => 1 \in 1 .. Len(tail[s].pending)
          BY <5>1
        <5> QED
          BY <5>1, <5>2
      <4>3. tail[s].pending # << >> => tail[s].pending[1][1] \in Lines
        BY <4>2 DEF Parts
      <4> QED
        BY <4>1, <4>3, <3>1, <2>1, BeforeKept DEF SliceOK
    <3> QED
      BY <2>1, <2>2, <2>3, <3>2, <3>3 DEF WholeNow
  <2>5. CASE file # Absent /\ Write
    <3>1. epoch' = epoch /\ Base' = Base
      BY <2>5, <1>0, WriteFacts
    <3>2. ASSUME NEW s \in Slots PROVE SliceOK(tail[s])'
      <4>1. SliceOK(tail[s])
        BY DEF WholeNow
      <4>2. tail[s].pending # << >> => tail[s].pending[1] \in Parts
        <5>1. tail[s].pending \in Seq(Parts) /\ Len(tail[s].pending) \in Nat
          BY Values DEF BasicInv
        <5>2. tail[s].pending # << >> => 1 \in 1 .. Len(tail[s].pending)
          BY <5>1
        <5> QED
          BY <5>1, <5>2
      <4>3. tail[s].pending # << >> => tail[s].pending[1][1] \in Lines
        BY <4>2 DEF Parts
      <4>4. PICK pos : pos = tail[s].pos
        OBVIOUS
      <4>5. tail[s].epoch = epoch /\ tail[s].pending = << >> => Boundary(pos)'
        BY <4>1, <4>4, <3>1, <2>5, BoundaryKept DEF SliceOK
      <4>6. tail[s].pending # << >> /\ tail[s].pending[1][2] = 2 =>
              fate'[tail[s].pending[1][1]] = "before"
        BY <4>1, <4>3, BeforeKept DEF SliceOK
      <4> QED
        BY <4>1, <4>4, <4>5, <4>6, <3>1, <2>1, <2>5 DEF SliceOK, Boundary
    <3>3. PICK p : p = recorded.pos
      OBVIOUS
    <3>4. PICK q : q = saved.pos
      OBVIOUS
    <3>5. /\ recorded.epoch = epoch => Boundary(p)'
          /\ saved.epoch = epoch => Boundary(q)'
      BY <3>1, <3>3, <3>4, BoundaryKept DEF WholeNow
    <3> QED
      BY <2>1, <2>2, <2>3, <3>1, <3>2, <3>3, <3>4, <3>5 DEF WholeNow, Boundary
  <2> QED
    BY <1>1, <2>4, <2>5
<1>2. CASE Crash \/ Boot
  <2>1. /\ Idle /\ file' = file /\ epoch' = epoch /\ Base' = Base
        /\ saved' = saved /\ broken' = broken
        /\ recorded' = NoPosition \/ recorded' = saved
    BY <1>2 DEF Crash, Boot, Idle, fileVars, sentVars, Base
  <2>2. ASSUME NEW s \in Slots PROVE SliceOK(tail[s])' /\ \A x \in HeldTexts(s)' : x \in HeldTexts(s)
    <3>1. CASE Crash
      <4>1. tail'[s] = NoTail /\ sink'[s] = NoSink
        BY <3>1, NoWorkers
      <4>2. SliceOK(tail[s])'
        BY <4>1, <2>1, <1>0, WholeSame DEF NoTail
      <4>3. HeldTexts(s)' = {}
        BY <4>1, NoEntries DEF HeldTexts, NoTail, NoSink
      <4> QED
        BY <4>2, <4>3
    <3>2. CASE Boot
      <4>1. tail' = tail /\ sink' = sink
        BY <3>2, WorkersAlone
      <4>2. SliceOK(tail[s])'
        BY <4>1, <2>1, WholeSame
      <4> QED
        BY <4>1, <4>2 DEF HeldTexts
    <3> QED
      BY <1>2, <3>1, <3>2
  <2>3. ASSUME NEW s \in Slots, NEW x \in HeldTexts(s)' PROVE Sound(x)'
    <3>1. Sound(x) /\ LineOf(x) \in Lines
      BY <2>2, <2>3, TextLines DEF WholeNow
    <3> QED
      BY <3>1, BeforeKept DEF Sound
  <2>4. PICK q : q = saved.pos
    OBVIOUS
  <2>5. saved.epoch = epoch => Boundary(q)'
    BY <2>1, <2>4, BoundaryKept DEF WholeNow
  <2>6. (saved.epoch = epoch => Boundary(saved.pos))'
    BY <2>1, <2>4, <2>5 DEF Boundary
  <2>7. (recorded.epoch = epoch => Boundary(recorded.pos))'
    BY <2>1, <2>4, <2>5, <1>0 DEF Boundary, NoPosition
  <2> QED
    BY <2>1, <2>2, <2>3, <2>6, <2>7 DEF WholeNow
<1> QED
  BY <1>1, <1>2

\* The third invariant is kept.
LEMMA WholeStep == BasicInv /\ WholeInv /\ [Next]_vars => WholeInv'
<1> SUFFICES ASSUME BasicInv, WholeInv, [Next]_vars, ~missed' PROVE WholeNow'
  BY DEF WholeInv
<1>1. CASE Next
  <2>1. WholeNow
    BY <1>1, MissedKept DEF BasicInv, WholeInv
  <2> QED
    BY <1>1, <2>1, WholeWorker, WholeWorld, StepKinds
<1>2. CASE UNCHANGED vars
  <2>1. UNCHANGED <<file, epoch, written, recorded, saved, tail, sink, fate, broken, missed>>
    BY <1>2 DEF vars, fileVars, placeVars, sentVars, pastVars
  <2>2. WholeNow
    BY <2>1 DEF WholeInv
  <2>3. \A s \in Slots : SliceOK(tail[s])' /\ HeldTexts(s)' = HeldTexts(s)
    BY <2>1, <2>2 DEF WholeNow, SliceOK, HeldTexts, Base, Boundary
  <2> QED
    BY <2>1, <2>2, <2>3 DEF WholeNow, Sound, Boundary, Base
<1> QED
  BY <1>1, <1>2

\* The start.
LEMMA WholeInit == Init => WholeInv
<1> SUFFICES ASSUME Init PROVE WholeNow
  BY DEF WholeInv
<1>1. /\ file = Absent /\ epoch = 1 /\ recorded = NoPosition /\ saved = NoPosition /\ broken = FALSE
      /\ tail = [s \in Slots |-> NoTail] /\ sink = [s \in Slots |-> NoSink]
  BY DEF Init
<1>2. \A s \in Slots : tail[s] = NoTail /\ sink[s] = NoSink
  BY <1>1
<1>3. \A s \in Slots : HeldTexts(s) = {}
  BY <1>2, NoEntries DEF HeldTexts, NoTail, NoSink
<1>4. \A s \in Slots : SliceOK(tail[s])
  BY <1>1, <1>2 DEF SliceOK, InARow, NoTail
<1> QED
  BY <1>1, <1>3, <1>4 DEF WholeNow, NoPosition

\* What is ingested is made of whole lines, whatever the places where the reads stop,
\* the restarts and the rotations, unless a rotation went unseen: each position is at the
\* beginning of a line, or behind one whose beginning the source was told to skip.
THEOREM LinesAreWhole == Spec => []WholeLines
<1>1. WholeInv /\ BasicInv => WholeLines
  BY DEF WholeInv, WholeNow, WholeLines
<1> QED
  BY <1>1, BasicInit, BasicStep, WholeInit, WholeStep, PTL DEF Spec
\* The lines that worker s has in hand after a step.
LEMMA InHandNext ==
    ASSUME BasicInv, Next, NEW s \in Slots
    PROVE  InHand(s)' = EndLines(tail'[s].pending) \cup Held(s)'
<1>1. Typed'
  BY BasicStep DEF BasicInv
<1>2. tail'[s] \in Tails
  BY <1>1 DEF Typed
<1>3. tail'[s].pending \in Seq(Parts)
  BY <1>2 DEF Tails
<1>4. LinesOf(Entries(tail'[s].pending)) = EndLines(tail'[s].pending)
  BY <1>3, EntriesLines
<1> QED
  BY <1>4 DEF InHand, Held

\* Only a tailer that records has read an end of line.
LEMMA NoEndWaits ==
    ASSUME BasicInv, NEW s \in Slots, tail[s].at # "record"
    PROVE  EndLines(tail[s].pending) = {}
<1>1. tail[s].pending \in Seq(Parts) /\ Len(tail[s].pending) \in Nat /\ PendingOK(tail[s])
  BY Values DEF BasicInv, TailOK
<1>2. DOMAIN tail[s].pending = 1 .. Len(tail[s].pending)
  BY <1>1
<1>3. \A i \in 1 .. Len(tail[s].pending) : tail[s].pending[i][2] = 1
  BY <1>1 DEF PendingOK
<1> QED
  BY <1>2, <1>3 DEF EndLines

\* A line in the hand of a worker stays there, is sent or is given up.
LEMMA HandKept ==
    ASSUME BasicInv, Next, file # Absent, NEW s \in Slots, Working(s),
           NEW l \in Lines, l \in InHand(s), count[l] = 0, fate[l] = "none"
    PROVE  Accounted(l)'
<1>0. /\ Typed /\ InHand(s) = EndLines(tail[s].pending) \cup Held(s)
      /\ InHand(s)' = EndLines(tail'[s].pending) \cup Held(s)'
  BY InHandIs, InHandNext DEF BasicInv
<1>1. CASE Read(s) \/ StartWorker(s)
  <2>1. tail[s].at # "record"
    BY <1>1 DEF Read, StartWorker, Free
  <2>2. l \in Held(s)
    BY <2>1, <1>0, NoEndWaits
  <2>3. Held(s)' = Held(s)
    BY <1>1, HeldFacts
  <2> QED
    BY <2>2, <2>3, <1>0 DEF Accounted
<1>2. CASE Record(s)
  BY <1>2, <1>0, HeldFacts DEF Accounted
<1>3. CASE Add(s) \/ Save(s) \/ Edit(s)
  <2>1. Held(s)' = Held(s)
    BY <1>3, HeldFacts
  <2>2. \E t \in Tails : Becomes(s, t) /\ t.pending = tail[s].pending
    BY <1>3, <1>0, QuietFacts
  <2>3. tail'[s].pending = tail[s].pending
    BY <2>2 DEF Becomes
  <2> QED
    BY <2>1, <2>3, <1>0 DEF Accounted
<1>4. CASE TailEnds(s)
  <2>1. tail[s].at # "record" /\ GivenUp(LinesOf(tail[s].todo), "lost")
    BY <1>4 DEF TailEnds
  <2>2. Held(s)' = LinesOf(sink[s].queue) \cup LinesOf(sink[s].batch)
    BY <1>4, HeldFacts
  <2>3. l \in LinesOf(tail[s].todo) \/ l \in Held(s)'
    BY <2>1, <2>2, <1>0, NoEndWaits DEF Held
  <2>4. CASE l \in LinesOf(tail[s].todo)
    BY <2>1, <2>4, <1>0, GivenFacts DEF Accounted
  <2> QED
    BY <2>3, <2>4, <1>0 DEF Accounted
<1>5. CASE Take(s) \/ Pause(s) \/ Send(s) \/ SendFails(s) \/ SinkEnds(s)
  <2>0. tail' = tail
    BY <1>5, TailersAlone
  <2>1. l \in EndLines(tail'[s].pending) \/ l \in Held(s)
    BY <2>0, <1>0
  <2>2. CASE Held(s)' = Held(s)
    BY <2>1, <2>2, <1>0 DEF Accounted
  <2>3. CASE Take(s)
    BY <2>2, <2>3, HeldFacts
  <2>4. CASE Pause(s)
    <3>1. \/ Held(s)' = Held(s)
          \/ /\ Held(s)' = LinesOf(tail[s].todo) \cup LinesOf(sink[s].queue)
             /\ GivenUp(LinesOf(sink[s].batch), "lost")
      BY <2>4, HeldFacts
    <3>2. CASE GivenUp(LinesOf(sink[s].batch), "lost") /\ l \in LinesOf(sink[s].batch)
      BY <3>2, <1>0, GivenFacts DEF Accounted
    <3> QED
      BY <3>1, <3>2, <2>1, <2>2, <1>0 DEF Accounted, Held
  <2>5. CASE Send(s)
    <3>1. Held(s)' = LinesOf(tail[s].todo) \cup LinesOf(sink[s].queue)
      BY <2>5, HeldFacts
    <3>2. CASE l \in LinesOf(sink[s].batch)
      <4>1. count'[l] = 1
        BY <2>5, <3>2 DEF Send, Ingested
      <4> QED
        BY <4>1 DEF Accounted
    <3> QED
      BY <3>1, <3>2, <2>1, <1>0 DEF Accounted, Held
  <2>6. CASE SendFails(s)
    <3>1. Held(s)' = LinesOf(tail[s].todo) \cup LinesOf(sink[s].queue)
      BY <2>6, HeldFacts
    <3>2. CASE l \in LinesOf(sink[s].batch)
      <4>1. GivenUp(LinesOf(sink[s].batch), "lost")
        BY <2>6 DEF SendFails
      <4> QED
        BY <4>1, <3>2, <1>0, GivenFacts DEF Accounted
    <3> QED
      BY <3>1, <3>2, <2>1, <1>0 DEF Accounted, Held
  <2>7. CASE SinkEnds(s)
    <3>1. Held(s)' = LinesOf(tail[s].todo)
      BY <2>7, HeldFacts
    <3>2. CASE l \in LinesOf(sink[s].queue) \cup LinesOf(sink[s].batch)
      <4>1. GivenUp(LinesOf(sink[s].queue) \cup LinesOf(sink[s].batch), "lost")
        BY <2>7 DEF SinkEnds
      <4> QED
        BY <4>1, <3>2, <1>0, GivenFacts DEF Accounted
    <3> QED
      BY <3>1, <3>2, <2>1, <1>0 DEF Accounted, Held
  <2> QED
    BY <1>5, <2>3, <2>4, <2>5, <2>6, <2>7
<1>6. ~ScanNothing(s)
  BY DEF ScanNothing
<1> QED
  BY <1>1, <1>2, <1>3, <1>4, <1>5, <1>6 DEF Working

\* A line that is accounted for stays so, except that what the process has read and not
\* sent when it ends is not, beyond the position that has been saved.
LEMMA AccountedKept ==
    ASSUME BasicInv, Next, file # Absent, NEW l \in Lines, Accounted(l),
           Crash => l \notin Ahead(saved.pos)
    PROVE  Accounted(l)'
<1>0. Typed
  BY DEF BasicInv
<1>1. CASE count[l] > 0
  <2>1. count'[l] > 0
    BY <1>1, CountFacts
  <2> QED
    BY <2>1 DEF Accounted
<1>2. CASE fate[l] # "none"
  <2>1. fate'[l] = fate[l]
    BY <1>2, FateFacts
  <2> QED
    BY <1>2, <2>1 DEF Accounted
<1>3. ASSUME count[l] = 0, fate[l] = "none", NEW s \in Slots, l \in InHand(s)
      PROVE  Accounted(l)'
  <2>1. CASE Write \/ Rotate \/ Boot
    <3>1. tail' = tail /\ sink' = sink
      BY <2>1, WorkersAlone
    <3>2. InHand(s)' = InHand(s)
      BY <3>1 DEF InHand
    <3> QED
      BY <3>2, <1>3 DEF Accounted
  <2>2. CASE Crash
    <3>1. GivenUp((UNION {InHand(r) : r \in Slots}) \ Ahead(saved.pos), "lost")
      BY <2>2 DEF Crash
    <3>2. l \in (UNION {InHand(r) : r \in Slots}) \ Ahead(saved.pos)
      <4>1. l \notin Ahead(saved.pos)
        BY <2>2
      <4>2. InHand(s) \in {InHand(r) : r \in Slots}
        OBVIOUS
      <4>3. l \in UNION {InHand(r) : r \in Slots}
        BY <4>2, <1>3, Zenon
      <4> QED
        BY <4>1, <4>3
    <3> QED
      BY <3>1, <3>2, <1>0, <1>3, GivenFacts DEF Accounted
  <2>3. ASSUME NEW r \in Slots, Working(r) PROVE Accounted(l)'
    <3>1. CASE r = s
      BY <3>1, <1>3, <2>3, HandKept
    <3>2. CASE r # s
      <4>1. tail'[s] = tail[s] /\ sink'[s] = sink[s]
        BY <2>3, <3>2, OthersAlone
      <4>2. InHand(s)' = InHand(s)
        BY <4>1 DEF InHand
      <4> QED
        BY <4>2, <1>3 DEF Accounted
    <3> QED
      BY <3>1, <3>2
  <2> QED
    BY <2>1, <2>2, <2>3, StepKinds
<1>4. count[l] \in 0 .. 2
  BY <1>0 DEF Typed
<1> QED
  BY <1>1, <1>2, <1>3, <1>4 DEF Accounted

\* So do the lines of the file up to a position.
LEMMA AccountedToKept ==
    ASSUME BasicInv, Next, file # Absent, ~Crash, Base' = Base, NEW pos, AccountedTo(pos)
    PROVE  AccountedTo(pos)'
BY AccountedKept DEF AccountedTo
\* What a read adds to the positions: the lines before the place where it starts are
\* those that were accounted for, or are given up because StartAtEnd skips them.
LEMMA ReadAccounts ==
    ASSUME BasicInv, Next, AccountNow, NEW s \in Slots, Read(s), ~missed',
           NEW pos, pos = tail'[s].pos - Len(tail'[s].pending)
    PROVE  AccountedTo(pos)'
<1>0. /\ Typed /\ FileShape /\ file # Absent /\ file \in Seq(Parts) /\ Len(file) \in Nat /\ Base \in Nat
      /\ epoch' = epoch /\ file' = file /\ Base' = Base /\ count' = count
      /\ tail[s].pending \in Seq(Parts) /\ Len(tail[s].pending) \in Nat /\ tail[s].pos \in Nat
      /\ ~Crash
  <2>1. /\ Typed /\ FileShape /\ file # Absent
        /\ epoch' = epoch /\ file' = file /\ Base' = Base /\ count' = count
    BY DEF BasicInv, Read, fileVars, sentVars, Base
  <2>2. ~Crash
    BY DEF Read, Crash
  <2> QED
    BY <2>1, <2>2, Values, FirstBoundary
<1>1. PICK start \in 0 .. Len(file), end \in 0 .. Len(file), old \in Seq(Parts), t \in Tails :
         ReadsAs(s, start, end, old, t)
  BY ReadFacts
<1>2. /\ start <= end /\ SetTail(s, t) /\ t.pos = end
      /\ t.pending = old \o SubSeq(file, start + 1, end)
  BY <1>1 DEF ReadsAs
<1>3. tail'[s] = t
  BY <1>0, <1>2, OneTail
<1>4. start \in Nat /\ end \in Nat /\ Len(old) \in Nat
  BY <1>0
<1>5. Len(t.pending) = Len(old) + (end - start)
  <2> DEFINE q == old \o SubSeq(file, start + 1, end)
  <2>1. Len(q) = Len(old) + (end - start)
    BY <1>0, <1>2, Added
  <2> HIDE DEF q
  <2>2. t.pending = q
    BY <1>2 DEF q
  <2> QED
    BY <2>1, <2>2
<1>6. pos = start - Len(old)
  <2>1. pos = t.pos - Len(t.pending)
    BY <1>3
  <2> HIDE <1>3
  <2>2. pos = end - (Len(old) + (end - start))
    BY <2>1, <1>2, <1>5
  <2>3. \A a, b, c \in Nat : b - (a + (b - c)) = c - a
    OBVIOUS
  <2> QED
    BY <2>2, <2>3, <1>4
<1>7. CASE tail[s].epoch = epoch /\ start = tail[s].pos /\ old = tail[s].pending
  <2>1. AccountedTo(pos)
    BY <1>6, <1>7 DEF AccountNow
  <2> QED
    BY <2>1, <1>0, AccountedToKept
<1>8. CASE recorded.epoch = epoch /\ start = recorded.pos /\ old = << >>
  <2>1. pos = recorded.pos
    BY <1>4, <1>6, <1>8
  <2>2. AccountedTo(pos)
    BY <2>1, <1>8 DEF AccountNow
  <2> QED
    BY <2>2, <1>0, AccountedToKept
<1>9. CASE start = 0 /\ old = << >>
  <2>1. pos = 0
    BY <1>4, <1>6, <1>9
  <2>2. \A l \in Lines : ~(Base < 2 * l /\ 2 * l <= Base + pos)
    BY <2>1, <1>0 DEF Lines
  <2> QED
    BY <2>2, <1>0 DEF AccountedTo
<1>10. CASE FromEnd(s) /\ start = Len(file) /\ old = << >>
  <2>1. pos = start
    BY <1>4, <1>6, <1>10
  <2>2. GivenUp({file[i][1] : i \in 1 .. start}, "before")
    BY <1>1, <1>10 DEF ReadsAs
  <2>3. ASSUME NEW l \in Lines, Base < 2 * l, 2 * l <= Base + pos PROVE Accounted(l)'
    <3>1. PICK i \in 1 .. Len(file) : i = 2 * l - Base
      BY <2>1, <2>3, <1>0, <1>10 DEF Lines
    <3>2. file[i] \in Parts /\ Number(file[i]) = 2 * l
      BY SMTT(90), <3>1, <1>0 DEF FileShape, Lines
    <3>3. file[i][1] = l
      BY SMTT(90), <3>2, NextPart DEF Number, Lines
    <3>4. l \in {file[j][1] : j \in 1 .. start}
      BY <3>1, <3>3, <1>10
    <3>5. count[l] > 0 \/ fate'[l] # "none"
      BY ZenonT(90), <3>4, <2>2, <1>0, GivenFacts
    <3> QED
      BY <3>5, <1>0 DEF Accounted
  <2> QED
    BY <2>3, <1>0 DEF AccountedTo
<1> QED
  BY <1>1, <1>7, <1>8, <1>9, <1>10 DEF ReadsAs

\* What Record adds to the position: the lines that it has parsed.
LEMMA RecordAccounts ==
    ASSUME BasicInv, Next, WholeNow, AccountNow, file # Absent, NEW s \in Slots, Record(s),
           tail[s].epoch = epoch, NEW pos, pos = tail[s].pos - Len(tail'[s].pending)
    PROVE  AccountedTo(pos)'
<1> DEFINE p == tail[s].pending
           n == LastEnd(p)
<1>0. /\ Typed /\ file' = file /\ Base' = Base /\ Base \in Nat /\ ~Crash
      /\ tail[s].pending \in Seq(Parts) /\ Len(tail[s].pending) \in Nat /\ tail[s].pos \in Nat
  <2>1. Typed /\ file' = file /\ Base' = Base
    BY DEF BasicInv, Record, fileVars, Base
  <2>2. ~Crash
    BY DEF Record, Crash
  <2> QED
    BY <2>1, <2>2, Values, FirstBoundary
<1>1. PICK t \in Tails : SetTail(s, t) /\ n \in 0 .. Len(p) /\ Len(t.pending) = Len(p) - n
  BY RecordFacts
<1>2. tail'[s] = t
  BY <1>0, <1>1, OneTail
<1>3. n \in Nat /\ pos = tail[s].pos - Len(p) + n
  BY <1>0, <1>1, <1>2
<1>4. PICK q : q = tail[s].pos - Len(p)
  OBVIOUS
<1>5. AccountedTo(q)
  BY <1>4 DEF AccountNow
<1>6. AccountedTo(q)'
  BY <1>0, <1>5, AccountedToKept
<1>7. \A i \in 1 .. Len(p) : Number(p[i]) = Base + tail[s].pos - Len(p) + i
  BY DEF WholeNow, SliceOK
<1>8. ASSUME NEW l \in Lines, Base < 2 * l, 2 * l <= Base + pos PROVE Accounted(l)'
  <2>0. l \in Nat
    BY DEF Lines
  <2>1. CASE 2 * l <= Base + q
    BY <2>1, <1>0, <1>6, <1>8 DEF AccountedTo
  <2>2. CASE ~(2 * l <= Base + q)
    <3>1. PICK i \in 1 .. Len(p) : i = 2 * l - Base - q
      <4>1. 2 * l - Base - q \in 1 .. Len(p)
        BY SMTT(90), <2>0, <2>2, <1>0, <1>1, <1>3, <1>4, <1>8
      <4> QED
        BY <4>1
    <3>2. p[i] \in Parts
      BY <1>0
    <3>3. Number(p[i]) = 2 * l
      <4>1. Number(p[i]) = Base + tail[s].pos - Len(p) + i
        BY <1>7
      <4>2. i \in Nat /\ i = 2 * l - Base - (tail[s].pos - Len(p))
        BY <3>1, <1>0, <1>4
      <4>3. \A a, b, c, d, e \in Nat : e = 2 * a - b - (c - d) => b + c - d + e = 2 * a
        OBVIOUS
      <4> QED
        BY SMTT(90), <4>1, <4>2, <4>3, <2>0, <1>0
    <3>4. p[i][1] = l /\ p[i][2] = 2
      BY SMTT(90), <3>2, <3>3, <2>0, NextPart DEF Number
    <3>5. l \in EndLines(p)
      <4>1. DOMAIN p = 1 .. Len(p)
        BY <1>0
      <4> QED
        BY <3>4, <4>1 DEF EndLines
    <3>6. l \in Held(s)'
      BY <3>5, HeldFacts
    <3> QED
      BY <3>6, InHandNext DEF Accounted
  <2> QED
    BY <2>1, <2>2
<1> QED
  BY <1>0, <1>8 DEF AccountedTo
\* A worker keeps the fourth invariant.
LEMMA AccountWorker ==
    ASSUME BasicInv, Next, WholeNow, AccountNow, file # Absent, NEW s \in Slots, Working(s), ~missed'
    PROVE  AccountNow'
<1>0. /\ Typed /\ Idle /\ file' = file /\ epoch' = epoch /\ Base' = Base /\ ~Crash
      /\ epoch \in Nat /\ epoch >= 1
  <2>1. Typed /\ Idle /\ file' = file /\ epoch' = epoch /\ Base' = Base
    BY OthersAlone DEF BasicInv, Idle, Base
  <2>2. ~Crash
    <3>1. CASE ScanNothing(s) \/ Read(s) \/ Record(s) \/ Add(s) \/ Save(s) \/ TailEnds(s) \/ Edit(s)
      BY <3>1 DEF ScanNothing, Read, Record, Add, Save, TailEnds, Edit, Crash
    <3>2. CASE Take(s) \/ Pause(s) \/ Send(s) \/ SendFails(s) \/ SinkEnds(s) \/ StartWorker(s)
      BY <3>2 DEF Take, Pause, Send, SendFails, SinkEnds, StartWorker, Crash
    <3> QED
      BY <3>1, <3>2 DEF Working
  <2> QED
    BY <2>1, <2>2, Values
<1>1. ASSUME NEW r \in Slots, tail'[r].epoch = epoch, NEW pos,
             pos = tail'[r].pos - Len(tail'[r].pending)
      PROVE  AccountedTo(pos)'
  <2>1. CASE /\ tail'[r].pending = tail[r].pending /\ tail'[r].pos = tail[r].pos
             /\ tail'[r].epoch = tail[r].epoch
    <3>1. AccountedTo(pos)
      BY <2>1, <1>1 DEF AccountNow
    <3> QED
      BY <3>1, <1>0, AccountedToKept
  <2>2. CASE tail'[r] = tail[r]
    BY <2>1, <2>2
  <2>3. CASE Read(r)
    BY <2>3, <1>1, ReadAccounts
  <2>4. CASE Record(r)
    <3>1. PICK t \in Tails : SetTail(r, t) /\ t.pos = tail[r].pos /\ t.epoch = tail[r].epoch
      BY <2>4, RecordFacts
    <3>2. tail'[r] = t
      BY <3>1, <1>0, OneTail
    <3> QED
      BY <3>1, <3>2, <2>4, <1>1, RecordAccounts
  <2>5. CASE Add(r) \/ Save(r) \/ Edit(r)
    <3>1. \E t \in Tails : Becomes(r, t) /\ t.pending = tail[r].pending
      BY <2>5, <1>0, QuietFacts
    <3> QED
      BY <3>1, <2>1 DEF Becomes
  <2>6. CASE TailEnds(r) \/ StartWorker(r)
    <3>1. SetTail(r, NoTail) \/ SetTail(r, [NoTail EXCEPT !.at = "scan"])
      BY <2>6 DEF TailEnds, StartWorker
    <3>2. tail'[r].epoch = 0
      BY <3>1, <1>0, Nothing, OneTail DEF NoTail
    <3> QED
      BY <3>2, <1>0, <1>1
  <2>7. CASE Take(r) \/ Pause(r) \/ Send(r) \/ SendFails(r) \/ SinkEnds(r)
    BY <2>2, <2>7, TailersAlone
  <2>8. ~ScanNothing(r)
    BY DEF ScanNothing
  <2>9. r # s => tail'[r] = tail[r]
    BY OthersAlone
  <2> QED
    BY <2>2, <2>3, <2>4, <2>5, <2>6, <2>7, <2>8, <2>9 DEF Working
<1>2. PICK p : p = recorded.pos
  OBVIOUS
<1>3. PICK q : q = saved.pos
  OBVIOUS
<1>4. /\ recorded.epoch = epoch => AccountedTo(p)'
      /\ saved.epoch = epoch => AccountedTo(q)'
  BY <1>0, <1>2, <1>3, AccountedToKept DEF AccountNow
<1>5. (recorded.epoch = epoch => AccountedTo(recorded.pos))'
  <2>1. CASE Record(s)
    <3>1. PICK t \in Tails :
             /\ SetTail(s, t) /\ t.pos = tail[s].pos /\ t.epoch = tail[s].epoch
             /\ recorded'.pos = tail[s].pos - Len(t.pending) /\ recorded'.epoch = tail[s].epoch
      BY <2>1, RecordFacts
    <3>2. tail'[s] = t
      BY <3>1, <1>0, OneTail
    <3>3. PICK pos : pos = tail'[s].pos - Len(tail'[s].pending)
      OBVIOUS
    <3>4. recorded'.epoch = epoch' => AccountedTo(pos)'
      BY <3>1, <3>2, <3>3, <1>0, <1>1
    <3>5. recorded'.pos = pos
      BY <3>1, <3>2, <3>3
    <3> QED
      BY <3>4, <3>5 DEF AccountedTo
  <2>2. CASE ~Record(s)
    <3>1. recorded' = recorded
      BY <2>2, PlaceAlone
    <3> QED
      BY <3>1, <1>0, <1>2, <1>4 DEF AccountedTo
  <2> QED
    BY <2>1, <2>2
<1>6. (saved.epoch = epoch => AccountedTo(saved.pos))'
  <2>1. saved' = saved \/ saved' = recorded
    <3>1. CASE ScanNothing(s) \/ Read(s) \/ Record(s) \/ Add(s) \/ Save(s) \/ TailEnds(s) \/ Edit(s)
      BY <3>1 DEF ScanNothing, Read, Record, Add, Save, TailEnds, Edit, placeVars
    <3>2. CASE Take(s) \/ Pause(s) \/ Send(s) \/ SendFails(s) \/ SinkEnds(s) \/ StartWorker(s)
      BY <3>2 DEF Take, Pause, Send, SendFails, SinkEnds, StartWorker, placeVars
    <3> QED
      BY <3>1, <3>2 DEF Working
  <2> QED
    BY <2>1, <1>0, <1>2, <1>3, <1>4 DEF AccountedTo
<1>7. ASSUME NEW r \in Slots
      PROVE  (tail[r].epoch = epoch => AccountedTo(tail[r].pos - Len(tail[r].pending)))'
  <2>1. PICK pos : pos = tail'[r].pos - Len(tail'[r].pending)
    OBVIOUS
  <2>2. tail'[r].epoch = epoch => AccountedTo(pos)'
    BY <2>1, <1>1
  <2> QED
    BY <2>1, <2>2, <1>0 DEF AccountedTo
<1> QED
  BY <1>5, <1>6, <1>7 DEF AccountNow

\* A new file has no position, and one that grows keeps those it has.
LEMMA AccountFile ==
    ASSUME BasicInv, Next, AccountInv, Write \/ Rotate, ~missed', file' # Absent
    PROVE  AccountNow'
<1>0. /\ Typed /\ FileShape /\ epoch \in Nat
      /\ \A s \in Slots : PlaceOK(tail[s]) /\ tail[s].epoch \in Nat
      /\ PlaceOK(recorded) /\ PlaceOK(saved) /\ recorded.epoch \in Nat /\ saved.epoch \in Nat
  BY Values DEF BasicInv, TailOK
<1>1. /\ tail' = tail /\ recorded' = recorded /\ saved' = saved /\ missed' = missed /\ ~Crash
  BY DEF Write, Rotate, placeVars, Crash
<1>2. CASE file = Absent \/ Rotate
  <2>1. \A s \in Slots : tail[s].epoch # epoch'
    BY <1>2, <1>0, WriteFacts, RotateFacts DEF PlaceOK
  <2>2. recorded.epoch # epoch' /\ saved.epoch # epoch'
    BY <1>2, <1>0, WriteFacts, RotateFacts DEF PlaceOK
  <2> QED
    BY <2>1, <2>2, <1>1 DEF AccountNow
<1>3. CASE file # Absent /\ Write
  <2>1. epoch' = epoch /\ Base' = Base
    BY <1>3, <1>0, WriteFacts
  <2>2. AccountNow
    BY <1>1, <1>3 DEF AccountInv
  <2>3. ASSUME NEW s \in Slots
        PROVE  (tail[s].epoch = epoch => AccountedTo(tail[s].pos - Len(tail[s].pending)))'
    <3>1. PICK pos : pos = tail[s].pos - Len(tail[s].pending)
      OBVIOUS
    <3>2. tail[s].epoch = epoch => AccountedTo(pos)'
      BY <3>1, <2>1, <2>2, <1>1, <1>3, AccountedToKept DEF AccountNow
    <3> QED
      BY <3>1, <3>2, <2>1, <1>1 DEF AccountedTo
  <2>4. PICK p : p = recorded.pos
    OBVIOUS
  <2>5. PICK q : q = saved.pos
    OBVIOUS
  <2>6. /\ recorded.epoch = epoch => AccountedTo(p)'
        /\ saved.epoch = epoch => AccountedTo(q)'
    BY <2>1, <2>2, <2>4, <2>5, <1>1, <1>3, AccountedToKept DEF AccountNow
  <2> QED
    BY <2>1, <2>3, <2>4, <2>5, <2>6, <1>1 DEF AccountNow, AccountedTo
<1> QED
  BY <1>2, <1>3

\* The process that ends forgets all positions but the saved one, from which the next
\* one goes on.
LEMMA AccountProcess ==
    ASSUME BasicInv, Next, AccountNow, file # Absent, Crash \/ Boot
    PROVE  AccountNow'
<1>0. /\ Typed /\ epoch \in Nat /\ epoch >= 1 /\ saved.pos \in Nat
      /\ Idle /\ file' = file /\ epoch' = epoch /\ Base' = Base /\ saved' = saved
  <2>1. /\ Typed /\ Idle /\ file' = file /\ epoch' = epoch /\ Base' = Base /\ saved' = saved
    BY DEF BasicInv, Crash, Boot, Idle, fileVars, Base
  <2> QED
    BY <2>1, Values
<1>1. PICK q : q = saved.pos
  OBVIOUS
<1>2. CASE Crash
  <2>1. ASSUME NEW l \in Lines, 2 * l <= Base + q PROVE l \notin Ahead(saved.pos)
    <3>1. ASSUME NEW i \in DOMAIN file, i > saved.pos, file[i][2] = 2 PROVE file[i][1] # l
      <4>1. i \in 1 .. Len(file)
        BY <1>0, Values
      <4>2. 2 * file[i][1] = Base + i /\ Base \in Nat /\ i \in Nat
        BY <4>1, <3>1, FileEnds
      <4> QED
        BY <4>2, <3>1, <2>1, <1>0, <1>1
    <3> QED
      BY <3>1 DEF Ahead
  <2>2. saved.epoch = epoch => AccountedTo(q)'
    BY <2>1, <1>0, <1>1, AccountedKept DEF AccountNow, AccountedTo
  <2>3. (saved.epoch = epoch => AccountedTo(saved.pos))'
    BY <2>2, <1>0, <1>1 DEF AccountedTo
  <2>4. recorded'.epoch = 0 /\ \A s \in Slots : tail'[s].epoch = 0
    BY <1>2, NoWorkers DEF NoTail, NoPosition
  <2> QED
    BY <2>3, <2>4, <1>0 DEF AccountNow
<1>3. CASE Boot
  <2>1. tail' = tail /\ recorded' = saved /\ ~Crash
    BY <1>3 DEF Boot, Crash
  <2>2. saved.epoch = epoch => AccountedTo(q)'
    BY <2>1, <1>0, <1>1, AccountedToKept DEF AccountNow
  <2>3. ASSUME NEW s \in Slots
        PROVE  (tail[s].epoch = epoch => AccountedTo(tail[s].pos - Len(tail[s].pending)))'
    <3>1. PICK pos : pos = tail[s].pos - Len(tail[s].pending)
      OBVIOUS
    <3>2. tail[s].epoch = epoch => AccountedTo(pos)'
      BY <3>1, <2>1, <1>0, AccountedToKept DEF AccountNow
    <3> QED
      BY <3>1, <3>2, <2>1, <1>0 DEF AccountedTo
  <2> QED
    BY <2>1, <2>2, <2>3, <1>0, <1>1 DEF AccountNow, AccountedTo
<1> QED
  BY <1>2, <1>3

\* The fourth invariant is kept.
LEMMA AccountStep == BasicInv /\ WholeInv /\ AccountInv /\ [Next]_vars => AccountInv'
<1> SUFFICES ASSUME BasicInv, WholeInv, AccountInv, [Next]_vars, ~missed', file' # Absent
             PROVE  AccountNow'
  BY DEF AccountInv
<1>1. CASE Next
  <2>1. ~missed /\ WholeNow
    BY <1>1, MissedKept DEF BasicInv, WholeInv
  <2>2. CASE Write \/ Rotate
    BY <1>1, <2>2, AccountFile
  <2>3. CASE ~(Write \/ Rotate)
    <3>1. file # Absent
      BY <1>1, <2>3, OthersIdle DEF Idle
    <3>2. AccountNow
      BY <2>1, <3>1 DEF AccountInv
    <3> QED
      BY <1>1, <2>1, <2>3, <3>1, <3>2, AccountWorker, AccountProcess, StepKinds
  <2> QED
    BY <2>2, <2>3
<1>2. CASE UNCHANGED vars
  <2>1. UNCHANGED <<file, epoch, written, recorded, saved, tail, sink, count, fate, missed>>
    BY <1>2 DEF vars, fileVars, placeVars, sentVars, pastVars
  <2>2. AccountNow
    BY <2>1 DEF AccountInv
  <2>3. \A l : Accounted(l)' <=> Accounted(l)
    BY <2>1 DEF Accounted, InHand
  <2> QED
    BY <2>1, <2>2, <2>3 DEF AccountNow, AccountedTo, Base
<1> QED
  BY <1>1, <1>2

\* Every line that lies before the recorded position has been ingested, is on its way
\* through a worker or has been given up for a known reason, unless a rotation went
\* unseen: the tailer records what it has parsed, and the saved position never passes
\* the recorded one.
THEOREM NoLineForgotten == Spec => []LinesAccountedFor
<1>1. Init => AccountInv
  BY DEF Init, AccountInv
<1>2. AccountInv /\ BasicInv => LinesAccountedFor
  <2> SUFFICES ASSUME AccountInv, BasicInv, ~missed, recorded.epoch = epoch, file # Absent,
                      NEW i \in DOMAIN file, i <= recorded.pos, file[i][2] = 2
               PROVE  Accounted(file[i][1])
    BY DEF LinesAccountedFor, Accounted
  <2>1. i \in 1 .. Len(file) /\ recorded.pos \in Nat
    BY Values DEF BasicInv
  <2>2. /\ file[i][1] \in Lines /\ 2 * file[i][1] = Base + i /\ Base \in Nat /\ i \in Nat /\ i >= 1
    BY <2>1, FileEnds
  <2>3. AccountedTo(recorded.pos)
    BY DEF AccountInv, AccountNow
  <2>4. Base < 2 * file[i][1] /\ 2 * file[i][1] <= Base + recorded.pos
    BY <2>1, <2>2
  <2> QED
    BY <2>2, <2>3, <2>4 DEF AccountedTo
<1> QED
  BY <1>1, <1>2, BasicInit, BasicStep, WholeInit, WholeStep, AccountStep, PTL DEF Spec
=============================================================================
