---------------------------- MODULE LogsPage_proofs ----------------------------
(***************************************************************************)
(* The list of the page of the logs, for every set of logs, every order in *)
(* which they are stored, and every size of page and of window: it is a    *)
(* window of what its query asks for, or the logs of the stream.           *)
(***************************************************************************)
EXTENDS MCParts, FiniteSetTheorems, WellFoundedInduction, TLAPS

-----------------------------------------------------------------------------
(* The logs and their order.                                               *)

Asked    == [query : LogsPage!Queries, page : Seq(Logs) \cup {Null}, stored : SUBSET Logs]
AskedFor == [query : LogsPage!Queries, direction : {"older", "newer"}, from : Logs, page : Seq(Logs) \cup {Null}]
Streams  == [query : LogsPage!Queries, open : BOOLEAN, channel : Seq(Logs)]

\* What the constants are: dates and keys are numbers, and two logs of one microsecond have
\* different keys.
PageAssumption ==
    /\ IsFiniteSet(Logs) /\ Precision \in Nat \ {0}
    /\ \A r \in Logs : r.tick \in Nat /\ r.key \in Nat
    /\ \A a, b \in Logs : LogsPage!Micro(a) = LogsPage!Micro(b) /\ a.key = b.key => a = b
    /\ \A q \in LogsPage!Queries : Matching[q] \subseteq Logs
    /\ FirstQuery \in LogsPage!Queries
    /\ PageSize \in Nat \ {0} /\ MaxItems \in Nat \ {0}
    /\ MaxLive \in Nat /\ ChannelSize \in Nat /\ BatchSize \in Nat /\ MaxActs \in Nat
    /\ Null \notin Logs \cup Seq(Logs) \cup Asked \cup AskedFor \cup Streams

\* The logs s are in the order of the list.
Ordered(s) == \A i, j \in DOMAIN s : i < j => LogsPage!Above(s[i], s[j])

\* A microsecond and its ticks.
LEMMA MicroFacts ==
    ASSUME PageAssumption, NEW r \in Logs
    PROVE  /\ LogsPage!Micro(r) \in Nat
           /\ Precision * LogsPage!Micro(r) <= r.tick /\ r.tick <= Precision * (LogsPage!Micro(r) + 1)
<1>1. r.tick \in Nat /\ Precision \in Nat /\ Precision > 0
  BY DEF PageAssumption
<1>2. \A a \in Nat, p \in Nat : p > 0 => /\ a \div p \in Nat
                                         /\ p * (a \div p) <= a /\ a <= p * ((a \div p) + 1)
  BY SMTT(60)
<1> QED
  BY <1>1, <1>2 DEF LogsPage!Micro

\* Above is a strict order of the logs, and a total one.
LEMMA AboveOrder ==
    ASSUME PageAssumption
    PROVE  /\ \A a, b \in Logs : LogsPage!Above(a, b) => ~ LogsPage!Above(b, a) /\ a # b
           /\ \A a, b \in Logs : a # b => LogsPage!Above(a, b) \/ LogsPage!Above(b, a)
           /\ \A a, b, c \in Logs : LogsPage!Above(a, b) /\ LogsPage!Above(b, c) => LogsPage!Above(a, c)
<1>1. \A r \in Logs : LogsPage!Micro(r) \in Nat /\ r.key \in Nat
  BY MicroFacts DEF PageAssumption
<1>2. \A a, b \in Logs : LogsPage!Micro(a) = LogsPage!Micro(b) /\ a.key = b.key => a = b
  BY DEF PageAssumption
<1>3. \A a, b \in Logs : LogsPage!Above(a, b) => ~ LogsPage!Above(b, a) /\ a # b
  BY <1>1 DEF LogsPage!Above
<1>4. \A a, b \in Logs : a # b => LogsPage!Above(a, b) \/ LogsPage!Above(b, a)
  BY <1>1, <1>2 DEF LogsPage!Above
<1>5. \A a, b, c \in Logs : LogsPage!Above(a, b) /\ LogsPage!Above(b, c) => LogsPage!Above(a, c)
  BY <1>1 DEF LogsPage!Above
<1> QED
  BY <1>3, <1>4, <1>5

\* The list s has the logs of S, in their order.
Lists(S, s) == s \in [1 .. Cardinality(S) -> S] /\ Ordered(s)

\* Any logs can be put in order: those above one of them, that one, those below.
LEMMA ListExists ==
    ASSUME PageAssumption, NEW S \in SUBSET Logs
    PROVE  \E s : Lists(S, s)
<1> DEFINE Bad == {T \in SUBSET Logs : ~ \E s : Lists(T, s)}
<1>1. SUFFICES ASSUME Bad # {} PROVE FALSE
  OBVIOUS
<1>2. \A T \in SUBSET Logs : IsFiniteSet(T) /\ T \in FiniteSubsetsOf(Logs)
  BY FS_Subset DEF PageAssumption, FiniteSubsetsOf
<1>3. \E T \in Bad : \A R \in Bad : <<R, T>> \notin StrictSubsetOrdering(Logs)
  <2> HIDE DEF Bad
  <2>1. Bad \subseteq FiniteSubsetsOf(Logs)
    BY <1>2 DEF Bad
  <2>2. IsWellFoundedOn(StrictSubsetOrdering(Logs), FiniteSubsetsOf(Logs))
    BY FS_StrictSubsetOrderingWellFounded
  <2> QED
    BY <1>1, <2>1, <2>2, WFMin
<1>4. PICK T \in SUBSET Logs : /\ ~ \E s : Lists(T, s)
                               /\ \A R \in SUBSET T : R # T => \E s : Lists(R, s)
  <2>1. PICK T \in Bad : \A R \in Bad : <<R, T>> \notin StrictSubsetOrdering(Logs)
    BY <1>3
  <2>2. \A R \in SUBSET T : R # T => <<R, T>> \in StrictSubsetOrdering(Logs)
    BY <2>1 DEF StrictSubsetOrdering
  <2>3. T \in SUBSET Logs /\ ~ \E s : Lists(T, s)
    BY <2>1
  <2>4. ASSUME NEW R \in SUBSET T, R # T PROVE \E s : Lists(R, s)
    <3>1. R \notin Bad /\ R \in SUBSET Logs
      BY <2>1, <2>2, <2>3, <2>4
    <3> QED
      BY <3>1
  <2> QED
    BY <2>3, <2>4
<1>5. T # {}
  <2>1. Lists({}, [i \in 1 .. 0 |-> 0])
    BY FS_EmptySet DEF Lists, Ordered
  <2> QED
    BY <1>4, <2>1
<1>6. PICK x \in T : TRUE
  BY <1>5
<1> DEFINE L == {r \in T : LogsPage!Above(r, x)}
           U == {r \in T : LogsPage!Above(x, r)}
<1>7. L \in SUBSET T /\ U \in SUBSET T /\ x \notin L /\ x \notin U /\ L \cap U = {}
      /\ T = (L \cup U) \cup {x} /\ x \in Logs
  BY <1>4, <1>6, AboveOrder
<1>8. /\ \A a \in L, b \in U : LogsPage!Above(a, b) 
      /\ \A a \in L : LogsPage!Above(a, x)
      /\ \A b \in U : LogsPage!Above(x, b)
  BY <1>4, <1>6, <1>7, AboveOrder
<1> HIDE DEF L, U
<1>9. PICK p : Lists(L, p)
  BY <1>4, <1>6, <1>7
<1>10. PICK u : Lists(U, u)
  BY <1>4, <1>6, <1>7
<1> DEFINE l == Cardinality(L)
           m == Cardinality(U)
<1>11. l \in Nat /\ m \in Nat /\ Cardinality(T) = l + m + 1
  <2>1. IsFiniteSet(L) /\ IsFiniteSet(U) /\ IsFiniteSet(L \cup U) /\ IsFiniteSet(L \cap U)
    BY <1>2, <1>4, <1>7, FS_Union, FS_EmptySet
  <2>2. l \in Nat /\ m \in Nat
    BY <2>1, FS_CardinalityType
  <2>3. Cardinality(L \cup U) = l + m
    <3>1. Cardinality(L \cap U) = 0
      BY <1>7, FS_EmptySet
    <3>2. Cardinality(L \cup U) = l + m - Cardinality(L \cap U)
      BY <2>1, FS_Union
    <3> QED
      BY <3>1, <3>2, <2>2
  <2>4. Cardinality((L \cup U) \cup {x}) = Cardinality(L \cup U) + 1
    BY <2>1, <1>7, FS_AddElement
  <2> QED
    BY <2>2, <2>3, <2>4, <1>7
<1>12. /\ p \in [1 .. l -> L] /\ \A i, j \in 1 .. l : i < j => LogsPage!Above(p[i], p[j])
       /\ u \in [1 .. m -> U] /\ \A i, j \in 1 .. m : i < j => LogsPage!Above(u[i], u[j])
  BY <1>9, <1>10 DEF Lists, Ordered
<1> DEFINE q == [i \in 1 .. l + m + 1 |-> IF i <= l THEN p[i] ELSE IF i = l + 1 THEN x ELSE u[i - l - 1]]
<1> HIDE DEF l, m
<1>13. \A i \in 1 .. l + m + 1 : \/ i \in 1 .. l
                                 \/ i = l + 1 /\ i \notin 1 .. l
                                 \/ i > l + 1 /\ i - l - 1 \in 1 .. m /\ i \notin 1 .. l
  BY <1>11
<1>14. \A i \in 1 .. l + m + 1 :
          /\ i \in 1 .. l => q[i] = p[i] /\ q[i] \in L
          /\ i = l + 1 => q[i] = x
          /\ i > l + 1 => q[i] = u[i - l - 1] /\ q[i] \in U
  BY <1>11, <1>12, <1>13
<1>15. q \in [1 .. l + m + 1 -> T]
  <2>1. \A i \in 1 .. l + m + 1 : q[i] \in T
    BY <1>13, <1>14, <1>7
  <2> QED
    BY <2>1
<1>16. ASSUME NEW i \in 1 .. l + m + 1, NEW j \in 1 .. l + m + 1, i < j PROVE LogsPage!Above(q[i], q[j])
  <2>1. i \in Nat /\ j \in Nat /\ i < j /\ l \in Nat
    BY <1>16, <1>11
  <2>2. CASE j \in 1 .. l
    <3>1. i \in 1 .. l
      BY <2>1, <2>2
    <3> QED
      BY <3>1, <2>2, <1>14, <1>12, <1>16
  <2>3. CASE j = l + 1
    <3>1. i \in 1 .. l
      BY <2>1, <2>3, <1>16
    <3> QED
      BY <3>1, <2>3, <1>14, <1>8
  <2>4. CASE j > l + 1
    <3>1. CASE i \in 1 .. l
      BY <3>1, <2>4, <1>14, <1>8
    <3>2. CASE i = l + 1
      BY <3>2, <2>4, <1>14, <1>8
    <3>3. CASE i > l + 1
      <4>1. i - l - 1 \in 1 .. m /\ j - l - 1 \in 1 .. m /\ i - l - 1 < j - l - 1
        BY <3>3, <2>4, <2>1, <1>13
      <4> QED
        BY <4>1, <3>3, <2>4, <1>12, <1>14
    <3> QED
      BY <3>1, <3>2, <3>3, <1>13
  <2> QED
    BY <2>2, <2>3, <2>4, <1>13
<1>17. Lists(T, q)
  BY <1>11, <1>15, <1>16 DEF Lists, Ordered, l, m
<1> QED
  BY <1>17, <1>4

\* Listed(S) has the logs of S, all of them, in order.
LEMMA ListedFacts ==
    ASSUME PageAssumption, NEW S \in SUBSET Logs
    PROVE  /\ LogsPage!Listed(S) \in Seq(S) /\ LogsPage!Listed(S) \in Seq(Logs) /\ Len(LogsPage!Listed(S)) \in Nat
           /\ \A i, j \in 1 .. Len(LogsPage!Listed(S)) : i < j => LogsPage!Above(LogsPage!Listed(S)[i], LogsPage!Listed(S)[j])
           /\ \A x \in S : \E i \in 1 .. Len(LogsPage!Listed(S)) : LogsPage!Listed(S)[i] = x
<1> DEFINE q == LogsPage!Listed(S)
           c == Cardinality(S)
<1>1. IsFiniteSet(S) /\ c \in Nat
  <2>1. IsFiniteSet(S)
    BY FS_Subset DEF PageAssumption
  <2> QED
    BY <2>1, FS_CardinalityType
<1>2. q \in [1 .. c -> S] /\ \A i, j \in DOMAIN q : i < j => LogsPage!Above(q[i], q[j])
  <2>1. \E p \in [1 .. c -> S] : \A i, j \in DOMAIN p : i < j => LogsPage!Above(p[i], p[j])
    BY ListExists DEF Lists, Ordered
  <2>2. LogsPage!Cardinality(S) = Cardinality(S)
    BY DEF LogsPage!Cardinality, Cardinality
  <2> QED
    BY <2>1, <2>2 DEF LogsPage!Listed
<1> HIDE DEF q
<1>3. q \in Seq(S) /\ Len(q) = c /\ DOMAIN q = 1 .. c
  BY <1>1, <1>2
<1>4. q \in Injection(1 .. c, S)
  <2>1. \A i, j \in 1 .. c : i < j => q[i] # q[j]
    BY <1>2, <1>3, AboveOrder
  <2>2. \A i, j \in 1 .. c : i # j => i < j \/ j < i
    BY <1>1
  <2>3. \A i, j \in 1 .. c : i # j => q[i] # q[j]
    BY <2>1, <2>2
  <2> QED
    BY <2>3, <1>2 DEF Injection, IsInjective
<1>5. q \in Surjection(1 .. c, S)
  <2>1. IsFiniteSet(1 .. c) /\ Cardinality(1 .. c) = c
    BY <1>1, FS_Interval
  <2> QED
    BY <1>1, <1>4, <2>1, FS_Injection
<1>6. \A x \in S : \E i \in 1 .. c : q[i] = x
  BY <1>5 DEF Surjection
<1>7. q \in Seq(Logs)
  BY <1>3
<1> QED
  BY <1>1, <1>2, <1>3, <1>6, <1>7 DEF q

\* The order of a list, by its places.
LEMMA OrderedPlaces ==
    ASSUME NEW s \in Seq(Logs)
    PROVE  Ordered(s) <=> \A i, j \in 1 .. Len(s) : i < j => LogsPage!Above(s[i], s[j])
  BY DEF Ordered

-----------------------------------------------------------------------------
(* Pages and windows.                                                      *)

\* The elements of a sequence.
LEMMA Members ==
    ASSUME NEW T, NEW s \in Seq(T)
    PROVE  /\ LogsPage!ToSet(s) \subseteq T
           /\ \A r : r \in LogsPage!ToSet(s) <=> \E i \in 1 .. Len(s) : s[i] = r
           /\ \A i \in 1 .. Len(s) : s[i] \in LogsPage!ToSet(s) /\ s[i] \in T
           /\ s # << >> => /\ Len(s) \in 1 .. Len(s) /\ 1 \in 1 .. Len(s)
                           /\ Head(s) = s[1] /\ LogsPage!Last(s) = s[Len(s)]
           /\ s = << >> => LogsPage!ToSet(s) = {}
  BY DEF LogsPage!ToSet, LogsPage!Last

\* A part of a sequence.
LEMMA SubSeqFacts ==
    ASSUME NEW T, NEW s \in Seq(T), NEW a \in 1 .. Len(s) + 1, NEW b \in Nat, a <= b + 1, b <= Len(s)
    PROVE  /\ SubSeq(s, a, b) \in Seq(T) /\ Len(SubSeq(s, a, b)) = b - a + 1
           /\ \A i \in 1 .. b - a + 1 : SubSeq(s, a, b)[i] = s[a + i - 1]
<1>1. Len(s) \in Nat /\ a \in Nat
  OBVIOUS
<1>2. \A i \in a .. b : s[i] \in T
  BY <1>1
<1> QED
  BY SMTT(90), <1>1, <1>2

\* A first page of the logs M that misses none of K: what is not in it is below, and it is full.
Begins(s, K, M) ==
    /\ s \in Seq(Logs) /\ Ordered(s) /\ LogsPage!ToSet(s) \subseteq M
    /\ \A r \in K \cap M : r \in LogsPage!ToSet(s) \/ (s # << >> /\ LogsPage!Above(LogsPage!Last(s), r) /\ Len(s) >= PageSize)

\* A last page: what is not in it is above, and it is full.
Finishes(s, K, M) ==
    /\ s \in Seq(Logs) /\ Ordered(s) /\ LogsPage!ToSet(s) \subseteq M
    /\ \A r \in K \cap M : r \in LogsPage!ToSet(s) \/ (s # << >> /\ LogsPage!Above(r, Head(s)) /\ Len(s) >= PageSize)

\* A window: what is not in it is below or above, and there it may be scrolled to.
Window(s, K, M, older, newer) ==
    /\ s \in Seq(Logs) /\ Ordered(s) /\ LogsPage!ToSet(s) \subseteq M
    /\ \A r \in K \cap M : \/ r \in LogsPage!ToSet(s)
                           \/ s # << >> /\ LogsPage!Above(LogsPage!Last(s), r) /\ older
                           \/ s # << >> /\ LogsPage!Above(r, Head(s)) /\ newer

\* The logs of a query below a cursor, and those above it.
Below(q, c) == {r \in Matching[q] : LogsPage!Above(c, r)}
Beyond(q, c)  == {r \in Matching[q] : LogsPage!Above(r, c)}

\* The first logs of a set, as SearchLogs gives them.
LEMMA NewestFacts ==
    ASSUME PageAssumption, NEW S \in SUBSET Logs
    PROVE  Begins(LogsPage!Newest(S), S, S)
<1> DEFINE all == LogsPage!Listed(S)
           s == LogsPage!Newest(S)
<1>1. /\ all \in Seq(S) /\ Len(all) \in Nat
      /\ \A i, j \in 1 .. Len(all) : i < j => LogsPage!Above(all[i], all[j])
      /\ \A x \in S : \E i \in 1 .. Len(all) : all[i] = x
      /\ all \in Seq(Logs)
  BY ListedFacts
<1>2. s = LogsPage!UpTo(PageSize, all) /\ PageSize \in Nat /\ PageSize >= 1
  BY DEF LogsPage!Newest, PageAssumption
<1> HIDE DEF all, s
<1>3. CASE Len(all) <= PageSize
  <2>1. s = all
    BY <1>2, <1>3 DEF LogsPage!UpTo
  <2>2. \A r \in S : r \in LogsPage!ToSet(s)
    BY <1>1, <2>1, Members
  <2>3. LogsPage!ToSet(s) \subseteq S
    BY <1>1, <2>1, Members
  <2> QED
    BY <1>1, <2>1, <2>2, <2>3, OrderedPlaces DEF Begins, s
<1>4. CASE Len(all) > PageSize
  <2>1. /\ s \in Seq(S) /\ s \in Seq(Logs) /\ Len(s) = PageSize
        /\ \A i \in 1 .. PageSize : s[i] = all[i] /\ i \in 1 .. Len(all)
    <3>1. s = SubSeq(all, 1, PageSize)
      BY <1>1, <1>2, <1>4 DEF LogsPage!UpTo
    <3> QED
      BY SMTT(90), <3>1, <1>1, <1>2, <1>4
  <2>2. Ordered(s)
    BY <2>1, <1>1, <1>2, OrderedPlaces
  <2>3. LogsPage!ToSet(s) \subseteq S
    BY <2>1, Members
  <2>4. s # << >> /\ LogsPage!Last(s) = all[PageSize]
    BY <2>1, <1>2 DEF LogsPage!Last
  <2>5. ASSUME NEW r \in S, r \notin LogsPage!ToSet(s) PROVE LogsPage!Above(LogsPage!Last(s), r)
    <3>1. PICK i \in 1 .. Len(all) : all[i] = r
      BY <1>1
    <3>2. i \notin 1 .. PageSize
      BY <2>1, <2>5, <3>1, Members
    <3>3. PageSize \in 1 .. Len(all) /\ PageSize < i
      BY <3>2, <1>1, <1>2, <1>4
    <3> QED
      BY <3>1, <3>3, <2>4, <1>1
  <2> QED
    BY <2>1, <2>2, <2>3, <2>4, <2>5, <1>2 DEF Begins, s
<1> QED
  BY <1>1, <1>2, <1>3, <1>4

\* The last logs of a set, as SearchLogs gives them.
LEMMA OldestFacts ==
    ASSUME PageAssumption, NEW S \in SUBSET Logs
    PROVE  Finishes(LogsPage!Oldest(S), S, S)
<1> DEFINE all == LogsPage!Listed(S)
           s == LogsPage!Oldest(S)
           k == Len(all) - PageSize
<1>1. /\ all \in Seq(S) /\ Len(all) \in Nat
      /\ \A i, j \in 1 .. Len(all) : i < j => LogsPage!Above(all[i], all[j])
      /\ \A x \in S : \E i \in 1 .. Len(all) : all[i] = x
      /\ all \in Seq(Logs)
  BY ListedFacts
<1>2. /\ s = IF Len(all) <= PageSize THEN all ELSE SubSeq(all, Len(all) - PageSize + 1, Len(all))
      /\ PageSize \in Nat /\ PageSize >= 1
  BY DEF LogsPage!Oldest, PageAssumption
<1> HIDE DEF all, s
<1>3. CASE Len(all) <= PageSize
  <2>1. s = all
    BY <1>2, <1>3
  <2>2. \A r \in S : r \in LogsPage!ToSet(s)
    BY <1>1, <2>1, Members
  <2>3. LogsPage!ToSet(s) \subseteq S
    BY <1>1, <2>1, Members
  <2> QED
    BY <1>1, <2>1, <2>2, <2>3, OrderedPlaces DEF Finishes, s
<1>4. CASE Len(all) > PageSize
  <2>1. k \in Nat /\ k >= 1 /\ Len(all) = k + PageSize
    BY SMTT(90), <1>1, <1>2, <1>4
  <2> HIDE DEF k
  <2>2. /\ s \in Seq(S) /\ s \in Seq(Logs) /\ Len(s) = PageSize
        /\ \A i \in 1 .. PageSize : s[i] = all[k + i] /\ k + i \in 1 .. Len(all)
    <3>1. s = SubSeq(all, Len(all) - PageSize + 1, Len(all))
      BY SMTT(90), <1>1, <1>2, <1>4
    <3>2. k + 1 \in 1 .. Len(all) /\ Len(all) - (k + 1) + 1 = PageSize /\ k + 1 = Len(all) - PageSize + 1
      BY <2>1, <1>2
    <3>3. PICK n \in 1 .. Len(all) : n = k + 1
      BY <3>2
    <3>4. s = SubSeq(all, n, Len(all)) /\ Len(all) - n + 1 = PageSize
      BY <3>1, <3>2, <3>3
    <3>5. s \in Seq(S) /\ s \in Seq(Logs) /\ Len(s) = PageSize /\ \A i \in 1 .. PageSize : s[i] = all[n + i - 1]
      <4>1. PICK m \in Nat : m = Len(all) /\ n <= m + 1 /\ m <= Len(all) /\ n \in 1 .. Len(all) + 1
        BY <1>1, <3>3
      <4>2. /\ SubSeq(all, n, m) \in Seq(S) /\ Len(SubSeq(all, n, m)) = m - n + 1
            /\ \A i \in 1 .. m - n + 1 : SubSeq(all, n, m)[i] = all[n + i - 1]
        BY SMTT(90), <4>1, <1>1, SubSeqFacts
      <4>3. SubSeq(all, n, m) \in Seq(Logs)
        BY <4>1, <1>1, SubSeqFacts
      <4> QED
        BY <4>1, <4>2, <4>3, <3>4
    <3>6. Len(s) = PageSize /\ \A i \in 1 .. PageSize : s[i] = all[k + i]
      <4>1. \A i \in 1 .. PageSize : n + i - 1 = k + i
        BY <2>1, <1>2, <3>3
      <4> QED
        BY <4>1, <3>5
    <3>7. \A i \in 1 .. PageSize : k + i \in 1 .. Len(all)
      BY <2>1, <1>2
    <3> QED
      BY <3>5, <3>6, <3>7
  <2>3. Ordered(s)
    <3>1. \A i, j \in 1 .. PageSize : i < j => k + i < k + j
      BY <2>1, <1>2
    <3> QED
      BY <2>2, <3>1, <1>1, OrderedPlaces
  <2>4. LogsPage!ToSet(s) \subseteq S
    BY <2>2, Members
  <2>5. s # << >> /\ Head(s) = all[k + 1] /\ 1 \in 1 .. PageSize
    <3>1. 1 \in 1 .. PageSize
      BY <1>2
    <3>2. s[1] = all[k + 1]
      BY <2>2, <3>1
    <3> QED
      BY ZenonT(90), <2>2, <3>1, <3>2, <1>2, Members
  <2>6. ASSUME NEW r \in S, r \notin LogsPage!ToSet(s) PROVE LogsPage!Above(r, Head(s))
    <3>1. PICK i \in 1 .. Len(all) : all[i] = r
      BY <1>1
    <3>2. CASE i > k
      <4>1. i - k \in 1 .. PageSize /\ k + (i - k) = i
        BY SMTT(90), <3>2, <2>1, <1>2
      <4>2. s[i - k] = r
        BY <4>1, <3>1, <2>2
      <4> QED
        BY <4>1, <4>2, <2>2, <2>6, Members
    <3>3. CASE ~(i > k)
      <4>1. i < k + 1 /\ k + 1 \in 1 .. Len(all)
        BY <3>3, <2>1, <1>2
      <4> QED
        BY <4>1, <3>1, <2>5, <1>1
    <3> QED
      BY <3>2, <3>3
  <2> QED
    BY SMTT(90), <2>2, <2>3, <2>4, <2>5, <2>6, <1>2 DEF Finishes, s
<1> QED
  BY <1>1, <1>2, <1>3, <1>4

\* No log between two moments is in a segment that is not opened.
LEMMA SourceFacts ==
    ASSUME PageAssumption, LogsPage!Stored \subseteq Logs, NEW l \in Int, NEW u \in Int
    PROVE  /\ LogsPage!Source(l, u) \subseteq LogsPage!Stored
           /\ \A r \in LogsPage!Stored : l <= LogsPage!Micro(r) /\ LogsPage!Micro(r) <= u => r \in LogsPage!Source(l, u)
<1>1. LogsPage!Source(l, u) \subseteq LogsPage!Stored
  BY DEF LogsPage!Source, LogsPage!Stored
<1>2. ASSUME NEW r \in LogsPage!Stored, l <= LogsPage!Micro(r), LogsPage!Micro(r) <= u PROVE r \in LogsPage!Source(l, u)
  <2>1. CASE r \in hot
    BY <2>1 DEF LogsPage!Source
  <2>2. CASE r \notin hot
    <3>1. PICK s \in segments : r \in s
      BY <2>2 DEF LogsPage!Stored
    <3>2. /\ LogsPage!Micro(r) \in Nat /\ r.tick \in Nat /\ Precision \in Nat /\ Precision > 0
          /\ Precision * LogsPage!Micro(r) <= r.tick /\ r.tick <= Precision * (LogsPage!Micro(r) + 1)
      BY MicroFacts DEF PageAssumption
    <3>3. Precision * (l - 1) <= Precision * LogsPage!Micro(r) /\ Precision * (LogsPage!Micro(r) + 1) <= Precision * (u + 1)
      <4>1. \A p \in Nat, a, b \in Int : a <= b => p * a <= p * b
        BY SMTT(60)
      <4>2. PICK a \in Int, b \in Int : a = l - 1 /\ b = u + 1 /\ a <= LogsPage!Micro(r) /\ LogsPage!Micro(r) + 1 <= b
        BY <1>2, <3>2
      <4>3. Precision * a <= Precision * LogsPage!Micro(r) /\ Precision * (LogsPage!Micro(r) + 1) <= Precision * b
        BY <4>1, <4>2, <3>2
      <4> QED
        BY <4>2, <4>3
    <3>4. /\ Precision * (l - 1) \in Int /\ Precision * (u + 1) \in Int
          /\ Precision * LogsPage!Micro(r) \in Int /\ Precision * (LogsPage!Micro(r) + 1) \in Int
      BY <3>2
    <3>5. r.tick >= Precision * (l - 1) /\ r.tick <= Precision * (u + 1)
      BY <3>2, <3>3, <3>4
    <3>6. LogsPage!Overlaps(s, l, u)
      BY <3>1, <3>5 DEF LogsPage!Overlaps
    <3> QED
      BY <3>1, <3>6 DEF LogsPage!Source
  <2> QED
    BY <2>1, <2>2
<1> QED
  BY <1>1, <1>2

\* The bounds of a search without a cursor hold every log.
LEMMA BoundsFacts ==
    ASSUME PageAssumption, NEW r \in Logs
    PROVE  LogsPage!Lowest \in Nat /\ LogsPage!Highest \in Nat /\ LogsPage!Lowest <= LogsPage!Micro(r) /\ LogsPage!Micro(r) <= LogsPage!Highest
<1> DEFINE all == LogsPage!Listed(Logs)
           M == {LogsPage!Micro(x) : x \in Logs}
<1>1. \A x \in Logs : LogsPage!Micro(x) \in Nat
  BY MicroFacts
<1>2. /\ all \in Seq(Logs) /\ Len(all) \in Nat
      /\ \A i, j \in 1 .. Len(all) : i < j => LogsPage!Above(all[i], all[j])
      /\ \A x \in Logs : \E i \in 1 .. Len(all) : all[i] = x
  BY ListedFacts
<1> HIDE DEF all
<1>3. 1 \in 1 .. Len(all) /\ Len(all) \in 1 .. Len(all)
  <2>1. PICK i \in 1 .. Len(all) : all[i] = r
    BY <1>2
  <2> QED
    BY <2>1, <1>2
<1>4. all[1] \in Logs /\ all[Len(all)] \in Logs
  BY SMTT(90), <1>2, <1>3
<1>5. \A x \in Logs : LogsPage!Micro(all[Len(all)]) <= LogsPage!Micro(x) /\ LogsPage!Micro(x) <= LogsPage!Micro(all[1])
  <2> SUFFICES ASSUME NEW x \in Logs
               PROVE  LogsPage!Micro(all[Len(all)]) <= LogsPage!Micro(x) /\ LogsPage!Micro(x) <= LogsPage!Micro(all[1])
    OBVIOUS
  <2>1. PICK i \in 1 .. Len(all) : all[i] = x
    BY <1>2
  <2>2. i = 1 \/ 1 < i
    OBVIOUS
  <2>3. i = Len(all) \/ i < Len(all)
    BY <1>2
  <2>4. x = all[1] \/ LogsPage!Above(all[1], x)
    BY <2>1, <2>2, <1>2, <1>3
  <2>5. x = all[Len(all)] \/ LogsPage!Above(x, all[Len(all)])
    BY <2>1, <2>3, <1>2, <1>3
  <2>6. LogsPage!Micro(x) \in Nat /\ LogsPage!Micro(all[1]) \in Nat /\ LogsPage!Micro(all[Len(all)]) \in Nat
    BY <1>1, <1>4
  <2> QED
    BY <2>4, <2>5, <2>6 DEF LogsPage!Above
<1>6. \E m \in M : \A x \in Logs : m <= LogsPage!Micro(x)
  BY <1>4, <1>5
<1>7. \E m \in M : \A x \in Logs : m >= LogsPage!Micro(x)
  <2>1. \A x \in Logs : LogsPage!Micro(all[1]) >= LogsPage!Micro(x)
    BY <1>1, <1>4, <1>5
  <2> QED
    BY <2>1, <1>4
<1>8. LogsPage!Lowest \in M /\ \A x \in Logs : LogsPage!Lowest <= LogsPage!Micro(x)
  BY <1>6 DEF LogsPage!Lowest
<1>9. LogsPage!Highest \in M /\ \A x \in Logs : LogsPage!Highest >= LogsPage!Micro(x)
  BY <1>7 DEF LogsPage!Highest
<1>10. \A m \in M : m \in Nat
  BY <1>1
<1> HIDE DEF M
<1>11. LogsPage!Lowest \in Nat /\ LogsPage!Highest \in Nat /\ LogsPage!Micro(r) \in Nat
  BY <1>1, <1>8, <1>9, <1>10
<1> QED
  BY <1>8, <1>9, <1>11

\* The first page of a query.
LEMMA FirstPageFacts ==
    ASSUME PageAssumption, LogsPage!Stored \subseteq Logs, NEW q \in LogsPage!Queries
    PROVE  Begins(LogsPage!FirstPage(q), LogsPage!Stored, Matching[q])
<1> DEFINE S == LogsPage!Source(LogsPage!Lowest, LogsPage!Highest) \cap Matching[q]
<1>1. S = LogsPage!Stored \cap Matching[q]
  <2>1. CASE Logs = {}
    BY <2>1, SourceFacts DEF LogsPage!Source, LogsPage!Stored
  <2>2. CASE Logs # {}
    <3>1. LogsPage!Lowest \in Int /\ LogsPage!Highest \in Int
      BY <2>2, BoundsFacts
    <3>2. \A r \in LogsPage!Stored : LogsPage!Lowest <= LogsPage!Micro(r) /\ LogsPage!Micro(r) <= LogsPage!Highest
      BY BoundsFacts
    <3> QED
      BY <3>1, <3>2, SourceFacts
  <2> QED
    BY <2>1, <2>2
<1>2. S \in SUBSET Logs
  BY <1>1
<1>3. LogsPage!FirstPage(q) = LogsPage!Newest(S)
  BY DEF LogsPage!FirstPage
<1> HIDE DEF S
<1>4. Begins(LogsPage!FirstPage(q), S, S)
  BY <1>2, <1>3, NewestFacts
<1> QED
  BY <1>1, <1>4 DEF Begins

\* The page below a cursor.
LEMMA OlderFacts ==
    ASSUME PageAssumption, LogsPage!Stored \subseteq Logs, NEW q \in LogsPage!Queries, NEW c \in Logs
    PROVE  Begins(LogsPage!OlderThan(q, c), LogsPage!Stored, Below(q, c))
<1> DEFINE S == {r \in LogsPage!Source(LogsPage!Lowest, LogsPage!Micro(c)) \cap Matching[q] :
                    LogsPage!Micro(r) <= LogsPage!Micro(c) /\ (LogsPage!Micro(r) < LogsPage!Micro(c) \/ r.key < c.key)}
<1>1. LogsPage!Lowest \in Int /\ LogsPage!Micro(c) \in Nat /\ \A r \in Logs : LogsPage!Micro(r) \in Nat /\ r.key \in Nat /\ LogsPage!Lowest <= LogsPage!Micro(r)
  BY BoundsFacts, MicroFacts DEF PageAssumption
<1>2. \A r \in Logs : LogsPage!Above(c, r) <=> LogsPage!Micro(r) <= LogsPage!Micro(c) /\ (LogsPage!Micro(r) < LogsPage!Micro(c) \/ r.key < c.key)
  BY <1>1 DEF LogsPage!Above
<1>3. S = LogsPage!Stored \cap Below(q, c)
  <2>1. /\ LogsPage!Source(LogsPage!Lowest, LogsPage!Micro(c)) \subseteq LogsPage!Stored
        /\ \A r \in LogsPage!Stored : LogsPage!Micro(r) <= LogsPage!Micro(c) => r \in LogsPage!Source(LogsPage!Lowest, LogsPage!Micro(c))
    BY <1>1, SourceFacts
  <2> QED
    BY <2>1, <1>2 DEF Below
<1>4. S \in SUBSET Logs
  BY <1>3
<1>5. LogsPage!OlderThan(q, c) = LogsPage!Newest(S)
  BY DEF LogsPage!OlderThan
<1> HIDE DEF S
<1>6. Begins(LogsPage!OlderThan(q, c), S, S)
  BY <1>4, <1>5, NewestFacts
<1> QED
  BY <1>3, <1>6 DEF Begins

\* The page above a cursor.
LEMMA NewerFacts ==
    ASSUME PageAssumption, LogsPage!Stored \subseteq Logs, NEW q \in LogsPage!Queries, NEW c \in Logs
    PROVE  Finishes(LogsPage!NewerThan(q, c), LogsPage!Stored, Beyond(q, c))
<1> DEFINE S == {r \in LogsPage!Source(LogsPage!Micro(c), LogsPage!Highest) \cap Matching[q] :
                    LogsPage!Micro(r) >= LogsPage!Micro(c) /\ (LogsPage!Micro(r) > LogsPage!Micro(c) \/ r.key > c.key)}
<1>1. LogsPage!Highest \in Int /\ LogsPage!Micro(c) \in Nat /\ \A r \in Logs : LogsPage!Micro(r) \in Nat /\ r.key \in Nat /\ LogsPage!Micro(r) <= LogsPage!Highest
  BY BoundsFacts, MicroFacts DEF PageAssumption
<1>2. \A r \in Logs : LogsPage!Above(r, c) <=> LogsPage!Micro(r) >= LogsPage!Micro(c) /\ (LogsPage!Micro(r) > LogsPage!Micro(c) \/ r.key > c.key)
  BY <1>1 DEF LogsPage!Above
<1>3. S = LogsPage!Stored \cap Beyond(q, c)
  <2>1. /\ LogsPage!Source(LogsPage!Micro(c), LogsPage!Highest) \subseteq LogsPage!Stored
        /\ \A r \in LogsPage!Stored : LogsPage!Micro(c) <= LogsPage!Micro(r) => r \in LogsPage!Source(LogsPage!Micro(c), LogsPage!Highest)
    BY <1>1, SourceFacts
  <2>2. \A r \in Logs : LogsPage!Micro(r) >= LogsPage!Micro(c) <=> LogsPage!Micro(c) <= LogsPage!Micro(r)
    BY <1>1
  <2> QED
    BY <2>1, <2>2, <1>2 DEF Beyond
<1>4. S \in SUBSET Logs
  BY <1>3
<1>5. LogsPage!NewerThan(q, c) = LogsPage!Oldest(S)
  BY DEF LogsPage!NewerThan
<1> HIDE DEF S
<1>6. Finishes(LogsPage!NewerThan(q, c), S, S)
  BY <1>4, <1>5, OldestFacts
<1> QED
  BY <1>3, <1>6 DEF Finishes

\* Two sequences, one after the other.
LEMMA JoinFacts ==
    ASSUME NEW T, NEW s \in Seq(T), NEW p \in Seq(T)
    PROVE  /\ s \o p \in Seq(T) /\ LogsPage!ToSet(s \o p) = LogsPage!ToSet(s) \cup LogsPage!ToSet(p)
           /\ Len(s \o p) = Len(s) + Len(p)
           /\ \A i \in 1 .. Len(s) : (s \o p)[i] = s[i]
           /\ \A i \in 1 .. Len(p) : (s \o p)[Len(s) + i] = p[i]
           /\ \A i \in 1 .. Len(s) + Len(p) :
                 i \in 1 .. Len(s) \/ (i > Len(s) /\ i - Len(s) \in 1 .. Len(p))
           /\ s # << >> => s \o p # << >> /\ Head(s \o p) = Head(s)
           /\ p # << >> => s \o p # << >> /\ LogsPage!Last(s \o p) = LogsPage!Last(p)
<1>1. Len(s) \in Nat /\ Len(p) \in Nat
  OBVIOUS
<1>2. s \o p \in Seq(T) /\ Len(s \o p) = Len(s) + Len(p)
  OBVIOUS
<1>3. \A i \in 1 .. Len(s) : (s \o p)[i] = s[i]
  BY <1>1
<1>4. \A i \in 1 .. Len(p) : (s \o p)[Len(s) + i] = p[i]
  <2> SUFFICES ASSUME NEW i \in 1 .. Len(p) PROVE (s \o p)[Len(s) + i] = p[i]
    OBVIOUS
  <2>1. PICK n \in 1 .. Len(s) + Len(p) : n = Len(s) + i /\ n > Len(s) /\ n - Len(s) = i
    BY <1>1
  <2>2. (s \o p)[n] = p[n - Len(s)]
    BY <2>1, <1>1
  <2> QED
    BY <2>1, <2>2
<1>5. \A i \in 1 .. Len(s) + Len(p) :
         i \in 1 .. Len(s) \/ (i > Len(s) /\ i - Len(s) \in 1 .. Len(p) /\ i = Len(s) + (i - Len(s)))
  BY <1>1
<1>6. LogsPage!ToSet(s \o p) = LogsPage!ToSet(s) \cup LogsPage!ToSet(p)
  <2>1. ASSUME NEW r \in LogsPage!ToSet(s \o p) PROVE r \in LogsPage!ToSet(s) \cup LogsPage!ToSet(p)
    <3>1. PICK q \in Seq(T) : q = s \o p
      BY <1>2
    <3>2. PICK j \in 1 .. Len(q) : q[j] = r
      <4>1. r \in LogsPage!ToSet(q)
        BY <3>1, <2>1
      <4> HIDE <3>1
      <4> QED
        BY <4>1, Members
    <3>3. PICK i \in 1 .. Len(s) + Len(p) : (s \o p)[i] = r
      BY <3>1, <3>2, <1>2
    <3> QED
      BY <3>3, <1>3, <1>4, <1>5, Members
  <2>2. ASSUME NEW r \in LogsPage!ToSet(s) PROVE r \in LogsPage!ToSet(s \o p)
    <3>1. PICK i \in 1 .. Len(s) : s[i] = r
      BY <2>2, Members
    <3>2. i \in 1 .. Len(s \o p) /\ (s \o p)[i] = r
      BY <3>1, <1>1, <1>2, <1>3
    <3> QED
      BY <3>2, <1>2, Members
  <2>3. ASSUME NEW r \in LogsPage!ToSet(p) PROVE r \in LogsPage!ToSet(s \o p)
    <3>1. PICK i \in 1 .. Len(p) : p[i] = r
      BY <2>3, Members
    <3>2. Len(s) + i \in 1 .. Len(s \o p) /\ (s \o p)[Len(s) + i] = r
      BY SMTT(90), <3>1, <1>1, <1>2, <1>4
    <3> QED
      BY ZenonT(90), <3>2, <1>2, Members
  <2> QED
    BY <2>1, <2>2, <2>3
<1>7. s # << >> => s \o p # << >> /\ Head(s \o p) = Head(s)
  <2> SUFFICES ASSUME s # << >> PROVE s \o p # << >> /\ Head(s \o p) = Head(s)
    OBVIOUS
  <2>1. 1 \in 1 .. Len(s) /\ Len(s \o p) # 0
    BY <1>1, <1>2
  <2>2. s \o p # << >>
    BY <2>1, <1>2
  <2> QED
    BY <2>1, <2>2, <1>2, <1>3, Members
<1>8. p # << >> => s \o p # << >> /\ LogsPage!Last(s \o p) = LogsPage!Last(p)
  <2> SUFFICES ASSUME p # << >> PROVE s \o p # << >> /\ LogsPage!Last(s \o p) = LogsPage!Last(p)
    OBVIOUS
  <2>1. Len(p) \in 1 .. Len(p) /\ Len(s \o p) # 0
    BY <1>1, <1>2
  <2>2. s \o p # << >>
    BY <2>1, <1>2
  <2>3. (s \o p)[Len(s) + Len(p)] = p[Len(p)]
    BY <2>1, <1>4
  <2>4. PICK q \in Seq(T) : q = s \o p
    BY <1>2
  <2>5. LogsPage!Last(q) = q[Len(s) + Len(p)] /\ LogsPage!Last(p) = p[Len(p)]
    BY ZenonT(90), <2>2, <2>4, <1>2, Members
  <2> QED
    BY <2>2, <2>3, <2>4, <2>5
<1> QED
  BY <1>2, <1>3, <1>4, <1>5, <1>6, <1>7, <1>8

\* The places of a list: its first log is above the others, which are above its last.
LEMMA OrderedEnds ==
    ASSUME NEW s \in Seq(Logs), Ordered(s), NEW r \in LogsPage!ToSet(s)
    PROVE  /\ s # << >>
           /\ r = Head(s) \/ LogsPage!Above(Head(s), r)
           /\ r = LogsPage!Last(s) \/ LogsPage!Above(r, LogsPage!Last(s))
<1>1. PICK i \in 1 .. Len(s) : s[i] = r
  BY Members
<1>2. s # << >> /\ Len(s) \in Nat
  BY <1>1
<1>3. Head(s) = s[1] /\ LogsPage!Last(s) = s[Len(s)] /\ 1 \in 1 .. Len(s) /\ Len(s) \in 1 .. Len(s)
  BY <1>2, Members
<1>4. (i = 1 \/ 1 < i) /\ (i = Len(s) \/ i < Len(s))
  BY <1>2
<1> QED
  BY <1>1, <1>2, <1>3, <1>4, OrderedPlaces

\* Two lists of which one is above the other.
LEMMA JoinOrdered ==
    ASSUME NEW s \in Seq(Logs), NEW p \in Seq(Logs), Ordered(s), Ordered(p),
           \A a \in LogsPage!ToSet(s), b \in LogsPage!ToSet(p) : LogsPage!Above(a, b)
    PROVE  Ordered(s \o p)
<1> DEFINE q == s \o p
           m == Len(s)
           n == Len(p)
<1>1. /\ q \in Seq(Logs) /\ Len(q) = m + n /\ m \in Nat /\ n \in Nat
      /\ \A i \in 1 .. m : q[i] = s[i]
      /\ \A i \in 1 .. n : q[m + i] = p[i]
      /\ \A i \in 1 .. m + n : i \in 1 .. m \/ (i > m /\ i - m \in 1 .. n)
  BY JoinFacts
<1>2. /\ \A i, j \in 1 .. m : i < j => LogsPage!Above(s[i], s[j])
      /\ \A i, j \in 1 .. n : i < j => LogsPage!Above(p[i], p[j])
  BY OrderedPlaces
<1>3. \A i \in 1 .. m, j \in 1 .. n : LogsPage!Above(s[i], p[j])
  BY Members
<1> HIDE DEF q, m, n
<1>4. ASSUME NEW i \in 1 .. m + n, NEW j \in 1 .. m + n, i < j PROVE LogsPage!Above(q[i], q[j])
  <2>1. CASE i \in 1 .. m /\ j \in 1 .. m
    BY <2>1, <1>1, <1>2, <1>4
  <2>2. CASE i \in 1 .. m /\ j \notin 1 .. m
    <3>1. PICK k \in 1 .. n : k = j - m
      BY <2>2, <1>1
    <3>2. j = m + k
      BY <3>1, <1>1
    <3> QED
      BY SMTT(90), <2>2, <3>2, <1>1, <1>3
  <2>3. CASE i \notin 1 .. m
    <3>1. PICK k \in 1 .. n, l \in 1 .. n : k = i - m /\ l = j - m /\ k < l
      BY SMTT(90), <2>3, <1>1, <1>4
    <3>2. i = m + k /\ j = m + l
      BY <3>1, <1>1
    <3> QED
      BY ZenonT(90), <3>1, <3>2, <1>1, <1>2
  <2> QED
    BY <2>1, <2>2, <2>3
<1>5. \A i, j \in 1 .. Len(q) : i < j => LogsPage!Above(q[i], q[j])
  BY <1>1, <1>4
<1>6. Ordered(q)
  BY <1>1, <1>5, OrderedPlaces
<1> QED
  BY <1>6 DEF q

\* A window to which the page below it is added.
LEMMA JoinBelow ==
    ASSUME PageAssumption, NEW K, NEW M \in SUBSET Logs, NEW s, NEW p, NEW older, NEW newer,
           Window(s, K, M, older, newer), s # << >>,
           Begins(p, K, {r \in M : LogsPage!Above(LogsPage!Last(s), r)})
    PROVE  Window(s \o p, K, M, Len(p) >= PageSize, newer)
<1>1. /\ s \in Seq(Logs) /\ Ordered(s) /\ LogsPage!ToSet(s) \subseteq M
      /\ p \in Seq(Logs) /\ Ordered(p) /\ LogsPage!ToSet(p) \subseteq M /\ \A b \in LogsPage!ToSet(p) : LogsPage!Above(LogsPage!Last(s), b)
  BY DEF Window, Begins
<1>2. LogsPage!Last(s) \in Logs
  BY <1>1, Members
<1>3. \A a \in LogsPage!ToSet(s), b \in LogsPage!ToSet(p) : LogsPage!Above(a, b)
  <2> SUFFICES ASSUME NEW a \in LogsPage!ToSet(s), NEW b \in LogsPage!ToSet(p) PROVE LogsPage!Above(a, b)
    OBVIOUS
  <2>1. a = LogsPage!Last(s) \/ LogsPage!Above(a, LogsPage!Last(s))
    BY <1>1, OrderedEnds
  <2> QED
    BY <2>1, <1>1, <1>2, AboveOrder
<1>4. Ordered(s \o p)
  BY <1>1, <1>3, JoinOrdered
<1>5. /\ s \o p \in Seq(Logs) /\ LogsPage!ToSet(s \o p) = LogsPage!ToSet(s) \cup LogsPage!ToSet(p)
      /\ s \o p # << >> /\ Head(s \o p) = Head(s)
      /\ p # << >> => LogsPage!Last(s \o p) = LogsPage!Last(p)
  BY <1>1, JoinFacts
<1>6. ASSUME NEW r \in K \cap M
      PROVE  \/ r \in LogsPage!ToSet(s \o p)
             \/ LogsPage!Above(LogsPage!Last(s \o p), r) /\ Len(p) >= PageSize
             \/ LogsPage!Above(r, Head(s \o p)) /\ newer
  <2>1. r \in LogsPage!ToSet(s) \/ LogsPage!Above(LogsPage!Last(s), r) \/ (LogsPage!Above(r, Head(s)) /\ newer)
    BY ZenonT(90) DEF Window
  <2>2. LogsPage!Above(LogsPage!Last(s), r) => r \in LogsPage!ToSet(p) \/ (p # << >> /\ LogsPage!Above(LogsPage!Last(p), r) /\ Len(p) >= PageSize)
    BY DEF Begins
  <2> QED
    BY <2>1, <2>2, <1>5
<1> QED
  BY <1>1, <1>4, <1>5, <1>6 DEF Window

\* A window to which the page above it is added.
LEMMA JoinAbove ==
    ASSUME PageAssumption, NEW K, NEW M \in SUBSET Logs, NEW s, NEW p, NEW older, NEW newer,
           Window(s, K, M, older, newer), s # << >>,
           Finishes(p, K, {r \in M : LogsPage!Above(r, Head(s))})
    PROVE  Window(p \o s, K, M, older, Len(p) >= PageSize)
<1>1. /\ s \in Seq(Logs) /\ Ordered(s) /\ LogsPage!ToSet(s) \subseteq M
      /\ p \in Seq(Logs) /\ Ordered(p) /\ LogsPage!ToSet(p) \subseteq M /\ \A b \in LogsPage!ToSet(p) : LogsPage!Above(b, Head(s))
  BY DEF Window, Finishes
<1>2. Head(s) \in Logs
  BY <1>1, Members
<1>3. \A b \in LogsPage!ToSet(p), a \in LogsPage!ToSet(s) : LogsPage!Above(b, a)
  <2> SUFFICES ASSUME NEW a \in LogsPage!ToSet(s), NEW b \in LogsPage!ToSet(p) PROVE LogsPage!Above(b, a)
    OBVIOUS
  <2>1. a = Head(s) \/ LogsPage!Above(Head(s), a)
    BY <1>1, OrderedEnds
  <2> QED
    BY <2>1, <1>1, <1>2, AboveOrder
<1>4. Ordered(p \o s)
  BY <1>1, <1>3, JoinOrdered
<1>5. /\ p \o s \in Seq(Logs) /\ LogsPage!ToSet(p \o s) = LogsPage!ToSet(p) \cup LogsPage!ToSet(s)
      /\ p \o s # << >> /\ LogsPage!Last(p \o s) = LogsPage!Last(s)
      /\ p # << >> => Head(p \o s) = Head(p)
  BY <1>1, JoinFacts
<1>6. ASSUME NEW r \in K \cap M
      PROVE  \/ r \in LogsPage!ToSet(p \o s)
             \/ LogsPage!Above(LogsPage!Last(p \o s), r) /\ older
             \/ LogsPage!Above(r, Head(p \o s)) /\ Len(p) >= PageSize
  <2>1. r \in LogsPage!ToSet(s) \/ (LogsPage!Above(LogsPage!Last(s), r) /\ older) \/ LogsPage!Above(r, Head(s))
    BY ZenonT(90) DEF Window
  <2>2. LogsPage!Above(r, Head(s)) => r \in LogsPage!ToSet(p) \/ (p # << >> /\ LogsPage!Above(r, Head(p)) /\ Len(p) >= PageSize)
    BY DEF Finishes
  <2> QED
    BY <2>1, <2>2, <1>5
<1> QED
  BY <1>1, <1>4, <1>5, <1>6 DEF Window

\* A part of a list is in order.
LEMMA PartFacts ==
    ASSUME NEW s \in Seq(Logs), Ordered(s), NEW a \in 1 .. Len(s), NEW b \in a .. Len(s)
    PROVE  /\ SubSeq(s, a, b) \in Seq(Logs) /\ Ordered(SubSeq(s, a, b)) /\ SubSeq(s, a, b) # << >>
           /\ LogsPage!ToSet(SubSeq(s, a, b)) \subseteq LogsPage!ToSet(s)
           /\ Head(SubSeq(s, a, b)) = s[a] /\ LogsPage!Last(SubSeq(s, a, b)) = s[b]
<1> DEFINE q == SubSeq(s, a, b)
<1>1. /\ Len(s) \in Nat /\ a \in Nat /\ b \in Nat /\ a <= b /\ b <= Len(s)
      /\ a \in 1 .. Len(s) + 1 /\ a <= b + 1
  OBVIOUS
<1>2. q \in Seq(Logs) /\ Len(q) = b - a + 1 /\ \A i \in 1 .. b - a + 1 : q[i] = s[a + i - 1]
  BY <1>1, SubSeqFacts
<1> HIDE DEF q
<1>3. \A i \in 1 .. b - a + 1 : a + i - 1 \in 1 .. Len(s)
  BY <1>1
<1>4. \A i, j \in 1 .. Len(s) : i < j => LogsPage!Above(s[i], s[j])
  BY OrderedPlaces
<1>5. Ordered(q)
  <2>1. \A i, j \in 1 .. b - a + 1 : i < j => a + i - 1 < a + j - 1
    BY <1>1
  <2>2. \A i, j \in 1 .. Len(q) : i < j => LogsPage!Above(q[i], q[j])
    BY <2>1, <1>2, <1>3, <1>4
  <2> QED
    BY <2>2, <1>2, OrderedPlaces
<1>6. LogsPage!ToSet(q) \subseteq LogsPage!ToSet(s)
  BY SMTT(90), <1>2, <1>3, Members
<1>7. 1 \in 1 .. b - a + 1 /\ b - a + 1 \in 1 .. b - a + 1 /\ a + 1 - 1 = a /\ a + (b - a + 1) - 1 = b
  BY <1>1
<1>8. q # << >> /\ Head(q) = s[a] /\ LogsPage!Last(q) = s[b]
  <2>1. q # << >>
    BY <1>2, <1>7
  <2>2. q[1] = s[a] /\ q[b - a + 1] = s[b]
    BY <1>2, <1>7
  <2> QED
    BY <2>1, <2>2, <1>2, Members
<1> QED
  BY <1>2, <1>5, <1>6, <1>8 DEF q

\* The rest is above it or below it.
LEMMA PartBeyond ==
    ASSUME NEW s \in Seq(Logs), Ordered(s), NEW a \in 1 .. Len(s), NEW b \in a .. Len(s), NEW r \in LogsPage!ToSet(s)
    PROVE  \/ r \in LogsPage!ToSet(SubSeq(s, a, b))
           \/ a # 1 /\ LogsPage!Above(r, s[a])
           \/ b # Len(s) /\ LogsPage!Above(s[b], r)
<1>1. /\ Len(s) \in Nat /\ a \in Nat /\ b \in Nat /\ a <= b /\ b <= Len(s)
      /\ a \in 1 .. Len(s) + 1 /\ a <= b + 1
  OBVIOUS
<1>2. PICK q \in Seq(Logs) :
         /\ q = SubSeq(s, a, b) /\ Len(q) = b - a + 1 /\ \A i \in 1 .. b - a + 1 : q[i] = s[a + i - 1]
  <2>1. /\ SubSeq(s, a, b) \in Seq(Logs) /\ Len(SubSeq(s, a, b)) = b - a + 1
        /\ \A i \in 1 .. b - a + 1 : SubSeq(s, a, b)[i] = s[a + i - 1]
    BY <1>1, SubSeqFacts
  <2> QED
    BY <2>1
<1>3. \A i, j \in 1 .. Len(s) : i < j => LogsPage!Above(s[i], s[j])
  BY OrderedPlaces
<1>4. PICK i \in 1 .. Len(s) : s[i] = r
  BY Members
<1>5. CASE i < a
  <2>1. a # 1
    BY <1>5, <1>1
  <2> QED
    BY <2>1, <1>3, <1>4, <1>5
<1>6. CASE i > b
  <2>1. b # Len(s) /\ b \in 1 .. Len(s) /\ b < i
    BY <1>6, <1>1
  <2> QED
    BY SMTT(90), <2>1, <1>3, <1>4
<1>7. CASE a <= i /\ i <= b
  <2>1. PICK k \in 1 .. b - a + 1 : k = i - a + 1
    BY <1>7, <1>1
  <2>2. a + k - 1 = i
    BY <2>1, <1>1
  <2>3. q[k] = r /\ k \in 1 .. Len(q)
    BY <2>2, <1>2, <1>4
  <2>4. r \in LogsPage!ToSet(q)
    BY <2>3, Members
  <2> QED
    BY <2>4, <1>2
<1> QED
  BY <1>5, <1>6, <1>7, <1>1

\* A window that gives up its first logs.
LEMMA CutTop ==
    ASSUME PageAssumption, NEW K, NEW M \in SUBSET Logs, NEW s, NEW older, NEW newer,
           Window(s, K, M, older, newer), NEW a \in 2 .. Len(s)
    PROVE  Window(SubSeq(s, a, Len(s)), K, M, older, TRUE)
<1>1. s \in Seq(Logs) /\ Ordered(s) /\ LogsPage!ToSet(s) \subseteq M
  BY DEF Window
<1> DEFINE q == SubSeq(s, a, Len(s))
<1>2. a \in 1 .. Len(s) /\ Len(s) \in a .. Len(s) /\ s # << >> /\ 1 \in 1 .. Len(s) /\ 1 < a
  BY <1>1
<1>3. PICK b \in a .. Len(s) : b = Len(s)
  BY <1>2
<1>4. /\ q \in Seq(Logs) /\ Ordered(q) /\ q # << >> /\ LogsPage!ToSet(q) \subseteq LogsPage!ToSet(s)
      /\ Head(q) = s[a] /\ LogsPage!Last(q) = s[Len(s)]
  BY <1>1, <1>2, <1>3, PartFacts
<1>5. ASSUME NEW r \in LogsPage!ToSet(s) PROVE r \in LogsPage!ToSet(q) \/ LogsPage!Above(r, s[a])
  BY <1>1, <1>2, <1>3, PartBeyond
<1>6. Head(s) = s[1] /\ LogsPage!Last(s) = s[Len(s)] /\ s[1] \in Logs /\ s[a] \in Logs
  BY <1>1, <1>2, Members
<1>7. LogsPage!Above(s[1], s[a])
  BY <1>1, <1>2, OrderedPlaces
<1> HIDE DEF q
<1>8. ASSUME NEW r \in K \cap M
      PROVE  r \in LogsPage!ToSet(q) \/ (LogsPage!Above(LogsPage!Last(q), r) /\ older) \/ LogsPage!Above(r, Head(q))
  <2>1. r \in LogsPage!ToSet(s) \/ (LogsPage!Above(LogsPage!Last(s), r) /\ older) \/ LogsPage!Above(r, Head(s))
    BY ZenonT(90) DEF Window
  <2>2. r \in Logs
    OBVIOUS
  <2>3. LogsPage!Above(r, s[1]) => LogsPage!Above(r, s[a])
    BY <2>2, <1>6, <1>7, AboveOrder
  <2> QED
    BY <2>1, <2>3, <1>4, <1>6, <1>5
<1>9. Window(q, K, M, older, TRUE)
  BY <1>1, <1>4, <1>8 DEF Window
<1> QED
  BY <1>9 DEF q

\* A window that gives up its last logs.
LEMMA CutBottom ==
    ASSUME PageAssumption, NEW K, NEW M \in SUBSET Logs, NEW s, NEW older, NEW newer,
           Window(s, K, M, older, newer), NEW b \in Nat \ {0}, b < Len(s)
    PROVE  Window(SubSeq(s, 1, b), K, M, TRUE, newer)
<1>1. s \in Seq(Logs) /\ Ordered(s) /\ LogsPage!ToSet(s) \subseteq M
  BY DEF Window
<1> DEFINE q == SubSeq(s, 1, b)
<1>2. /\ 1 \in 1 .. Len(s) /\ b \in 1 .. Len(s) /\ s # << >> /\ Len(s) \in 1 .. Len(s) /\ b < Len(s)
  BY <1>1
<1>3. /\ q \in Seq(Logs) /\ Ordered(q) /\ q # << >> /\ LogsPage!ToSet(q) \subseteq LogsPage!ToSet(s)
      /\ Head(q) = s[1] /\ LogsPage!Last(q) = s[b]
  <2>1. PICK a \in 1 .. Len(s) : a = 1 /\ b \in a .. Len(s)
    BY <1>2
  <2>2. /\ SubSeq(s, a, b) \in Seq(Logs) /\ Ordered(SubSeq(s, a, b)) /\ SubSeq(s, a, b) # << >>
        /\ LogsPage!ToSet(SubSeq(s, a, b)) \subseteq LogsPage!ToSet(s)
        /\ Head(SubSeq(s, a, b)) = s[a] /\ LogsPage!Last(SubSeq(s, a, b)) = s[b]
    BY <1>1, <2>1, PartFacts
  <2> QED
    BY <2>1, <2>2
<1>4. ASSUME NEW r \in LogsPage!ToSet(s) PROVE r \in LogsPage!ToSet(q) \/ LogsPage!Above(s[b], r)
  <2>1. PICK a \in 1 .. Len(s) : a = 1 /\ b \in a .. Len(s)
    BY <1>2
  <2>2. \/ r \in LogsPage!ToSet(SubSeq(s, a, b))
        \/ a # 1 /\ LogsPage!Above(r, s[a])
        \/ b # Len(s) /\ LogsPage!Above(s[b], r)
    BY <1>1, <2>1, PartBeyond
  <2> QED
    BY <2>1, <2>2
<1>5. Head(s) = s[1] /\ LogsPage!Last(s) = s[Len(s)] /\ s[b] \in Logs /\ s[Len(s)] \in Logs
  BY SMTT(90), <1>1, <1>2, Members
<1>6. LogsPage!Above(s[b], s[Len(s)])
  BY <1>1, <1>2, OrderedPlaces
<1> HIDE DEF q
<1>7. ASSUME NEW r \in K \cap M
      PROVE  r \in LogsPage!ToSet(q) \/ LogsPage!Above(LogsPage!Last(q), r) \/ (LogsPage!Above(r, Head(q)) /\ newer)
  <2>1. r \in LogsPage!ToSet(s) \/ LogsPage!Above(LogsPage!Last(s), r) \/ (LogsPage!Above(r, Head(s)) /\ newer)
    BY ZenonT(90) DEF Window
  <2>2. r \in Logs
    OBVIOUS
  <2>3. LogsPage!Above(s[Len(s)], r) => LogsPage!Above(s[b], r)
    BY <2>2, <1>5, <1>6, AboveOrder
  <2> QED
    BY <2>1, <2>3, <1>3, <1>5, <1>4
<1>8. Window(q, K, M, TRUE, newer)
  BY <1>1, <1>3, <1>7 DEF Window
<1> QED
  BY <1>8 DEF q

-----------------------------------------------------------------------------
(* The list and its requests.                                              *)

PageTypes ==
    /\ hot \subseteq Logs /\ segments \subseteq SUBSET Logs /\ announced \in Logs \cup {Null}
    /\ query \in LogsPage!Queries /\ items \in Seq(Logs)
    /\ live \in BOOLEAN /\ error \in BOOLEAN /\ overdue \in BOOLEAN
    /\ hasOlder \in BOOLEAN /\ hasNewer \in BOOLEAN
    /\ search \in Asked \cup {Null} /\ more \in AskedFor \cup {Null} /\ stream \in Streams \cup {Null}
    /\ acts \in 0 .. MaxActs

\* A stream is there when the page is live, for its query, and then the list asks for nothing.
ModeInv ==
    /\ live <=> (stream # Null)
    /\ live => more = Null /\ stream.query = query
    /\ ~live /\ search # Null => search.query = query

StoredInv ==
    /\ known \subseteq LogsPage!Stored /\ before \subseteq LogsPage!Stored
    /\ announced # Null => announced \in LogsPage!Stored \ before

\* The answer of the search is the first page of what was stored then.
SearchInv ==
    search # Null => search.stored \subseteq LogsPage!Stored /\
        (search.page # Null => Begins(search.page, search.stored, Matching[search.query]))

\* The list asks for the logs beyond its first or its last, and gets the page there.
MoreInv ==
    more # Null =>
        /\ more.query = query /\ items # << >>
        /\ more.direction = "older" => more.from = LogsPage!Last(items)
        /\ more.direction = "newer" => more.from = Head(items)
        /\ more.direction = "older" /\ more.page # Null => Begins(more.page, known, Below(query, more.from))
        /\ more.direction = "newer" /\ more.page # Null => Finishes(more.page, known, Beyond(query, more.from))

\* The list of a search that was answered is a window of what its query asks for.
SettledInv ==
    ~live /\ search = Null /\ ~error =>
        Window(items, known, Matching[query], hasOlder, hasNewer) /\ MoreInv

\* Logs of the set M, none twice.
Fresh(s, M) == LogsPage!ToSet(s) \subseteq M /\ \A i, j \in 1 .. Len(s) : i # j => s[i] # s[j]

\* What may have come since the stream began.
Come == (Matching[query] \cap LogsPage!Stored) \ (before \cup {announced})

\* The live list and what waits in the channel came since the stream began, none twice.
LiveInv ==
    live /\ ~overdue =>
        /\ search = Null
        /\ Fresh(items, Come) /\ Fresh(stream.channel, Come)
        /\ LogsPage!ToSet(items) \cap LogsPage!ToSet(stream.channel) = {}

PageInv == PageTypes /\ ModeInv /\ StoredInv /\ SearchInv /\ SettledInv /\ LiveInv

\* Nothing is neither a request nor a stream, and these are records.
LEMMA PageShapes ==
    ASSUME PageAssumption, PageTypes
    PROVE  /\ Null \notin Logs /\ Null \notin Seq(Logs) /\ Null \notin Asked /\ Null \notin AskedFor /\ Null \notin Streams
           /\ LogsPage!Stored \subseteq Logs
           /\ search # Null => search \in Asked
           /\ more # Null => more \in AskedFor
           /\ stream # Null => stream \in Streams
           /\ \A q \in LogsPage!Queries : Matching[q] \in SUBSET Logs
  BY DEF PageAssumption, PageTypes, LogsPage!Stored

\* A log is stored: it was not, and the list cannot have it.
LEMMA StoreLogStep ==
    ASSUME PageAssumption, PageInv, NEW r \in Logs, LogsPage!Store(r)
    PROVE  PageInv'
<1>1. /\ r \notin LogsPage!Stored /\ announced = Null /\ hot' = hot \cup {r} /\ announced' = r
      /\ UNCHANGED <<segments, query, live, items, hasOlder, hasNewer, search, more, stream, error, acts,
                     known, before, overdue>>
  BY DEF LogsPage!Store
<1>2. LogsPage!Stored' = LogsPage!Stored \cup {r} /\ Null \notin Logs /\ r # Null
  BY <1>1, PageShapes DEF LogsPage!Stored, PageInv
<1>3. PageTypes'
  BY <1>1 DEF PageInv, PageTypes
<1>4. ModeInv'
  BY <1>1 DEF PageInv, ModeInv
<1>5. StoredInv'
  BY <1>1, <1>2 DEF PageInv, StoredInv
<1>6. SearchInv'
  BY SMTT(90), <1>1, <1>2 DEF PageInv, SearchInv
<1>7. SettledInv'
  BY <1>1 DEF PageInv, SettledInv, MoreInv
<1>8. LiveInv'
  <2>1. Come \subseteq Come'
    BY SMTT(90), <1>1, <1>2 DEF PageInv, StoredInv, Come
  <2> QED
    BY SMTT(90), <1>1, <2>1 DEF PageInv, LiveInv, Fresh
<1> QED
  BY <1>3, <1>4, <1>5, <1>6, <1>7, <1>8 DEF PageInv

\* A log written to the channel, at the cost of its oldest.
LEMMA WrittenFacts ==
    ASSUME NEW M \in SUBSET Logs, NEW s \in Seq(Logs), Fresh(s, M), NEW r \in M, r \notin LogsPage!ToSet(s)
    PROVE  /\ LogsPage!Written(s, r) \in Seq(Logs) /\ Fresh(LogsPage!Written(s, r), M)
           /\ LogsPage!ToSet(LogsPage!Written(s, r)) \subseteq LogsPage!ToSet(s) \cup {r}
<1>1. r \in Logs
  OBVIOUS
<1>2. PICK q \in Seq(Logs) : q = Append(s, r)
  <2>1. Append(s, r) \in Seq(Logs)
    BY <1>1
  <2> QED
    BY <2>1
<1>3. /\ Len(s) \in Nat /\ Len(q) = Len(s) + 1
      /\ \A i \in 1 .. Len(s) : q[i] = s[i] /\ s[i] \in LogsPage!ToSet(s)
      /\ q[Len(s) + 1] = r
  BY SMTT(90), <1>2, Members
<1>4. \A i \in 1 .. Len(s) + 1 : i \in 1 .. Len(s) \/ i = Len(s) + 1
  BY <1>3
<1>5. \A i, j \in 1 .. Len(q) : i # j => q[i] # q[j]
  BY SMTT(90), <1>3, <1>4 DEF Fresh
<1>6. \A i \in 1 .. Len(q) : q[i] \in LogsPage!ToSet(s) \cup {r}
  BY SMTT(90), <1>3, <1>4
<1>7. LogsPage!ToSet(q) \subseteq LogsPage!ToSet(s) \cup {r}
  BY <1>6, Members
<1>8. LogsPage!ToSet(s) \cup {r} \subseteq M
  BY DEF Fresh
<1>9. PICK p \in Seq(Logs) : /\ p = Tail(q) /\ Len(p) = Len(s)
                             /\ \A i \in 1 .. Len(s) : p[i] = q[i + 1] /\ i + 1 \in 1 .. Len(q)
  <2>1. q # << >>
    BY <1>3
  <2>2. Tail(q) \in Seq(Logs) /\ Len(Tail(q)) = Len(s)
    BY <2>1, <1>3
  <2>3. \A i \in 1 .. Len(s) : Tail(q)[i] = q[i + 1] /\ i + 1 \in 1 .. Len(q)
    BY <2>1, <2>2, <1>3
  <2> QED
    BY <2>2, <2>3
<1>10. \A i, j \in 1 .. Len(p) : i # j => p[i] # p[j]
  <2>1. \A i, j \in 1 .. Len(s) : i # j => i + 1 # j + 1
    BY <1>3
  <2> QED
    BY <2>1, <1>5, <1>9
<1>11. LogsPage!ToSet(p) \subseteq LogsPage!ToSet(s) \cup {r}
  <2>1. \A i \in 1 .. Len(p) : p[i] \in LogsPage!ToSet(s) \cup {r}
    BY <1>6, <1>9
  <2> QED
    BY <2>1, Members
<1>12. LogsPage!Written(s, r) = q \/ LogsPage!Written(s, r) = p
  BY <1>2, <1>9 DEF LogsPage!Written
<1> QED
  BY <1>5, <1>7, <1>8, <1>10, <1>11, <1>12 DEF Fresh

\* A log is sent to the stream.
LEMMA PublishStep ==
    ASSUME PageAssumption, PageInv, LogsPage!Publish
    PROVE  PageInv'
<1>1. /\ announced # Null /\ announced' = Null
      /\ UNCHANGED <<hot, segments, query, live, items, hasOlder, hasNewer, search, more, error, acts,
                     known, before, overdue>>
  BY DEF LogsPage!Publish
<1>2. LogsPage!Stored' = LogsPage!Stored /\ announced \in LogsPage!Stored \ before /\ announced \in Logs
  BY <1>1 DEF LogsPage!Stored, PageInv, StoredInv, PageTypes
<1> DEFINE asks == stream # Null /\ stream.open /\ announced \in Matching[stream.query]
<1>3. \/ ~asks /\ stream' = stream
      \/ asks /\ stream' = [stream EXCEPT !.channel = LogsPage!Written(stream.channel, announced)]
  BY DEF LogsPage!Publish
<1>4. /\ Null \notin Streams /\ Null \notin Logs /\ LogsPage!Stored \subseteq Logs
      /\ stream # Null => stream \in Streams
      /\ \A q \in LogsPage!Queries : Matching[q] \in SUBSET Logs
  BY PageShapes DEF PageInv
<1>5. ASSUME NEW c, NEW r, stream \in Streams, stream' = [stream EXCEPT !.channel = c], c \in Seq(Logs)
      PROVE  stream' \in Streams /\ stream'.channel = c /\ stream'.query = stream.query /\ stream' # Null
  BY <1>5, <1>4 DEF Streams
<1>6. ASSUME NEW s \in Seq(Logs), NEW r \in Logs PROVE LogsPage!Written(s, r) \in Seq(Logs)
  <2>1. Append(s, r) \in Seq(Logs)
    OBVIOUS
  <2>2. PICK q \in Seq(Logs) : q = Append(s, r)
    BY <2>1
  <2>3. Len(q) = Len(s) + 1 /\ Len(s) \in Nat
    BY <2>2
  <2>4. q # << >>
    BY <2>3
  <2>5. Tail(q) \in Seq(Logs)
    BY <2>4
  <2> QED
    BY <2>2, <2>5 DEF LogsPage!Written
<1>7. asks => /\ stream \in Streams /\ stream' \in Streams /\ stream' # Null
              /\ stream'.channel = LogsPage!Written(stream.channel, announced)
              /\ stream'.query = stream.query
  <2> SUFFICES ASSUME asks PROVE /\ stream \in Streams /\ stream' \in Streams /\ stream' # Null
                                 /\ stream'.channel = LogsPage!Written(stream.channel, announced)
                                 /\ stream'.query = stream.query
    OBVIOUS
  <2>1. stream \in Streams /\ stream.channel \in Seq(Logs)
    BY <1>4 DEF Streams
  <2>2. LogsPage!Written(stream.channel, announced) \in Seq(Logs)
    BY <2>1, <1>6, <1>2
  <2> QED
    BY <2>1, <2>2, <1>3, <1>5
<1> HIDE DEF asks
<1>8. /\ stream' \in Streams \cup {Null} /\ (stream' # Null <=> stream # Null)
      /\ stream # Null => stream'.query = stream.query
  BY <1>3, <1>7, <1>4 DEF PageInv, PageTypes, asks
<1>9. PageTypes'
  BY <1>1, <1>8 DEF PageInv, PageTypes
<1>10. ModeInv'
  BY <1>1, <1>8 DEF PageInv, ModeInv
<1>11. StoredInv'
  BY <1>1, <1>2 DEF PageInv, StoredInv
<1>12. SearchInv'
  BY <1>1, <1>2 DEF PageInv, SearchInv
<1>13. SettledInv'
  BY <1>1 DEF PageInv, SettledInv, MoreInv
<1>14. LiveInv'
  <2> SUFFICES ASSUME live, ~overdue
               PROVE  /\ search = Null /\ Fresh(items, Come') /\ Fresh(stream'.channel, Come')
                      /\ LogsPage!ToSet(items) \cap LogsPage!ToSet(stream'.channel) = {}
    BY <1>1 DEF LiveInv, Fresh
  <2>1. /\ search = Null /\ Fresh(items, Come) /\ Fresh(stream.channel, Come)
        /\ LogsPage!ToSet(items) \cap LogsPage!ToSet(stream.channel) = {} /\ stream.query = query /\ stream # Null
    BY DEF PageInv, LiveInv, ModeInv
  <2>2. Come \subseteq Come' /\ Come' \in SUBSET Logs /\ announced \notin Come
    BY <1>1, <1>2, <1>4 DEF Come, PageInv, PageTypes
  <2>3. Fresh(items, Come') /\ Fresh(stream.channel, Come')
    BY <2>1, <2>2 DEF Fresh
  <2>4. CASE ~asks
    BY <2>4, <2>1, <2>3, <1>3
  <2>5. CASE asks
    <3>1. announced \in Come'
      BY <2>5, <2>1, <1>1, <1>2, <1>4 DEF Come, asks
    <3>2. announced \notin LogsPage!ToSet(items) /\ announced \notin LogsPage!ToSet(stream.channel)
      BY <2>1, <2>2 DEF Fresh
    <3>3. stream.channel \in Seq(Logs)
      BY <2>5, <1>7 DEF Streams
    <3>4. PICK M \in SUBSET Logs : M = Come'
      BY <2>2
    <3>5. /\ Fresh(LogsPage!Written(stream.channel, announced), M)
          /\ LogsPage!ToSet(LogsPage!Written(stream.channel, announced)) \subseteq LogsPage!ToSet(stream.channel) \cup {announced}
      BY <3>1, <3>2, <3>3, <3>4, <2>3, WrittenFacts
    <3> QED
      BY <3>2, <3>4, <3>5, <2>1, <2>3, <2>5, <1>7
  <2> QED
    BY <2>4, <2>5
<1> QED
  BY <1>9, <1>10, <1>11, <1>12, <1>13, <1>14 DEF PageInv

\* The logs in memory become a segment: what is stored stays.
LEMMA FlushStep ==
    ASSUME PageAssumption, PageInv, LogsPage!Flush
    PROVE  PageInv'
<1>1. /\ segments' = segments \cup {hot} /\ hot' = {}
      /\ UNCHANGED <<announced, query, live, items, hasOlder, hasNewer, search, more, stream, error, acts,
                     known, before, overdue>>
  BY DEF LogsPage!Flush
<1>2. LogsPage!Stored' = LogsPage!Stored
  BY <1>1 DEF LogsPage!Stored
<1>3. PageTypes'
  BY <1>1 DEF PageInv, PageTypes
<1>4. ModeInv'
  BY <1>1 DEF PageInv, ModeInv
<1>5. StoredInv' /\ SearchInv'
  BY <1>1, <1>2 DEF PageInv, StoredInv, SearchInv
<1>6. SettledInv'
  BY <1>1 DEF PageInv, SettledInv, MoreInv
<1>7. LiveInv'
  BY <1>1, <1>2 DEF PageInv, LiveInv, Fresh, Come
<1> QED
  BY <1>3, <1>4, <1>5, <1>6, <1>7 DEF PageInv

\* The search is evaluated.
LEMMA ServeStep ==
    ASSUME PageAssumption, PageInv, LogsPage!Serve
    PROVE  PageInv'
<1>1. /\ search # Null
      /\ search' = [search EXCEPT !.page = LogsPage!FirstPage(search.query), !.stored = LogsPage!Stored]
      /\ UNCHANGED <<hot, announced, segments, query, live, items, hasOlder, hasNewer, more, stream, error, acts,
                     known, before, overdue>>
  BY DEF LogsPage!Serve
<1>2. LogsPage!Stored' = LogsPage!Stored /\ LogsPage!Stored \subseteq Logs /\ search \in Asked /\ Null \notin Asked
  BY <1>1, PageShapes DEF LogsPage!Stored, PageInv
<1>3. search.query \in LogsPage!Queries
  BY <1>2 DEF Asked
<1>4. Begins(LogsPage!FirstPage(search.query), LogsPage!Stored, Matching[search.query])
  BY <1>2, <1>3, FirstPageFacts
<1>5. LogsPage!FirstPage(search.query) \in Seq(Logs)
  BY <1>4 DEF Begins
<1> DEFINE page == LogsPage!FirstPage(search.query)
<1> HIDE DEF page
<1>6. /\ search' \in Asked /\ search' # Null
      /\ search'.query = search.query /\ search'.page = page /\ search'.stored = LogsPage!Stored
  BY <1>1, <1>2, <1>3, <1>5 DEF Asked, page
<1>7. PageTypes'
  BY <1>1, <1>6 DEF PageInv, PageTypes
<1>8. ModeInv'
  BY <1>1, <1>6 DEF PageInv, ModeInv
<1>9. StoredInv'
  BY <1>1, <1>2 DEF PageInv, StoredInv
<1>10. SearchInv'
  BY <1>2, <1>4, <1>6 DEF SearchInv, page
<1>11. SettledInv' /\ LiveInv'
  BY <1>1, <1>6 DEF PageInv, LiveInv, SettledInv
<1> QED
  BY <1>7, <1>8, <1>9, <1>10, <1>11 DEF PageInv

\* The page of the list is evaluated: it lies beyond the log that was asked from.
LEMMA ServeMoreStep ==
    ASSUME PageAssumption, PageInv, LogsPage!ServeMore
    PROVE  PageInv'
<1> DEFINE page == IF more.direction = "older" THEN LogsPage!OlderThan(more.query, more.from)
                                               ELSE LogsPage!NewerThan(more.query, more.from)
<1>1. /\ more # Null
      /\ more' = [more EXCEPT !.page = page]
      /\ UNCHANGED <<hot, announced, segments, query, live, items, hasOlder, hasNewer, search, stream, error, acts,
                     known, before, overdue>>
  BY DEF LogsPage!ServeMore
<1>2. LogsPage!Stored' = LogsPage!Stored /\ LogsPage!Stored \subseteq Logs /\ more \in AskedFor /\ Null \notin AskedFor
  BY <1>1, PageShapes DEF LogsPage!Stored, PageInv
<1>3. more.query \in LogsPage!Queries /\ more.from \in Logs /\ more.direction \in {"older", "newer"}
  BY <1>2 DEF AskedFor
<1>4. /\ more.direction = "older" => Begins(page, LogsPage!Stored, Below(more.query, more.from))
      /\ more.direction = "newer" => Finishes(page, LogsPage!Stored, Beyond(more.query, more.from))
  BY <1>2, <1>3, OlderFacts, NewerFacts
<1> HIDE DEF page
<1>5. page \in Seq(Logs)
  BY <1>3, <1>4 DEF Begins, Finishes
<1>6. /\ more' \in AskedFor /\ more' # Null
      /\ more'.query = more.query /\ more'.page = page /\ more'.from = more.from
      /\ more'.direction = more.direction
  BY <1>1, <1>2, <1>5 DEF AskedFor
<1>7. PageTypes'
  BY <1>1, <1>6 DEF PageInv, PageTypes
<1>8. ModeInv'
  BY <1>1, <1>6 DEF PageInv, ModeInv
<1>9. StoredInv' /\ SearchInv'
  BY <1>1, <1>2 DEF PageInv, StoredInv, SearchInv
<1>10. SettledInv'
  <2> SUFFICES ASSUME ~live, search = Null, ~error PROVE Window(items, known, Matching[query], hasOlder, hasNewer) /\ MoreInv'
    BY <1>1 DEF SettledInv
  <2>1. Window(items, known, Matching[query], hasOlder, hasNewer) /\ MoreInv
    BY DEF PageInv, SettledInv
  <2>2. known \subseteq LogsPage!Stored
    BY DEF PageInv, StoredInv
  <2>3. /\ more.query = query /\ items # << >>
        /\ more.direction = "older" => more.from = LogsPage!Last(items)
        /\ more.direction = "newer" => more.from = Head(items)
    BY <2>1, <1>1 DEF MoreInv
  <2>4. /\ more.direction = "older" => Begins(page, known, Below(query, more.from))
        /\ more.direction = "newer" => Finishes(page, known, Beyond(query, more.from))
    BY <1>4, <2>2, <2>3 DEF Begins, Finishes
  <2> QED
    BY <1>1, <1>6, <2>1, <2>3, <2>4 DEF MoreInv
<1>11. LiveInv'
  BY <1>1, <1>2 DEF PageInv, LiveInv, Fresh, Come
<1> QED
  BY <1>7, <1>8, <1>9, <1>10, <1>11 DEF PageInv

\* The stream is open.
LEMMA OpenStep ==
    ASSUME PageAssumption, PageInv, LogsPage!Open
    PROVE  PageInv'
<1>1. /\ stream # Null /\ stream' = [stream EXCEPT !.open = TRUE]
      /\ UNCHANGED <<hot, announced, segments, query, live, items, hasOlder, hasNewer, search, more, error, acts,
                     known, before, overdue>>
  BY DEF LogsPage!Open
<1>2. LogsPage!Stored' = LogsPage!Stored /\ stream \in Streams /\ Null \notin Streams
  BY <1>1, PageShapes DEF LogsPage!Stored, PageInv
<1>3. /\ stream' \in Streams /\ stream' # Null
      /\ stream'.query = stream.query /\ stream'.channel = stream.channel
  BY <1>1, <1>2 DEF Streams
<1>4. PageTypes'
  BY <1>1, <1>3 DEF PageInv, PageTypes
<1>5. ModeInv'
  BY <1>1, <1>3 DEF PageInv, ModeInv
<1>6. StoredInv' /\ SearchInv'
  BY <1>1, <1>2 DEF PageInv, StoredInv, SearchInv
<1>7. SettledInv'
  BY <1>1 DEF PageInv, SettledInv, MoreInv
<1>8. LiveInv'
  BY <1>1, <1>2, <1>3 DEF PageInv, LiveInv, Fresh, Come
<1> QED
  BY <1>4, <1>5, <1>6, <1>7, <1>8 DEF PageInv

\* A sequence of nothing.
LEMMA NothingFacts ==
    ASSUME NEW T
    PROVE  << >> \in Seq(T) /\ LogsPage!ToSet(<< >>) = {} /\ Len(<< >>) = 0
<1>1. << >> \in Seq(T)
  OBVIOUS
<1>2. PICK s \in Seq(T) : s = << >>
  BY <1>1, ZenonT(90)
<1>3. LogsPage!ToSet(s) = {}
  BY <1>2, Members
<1> QED
  BY <1>1, <1>2, <1>3

\* The connection is lost, and what waited with it.
LEMMA DisconnectStep ==
    ASSUME PageAssumption, PageInv, LogsPage!Disconnect
    PROVE  PageInv'
<1>1. /\ stream # Null /\ stream' = [stream EXCEPT !.open = FALSE, !.channel = << >>]
      /\ acts < MaxActs /\ acts' = acts + 1
      /\ UNCHANGED <<hot, announced, segments, query, live, items, hasOlder, hasNewer, search, more, error,
                     known, before, overdue>>
  BY DEF LogsPage!Disconnect, LogsPage!Act
<1>2. LogsPage!Stored' = LogsPage!Stored /\ stream \in Streams /\ Null \notin Streams
  BY <1>1, PageShapes DEF LogsPage!Stored, PageInv
<1>3. /\ stream' \in Streams /\ stream' # Null
      /\ stream'.query = stream.query /\ stream'.channel = << >>
  <2>1. << >> \in Seq(Logs)
    BY NothingFacts
  <2> QED
    BY <2>1, <1>1, <1>2 DEF Streams
<1>4. PageTypes'
  BY <1>1, <1>3 DEF PageInv, PageTypes, PageAssumption
<1>5. ModeInv'
  BY <1>1, <1>3 DEF PageInv, ModeInv
<1>6. StoredInv' /\ SearchInv'
  BY <1>1, <1>2 DEF PageInv, StoredInv, SearchInv
<1>7. SettledInv'
  BY <1>1 DEF PageInv, SettledInv, MoreInv
<1>8. LiveInv'
  <2>1. LogsPage!ToSet(<< >>) = {} /\ Len(<< >>) = 0
    BY NothingFacts
  <2> QED
    BY <1>1, <1>2, <1>3, <2>1 DEF PageInv, LiveInv, Fresh, Come
<1> QED
  BY <1>4, <1>5, <1>6, <1>7, <1>8 DEF PageInv

\* The list asks for the page beyond its last log, or its first.
LEMMA ScrollStep ==
    ASSUME PageAssumption, PageInv, NEW bottom \in BOOLEAN, NEW top \in BOOLEAN, LogsPage!Scroll(bottom, top)
    PROVE  PageInv'
<1>1. /\ ~live /\ more = Null /\ items # << >>
      /\ \/ more' = [query |-> query, direction |-> "older", from |-> LogsPage!Last(items), page |-> Null]
         \/ more' = [query |-> query, direction |-> "newer", from |-> Head(items), page |-> Null]
      /\ UNCHANGED <<hot, announced, segments, query, live, items, hasOlder, hasNewer, search, stream, error, acts,
                     known, before, overdue>>
  BY DEF LogsPage!Scroll
<1>2. LogsPage!Stored' = LogsPage!Stored /\ Null \notin AskedFor
  BY <1>1, PageShapes DEF LogsPage!Stored, PageInv
<1>3. query \in LogsPage!Queries /\ LogsPage!Last(items) \in Logs /\ Head(items) \in Logs
  BY <1>1, Members DEF PageInv, PageTypes
<1>4. /\ more' \in AskedFor /\ more' # Null /\ more'.query = query /\ more'.page = Null
      /\ more'.direction = "older" => more'.from = LogsPage!Last(items)
      /\ more'.direction = "newer" => more'.from = Head(items)
  BY <1>1, <1>2, <1>3 DEF AskedFor
<1>5. PageTypes'
  BY <1>1, <1>4 DEF PageInv, PageTypes
<1>6. ModeInv'
  BY <1>1, <1>4 DEF PageInv, ModeInv
<1>7. StoredInv' /\ SearchInv'
  BY <1>1, <1>2 DEF PageInv, StoredInv, SearchInv
<1>8. SettledInv'
  BY <1>1, <1>4 DEF PageInv, SettledInv, MoreInv
<1>9. LiveInv'
  BY <1>1 DEF LiveInv
<1> QED
  BY <1>5, <1>6, <1>7, <1>8, <1>9 DEF PageInv

\* The window grows on one side, and gives up on the other what is too much.
LEMMA MoreAnswerStep ==
    ASSUME PageAssumption, PageInv, LogsPage!MoreAnswer
    PROVE  PageInv'
<1> DEFINE older == more.direction = "older"
           next  == IF older THEN items \o more.page ELSE more.page \o items
           cut   == Len(next) - MaxItems
<1>1. /\ more # Null /\ more.page # Null /\ more' = Null
      /\ UNCHANGED <<hot, announced, segments, query, live, search, stream, error, acts, known, before, overdue>>
  BY DEF LogsPage!MoreAnswer
<1>2. /\ LogsPage!Stored' = LogsPage!Stored /\ more \in AskedFor /\ Null \notin AskedFor
      /\ Matching[query] \in SUBSET Logs
  BY <1>1, PageShapes DEF LogsPage!Stored, PageInv, PageTypes
<1>3. /\ more.direction \in {"older", "newer"} /\ more.page \in Seq(Logs) /\ items \in Seq(Logs)
      /\ hasOlder \in BOOLEAN /\ hasNewer \in BOOLEAN
  BY <1>1, <1>2 DEF AskedFor, PageInv, PageTypes
<1>4. next \in Seq(Logs) /\ Len(next) \in Nat /\ MaxItems \in Nat /\ MaxItems >= 1
  <2>1. items \o more.page \in Seq(Logs) /\ more.page \o items \in Seq(Logs)
    BY <1>3
  <2>2. next \in Seq(Logs)
    BY <2>1
  <2> QED
    BY <2>2 DEF PageAssumption
<1>5. /\ older => items' = IF cut > 0 THEN SubSeq(next, cut + 1, Len(next)) ELSE next
      /\ ~older => items' = LogsPage!UpTo(MaxItems, next)
  BY DEF LogsPage!MoreAnswer
<1>6. older => /\ hasOlder' = (Len(more.page) >= PageSize) /\ hasNewer' = (hasNewer \/ cut > 0)
  BY DEF LogsPage!MoreAnswer
<1>7. ~older => /\ hasNewer' = (Len(more.page) >= PageSize) /\ hasOlder' = (hasOlder \/ cut > 0)
  BY DEF LogsPage!MoreAnswer
<1> HIDE DEF next
<1>8. hasOlder' \in BOOLEAN /\ hasNewer' \in BOOLEAN
  <2>1. Len(more.page) \in Nat /\ PageSize \in Nat /\ cut \in Int
    BY <1>3, <1>4 DEF PageAssumption
  <2>2. (Len(more.page) >= PageSize) \in BOOLEAN /\ (cut > 0) \in BOOLEAN
    BY <2>1
  <2>3. (hasOlder \/ cut > 0) \in BOOLEAN /\ (hasNewer \/ cut > 0) \in BOOLEAN
    BY <1>3, <2>2, ZenonT(90)
  <2>4. CASE older
    BY <2>4, <1>6, <2>2, <2>3, ZenonT(90)
  <2>5. CASE ~older
    BY <2>5, <1>7, <2>2, <2>3, ZenonT(90)
  <2> QED
    BY <2>4, <2>5
<1>9. items' \in Seq(Logs)
  <2>1. CASE older /\ cut > 0
    <3>1. PICK a \in 1 .. Len(next) + 1, b \in Nat : a = cut + 1 /\ b = Len(next) /\ a <= b + 1
      BY SMTT(90), <2>1, <1>4
    <3>2. SubSeq(next, a, b) \in Seq(Logs)
      BY <3>1, <1>4, SubSeqFacts
    <3> QED
      BY <3>1, <3>2, <2>1, <1>5
  <2>2. CASE older /\ ~(cut > 0)
    BY <2>2, <1>4, <1>5
  <2>3. CASE ~older /\ Len(next) <= MaxItems
    BY <2>3, <1>4, <1>5 DEF LogsPage!UpTo
  <2>4. CASE ~older /\ ~(Len(next) <= MaxItems)
    <3>1. 1 \in 1 .. Len(next) + 1 /\ MaxItems <= Len(next) /\ 1 <= MaxItems + 1
      BY <2>4, <1>4
    <3>2. SubSeq(next, 1, MaxItems) \in Seq(Logs)
      BY <3>1, <1>4, SubSeqFacts
    <3> QED
      BY <3>2, <2>4, <1>5 DEF LogsPage!UpTo
  <2> QED
    BY <2>1, <2>2, <2>3, <2>4
<1>10. PageTypes'
  BY <1>1, <1>9, <1>8 DEF PageInv, PageTypes
<1>11. ~live /\ ModeInv'
  BY <1>1 DEF PageInv, ModeInv
<1>12. StoredInv' /\ SearchInv'
  BY <1>1, <1>2 DEF PageInv, StoredInv, SearchInv
<1>13. LiveInv'
  BY <1>1, <1>11 DEF LiveInv
<1>14. SettledInv'
  <2> SUFFICES ASSUME search = Null, ~error PROVE Window(items', known, Matching[query], hasOlder', hasNewer')
    BY <1>1 DEF SettledInv, MoreInv
  <2>1. Window(items, known, Matching[query], hasOlder, hasNewer) /\ MoreInv
    BY <1>11 DEF PageInv, SettledInv
  <2>2. more.query = query /\ items # << >>
    BY <1>1, <2>1 DEF MoreInv
  <2>3. CASE older
    <3>1. Begins(more.page, known, {r \in Matching[query] : LogsPage!Above(LogsPage!Last(items), r)})
      BY <2>3, <2>1, <1>1 DEF MoreInv, Below
    <3>2. Window(items \o more.page, known, Matching[query], Len(more.page) >= PageSize, hasNewer)
      BY <3>1, <2>1, <2>2, <1>2, JoinBelow
    <3>3. next = items \o more.page
      BY <2>3 DEF next
    <3>4. Window(next, known, Matching[query], hasOlder', hasNewer)
      BY <3>2, <3>3, <2>3, <1>6
    <3>5. CASE cut > 0
      <4>1. PICK a \in 2 .. Len(next) : a = cut + 1
        BY <3>5, <1>4
      <4>2. Window(SubSeq(next, a, Len(next)), known, Matching[query], hasOlder', TRUE)
        BY <3>4, <4>1, <1>2, CutTop
      <4>3. hasNewer' = TRUE
        BY <3>5, <2>3, <1>6
      <4> QED
        BY <4>1, <4>2, <4>3, <3>5, <2>3, <1>5
    <3>6. CASE ~(cut > 0)
      <4>1. hasNewer' = hasNewer
        BY <3>6, <2>3, <1>3, <1>6
      <4>2. items' = next
        BY <3>6, <2>3, <1>5
      <4> QED
        BY <4>1, <4>2, <3>4
    <3> QED
      BY <3>5, <3>6
  <2>4. CASE ~older
    <3>1. Finishes(more.page, known, {r \in Matching[query] : LogsPage!Above(r, Head(items))})
      BY <2>4, <2>1, <1>1, <1>3 DEF MoreInv, Beyond
    <3>2. Window(more.page \o items, known, Matching[query], hasOlder, Len(more.page) >= PageSize)
      BY <3>1, <2>1, <2>2, <1>2, JoinAbove
    <3>3. next = more.page \o items
      BY <2>4 DEF next
    <3>4. Window(next, known, Matching[query], hasOlder, hasNewer')
      BY <3>2, <3>3, <2>4, <1>7
    <3>5. CASE cut > 0
      <4>1. MaxItems \in Nat \ {0} /\ MaxItems < Len(next) /\ ~(Len(next) <= MaxItems)
        BY <3>5, <1>4
      <4>2. Window(SubSeq(next, 1, MaxItems), known, Matching[query], TRUE, hasNewer')
        BY <3>4, <4>1, <1>2, CutBottom
      <4>3. hasOlder' = TRUE
        BY <3>5, <2>4, <1>7
      <4> QED
        BY <4>1, <4>2, <4>3, <2>4, <1>5 DEF LogsPage!UpTo
    <3>6. CASE ~(cut > 0)
      <4>1. Len(next) <= MaxItems
        BY <3>6, <1>4
      <4>2. hasOlder' = hasOlder
        BY <3>6, <2>4, <1>3, <1>7
      <4>3. items' = next
        BY <4>1, <2>4, <1>5 DEF LogsPage!UpTo
      <4> QED
        BY SMTT(90), <4>2, <4>3, <3>4
    <3> QED
      BY <3>5, <3>6
  <2> QED
    BY <2>3, <2>4
<1> QED
  BY <1>10, <1>11, <1>12, <1>13, <1>14 DEF PageInv

\* A stream begins: the list is empty, and so is the channel.
LEMMA StartLiveStep ==
    ASSUME PageAssumption, PageInv, NEW q \in LogsPage!Queries, LogsPage!StartLive(q), query' = q, live' = TRUE,
           acts < MaxActs, acts' = acts + 1,
           UNCHANGED <<hot, announced, segments, known, search, error>>
    PROVE  PageInv'
<1>1. /\ stream' = [query |-> q, open |-> FALSE, channel |-> << >>]
      /\ items' = << >> /\ hasOlder' = (Len(<< >>) >= PageSize) /\ hasNewer' = FALSE /\ more' = Null
      /\ before' = LogsPage!Stored \ {announced} /\ overdue' = (search # Null)
  BY DEF LogsPage!StartLive, LogsPage!Reset
<1>2. LogsPage!Stored' = LogsPage!Stored /\ Null \notin Streams
  BY PageShapes DEF LogsPage!Stored, PageInv
<1>3. << >> \in Seq(Logs) /\ LogsPage!ToSet(<< >>) = {} /\ Len(<< >>) = 0
  BY NothingFacts
<1>4. stream' \in Streams /\ stream' # Null /\ stream'.query = q /\ stream'.channel = << >>
  <2>1. stream' = [query |-> q, open |-> FALSE, channel |-> << >>]
    BY <1>1
  <2>2. stream' \in Streams
    BY <2>1, <1>3 DEF Streams
  <2> QED
    BY <2>1, <2>2, <1>2
<1>5. hasOlder' \in BOOLEAN /\ hasNewer' \in BOOLEAN /\ overdue' \in BOOLEAN
  <2>1. PageSize \in Nat
    BY DEF PageAssumption
  <2>2. (Len(<< >>) >= PageSize) \in BOOLEAN
    BY SMTT(90), <2>1, <1>3
  <2> QED
    BY <2>2, <1>1, ZenonT(90)
<1>6. PageTypes'
  BY <1>1, <1>3, <1>4, <1>5 DEF PageInv, PageTypes, PageAssumption
<1>7. ModeInv'
  BY SMTT(90), <1>1, <1>4 DEF ModeInv
<1>8. StoredInv' /\ SearchInv'
  BY <1>1, <1>2 DEF PageInv, StoredInv, SearchInv
<1>9. SettledInv'
  BY DEF SettledInv
<1>10. LiveInv'
  <2>1. overdue' = (search # Null) /\ items' = << >>
    BY <1>1
  <2>2. ~overdue' => search = Null
    BY <2>1
  <2>3. Fresh(<< >>, Come')
    BY <1>3 DEF Fresh
  <2>4. Fresh(items', Come') /\ Fresh(stream'.channel, Come') /\ LogsPage!ToSet(items') \cap LogsPage!ToSet(stream'.channel) = {}
    BY <2>1, <2>3, <1>3, <1>4
  <2> QED
    BY SMTT(90), <2>2, <2>4 DEF LiveInv, Fresh
<1> QED
  BY <1>6, <1>7, <1>8, <1>9, <1>10 DEF PageInv

\* A search begins.
LEMMA LoadStep ==
    ASSUME PageAssumption, PageInv, NEW q \in LogsPage!Queries, LogsPage!Load(q), query' = q, live' = FALSE, stream' = Null,
           acts < MaxActs, acts' = acts + 1,
           UNCHANGED <<hot, announced, segments, known, before, overdue>>
    PROVE  PageInv'
<1>1. /\ search' = [query |-> q, page |-> Null, stored |-> {}] /\ error' = FALSE
      /\ UNCHANGED <<items, hasOlder, hasNewer, more>>
  BY DEF LogsPage!Load, LogsPage!Asking
<1>2. LogsPage!Stored' = LogsPage!Stored /\ Null \notin Asked
  BY PageShapes DEF LogsPage!Stored, PageInv
<1>3. search' \in Asked /\ search' # Null /\ search'.query = q /\ search'.page = Null /\ search'.stored = {}
  BY SMTT(90), <1>1, <1>2 DEF Asked
<1>4. PageTypes'
  <2>1. acts' \in 0 .. MaxActs
    BY DEF PageInv, PageTypes, PageAssumption
  <2> QED
    BY <2>1, <1>1, <1>3 DEF PageInv, PageTypes
<1>5. ModeInv'
  BY <1>3 DEF ModeInv
<1>6. StoredInv' /\ SearchInv'
  BY <1>2, <1>3 DEF PageInv, StoredInv, SearchInv
<1>7. SettledInv'
  BY <1>3 DEF SettledInv
<1>8. LiveInv'
  BY DEF LiveInv
<1> QED
  BY <1>4, <1>5, <1>6, <1>7, <1>8 DEF PageInv

\* Another query, or the same again.
LEMMA ApplyStep ==
    ASSUME PageAssumption, PageInv, LogsPage!Apply
    PROVE  PageInv'
<1>1. PICK q \in LogsPage!Queries :
         /\ query' = q
         /\ \/ live /\ LogsPage!StartLive(q) /\ UNCHANGED <<search, error>>
            \/ ~live /\ LogsPage!Load(q) /\ UNCHANGED <<stream, before, overdue>>
  BY DEF LogsPage!Apply
<1>2. acts < MaxActs /\ acts' = acts + 1 /\ UNCHANGED <<hot, announced, segments, live, known>>
  BY DEF LogsPage!Apply, LogsPage!Act
<1>3. live \in BOOLEAN /\ (~live => stream = Null)
  BY DEF PageInv, PageTypes, ModeInv
<1>4. CASE live
  <2>1. live' = TRUE /\ LogsPage!StartLive(q) /\ UNCHANGED <<search, error>>
    BY <1>1, <1>2, <1>3, <1>4
  <2> QED
    BY <2>1, <1>1, <1>2, StartLiveStep
<1>5. CASE ~live
  <2>1. live' = FALSE /\ stream' = Null /\ LogsPage!Load(q) /\ UNCHANGED <<before, overdue>>
    BY <1>1, <1>2, <1>3, <1>5
  <2> QED
    BY <2>1, <1>1, <1>2, LoadStep
<1> QED
  BY <1>4, <1>5

\* To the stream, or back to the search.
LEMMA ToggleLiveStep ==
    ASSUME PageAssumption, PageInv, LogsPage!ToggleLive
    PROVE  PageInv'
<1>1. /\ live' = ~live
      /\ \/ ~live /\ LogsPage!StartLive(query) /\ UNCHANGED <<search, error>>
         \/ live /\ stream' = Null /\ LogsPage!Load(query) /\ UNCHANGED <<before, overdue>>
      /\ acts < MaxActs /\ acts' = acts + 1 /\ UNCHANGED <<hot, announced, segments, query, known>>
  BY DEF LogsPage!ToggleLive, LogsPage!Act
<1>2. live \in BOOLEAN /\ query \in LogsPage!Queries
  BY DEF PageInv, PageTypes
<1>3. PICK q \in LogsPage!Queries : q = query
  BY <1>2
<1>4. CASE ~live
  <2>1. live' = TRUE /\ LogsPage!StartLive(q) /\ UNCHANGED <<search, error>> /\ query' = q
    BY <1>1, <1>2, <1>3, <1>4
  <2> QED
    BY <2>1, <1>1, StartLiveStep
<1>5. CASE live
  <2>1. live' = FALSE /\ stream' = Null /\ LogsPage!Load(q) /\ UNCHANGED <<before, overdue>> /\ query' = q
    BY <1>1, <1>2, <1>3, <1>5
  <2> QED
    BY <2>1, <1>1, LoadStep
<1> QED
  BY <1>4, <1>5

\* The answer of the search is the list.
LEMMA AnswerStep ==
    ASSUME PageAssumption, PageInv, LogsPage!Answer
    PROVE  PageInv'
<1>1. /\ search # Null /\ search.page # Null /\ search' = Null /\ known' = search.stored
      /\ items' = search.page /\ hasNewer' = FALSE /\ more' = Null
      /\ UNCHANGED <<hot, announced, segments, query, live, stream, error, acts, before, overdue>>
  BY DEF LogsPage!Answer, LogsPage!Reset
<1>2. hasOlder' = (Len(search.page) >= PageSize)
  BY DEF LogsPage!Answer, LogsPage!Reset
<1>3. /\ LogsPage!Stored' = LogsPage!Stored /\ search \in Asked /\ Null \notin Asked
  BY <1>1, PageShapes DEF LogsPage!Stored, PageInv
<1>4. search.query \in LogsPage!Queries /\ search.page \in Seq(Logs) /\ search.stored \in SUBSET Logs
  BY <1>1, <1>3 DEF Asked
<1>5. search.stored \subseteq LogsPage!Stored /\ Begins(search.page, search.stored, Matching[search.query])
  BY <1>1 DEF PageInv, SearchInv
<1>6. hasOlder' \in BOOLEAN
  <2>1. Len(search.page) \in Nat /\ PageSize \in Nat
    BY <1>4 DEF PageAssumption
  <2> QED
    BY <2>1, <1>2
<1>7. PageTypes'
  BY <1>1, <1>4, <1>6 DEF PageInv, PageTypes
<1>8. ModeInv'
  BY <1>1 DEF PageInv, ModeInv
<1>9. StoredInv' /\ SearchInv'
  BY <1>1, <1>3, <1>5 DEF PageInv, StoredInv, SearchInv
<1>10. SettledInv'
  <2> SUFFICES ASSUME ~live, ~error
               PROVE  Window(search.page, search.stored, Matching[query], hasOlder', hasNewer')
    BY <1>1 DEF SettledInv, MoreInv
  <2>1. search.query = query
    BY <1>1 DEF PageInv, ModeInv
  <2>2. Window(search.page, search.stored, Matching[query], Len(search.page) >= PageSize, hasNewer')
    BY <1>5, <2>1 DEF Begins, Window
  <2> QED
    BY <2>2, <1>2
<1>11. LiveInv'
  BY <1>1 DEF PageInv, LiveInv
<1> QED
  BY <1>7, <1>8, <1>9, <1>10, <1>11 DEF PageInv

\* A search fails.
LEMMA FailStep ==
    ASSUME PageAssumption, PageInv, LogsPage!Fail
    PROVE  PageInv'
<1>1. /\ search # Null /\ search' = Null /\ error' = TRUE /\ acts < MaxActs /\ acts' = acts + 1
      /\ UNCHANGED <<hot, announced, segments, query, live, items, hasOlder, hasNewer, more, stream,
                     known, before, overdue>>
  BY DEF LogsPage!Fail, LogsPage!Act
<1>2. LogsPage!Stored' = LogsPage!Stored
  BY <1>1 DEF LogsPage!Stored
<1>3. PageTypes'
  <2>1. acts' \in 0 .. MaxActs
    BY <1>1 DEF PageInv, PageTypes, PageAssumption
  <2> QED
    BY <2>1, <1>1 DEF PageInv, PageTypes
<1>4. ModeInv' /\ StoredInv' /\ SearchInv'
  BY <1>1, <1>2 DEF PageInv, ModeInv, StoredInv, SearchInv
<1>5. SettledInv' /\ LiveInv'
  BY <1>1 DEF PageInv, SettledInv, LiveInv
<1> QED
  BY <1>3, <1>4, <1>5 DEF PageInv

\* A request of the list fails.
LEMMA FailMoreStep ==
    ASSUME PageAssumption, PageInv, LogsPage!FailMore
    PROVE  PageInv'
<1>1. /\ more # Null /\ more' = Null /\ acts < MaxActs /\ acts' = acts + 1
      /\ UNCHANGED <<hot, announced, segments, query, live, items, hasOlder, hasNewer, search, stream, error,
                     known, before, overdue>>
  BY DEF LogsPage!FailMore, LogsPage!Act
<1>2. LogsPage!Stored' = LogsPage!Stored
  BY <1>1 DEF LogsPage!Stored
<1>3. PageTypes'
  <2>1. acts' \in 0 .. MaxActs
    BY <1>1 DEF PageInv, PageTypes, PageAssumption
  <2> QED
    BY <2>1, <1>1 DEF PageInv, PageTypes
<1>4. ModeInv' /\ StoredInv' /\ SearchInv'
  BY <1>1, <1>2 DEF PageInv, ModeInv, StoredInv, SearchInv
<1>5. SettledInv'
  BY <1>1 DEF PageInv, SettledInv, MoreInv
<1>6. LiveInv'
  BY <1>1 DEF PageInv, ModeInv, LiveInv
<1> QED
  BY <1>3, <1>4, <1>5, <1>6 DEF PageInv

\* Logs in the reverse order.
LEMMA ReverseFacts ==
    ASSUME NEW M \in SUBSET Logs, NEW s \in Seq(Logs)
    PROVE  /\ LogsPage!Reverse(s) \in Seq(Logs) /\ LogsPage!ToSet(LogsPage!Reverse(s)) \subseteq LogsPage!ToSet(s)
           /\ Fresh(s, M) => Fresh(LogsPage!Reverse(s), M)
<1>1. Len(s) \in Nat /\ \A i \in 1 .. Len(s) : Len(s) - i + 1 \in 1 .. Len(s) /\ s[Len(s) - i + 1] \in Logs
  <2>1. \A i \in 1 .. Len(s) : Len(s) - i + 1 \in 1 .. Len(s)
    OBVIOUS
  <2> QED
    BY <2>1
<1>2. PICK q \in Seq(Logs) : q = LogsPage!Reverse(s) /\ Len(q) = Len(s) /\ \A i \in 1 .. Len(s) : q[i] = s[Len(s) - i + 1]
  <2> DEFINE p == [i \in 1 .. Len(s) |-> s[Len(s) - i + 1]]
  <2>1. p \in Seq(Logs) /\ Len(p) = Len(s) /\ \A i \in 1 .. Len(s) : p[i] = s[Len(s) - i + 1]
    BY <1>1
  <2>2. p = LogsPage!Reverse(s)
    BY DEF LogsPage!Reverse
  <2> QED
    BY <2>1, <2>2
<1>3. LogsPage!ToSet(q) \subseteq LogsPage!ToSet(s)
  <2>1. ASSUME NEW i \in 1 .. Len(q) PROVE q[i] \in LogsPage!ToSet(s)
    <3>1. PICK k \in 1 .. Len(s) : k = Len(s) - i + 1 /\ q[i] = s[k]
      BY <1>1, <1>2
    <3> QED
      BY <3>1, Members
  <2> QED
    BY <2>1, Members
<1>4. ASSUME Fresh(s, M) PROVE Fresh(q, M)
  <2>1. ASSUME NEW i \in 1 .. Len(q), NEW j \in 1 .. Len(q), i # j PROVE q[i] # q[j]
    <3>1. PICK k \in 1 .. Len(s) : k = Len(s) - i + 1 /\ q[i] = s[k]
      BY <1>1, <1>2
    <3>2. PICK l \in 1 .. Len(s) : l = Len(s) - j + 1 /\ q[j] = s[l]
      BY <1>1, <1>2
    <3>3. k # l
      BY <3>1, <3>2, <2>1, <1>1, <1>2
    <3> QED
      BY <3>1, <3>2, <3>3, <1>4 DEF Fresh
  <2> QED
    BY <2>1, <1>3, <1>4 DEF Fresh
<1> QED
  BY SMTT(90), <1>2, <1>3, <1>4

\* Where a log of a part is.
LEMMA PartPlace ==
    ASSUME NEW s \in Seq(Logs), NEW a \in 1 .. Len(s) + 1, NEW b \in Nat, a <= b + 1, b <= Len(s),
           NEW r \in LogsPage!ToSet(SubSeq(s, a, b))
    PROVE  \E i \in 1 .. Len(s) : a <= i /\ i <= b /\ s[i] = r
<1>1. /\ SubSeq(s, a, b) \in Seq(Logs) /\ Len(SubSeq(s, a, b)) = b - a + 1
      /\ \A i \in 1 .. b - a + 1 : SubSeq(s, a, b)[i] = s[a + i - 1]
  BY SubSeqFacts
<1>2. PICK q \in Seq(Logs) : q = SubSeq(s, a, b) /\ r \in LogsPage!ToSet(q)
  BY <1>1
<1>3. PICK k \in 1 .. Len(q) : q[k] = r
  <2>1. r \in LogsPage!ToSet(q)
    BY <1>2
  <2> HIDE <1>2
  <2> QED
    BY <2>1, Members
<1>4. k \in 1 .. b - a + 1 /\ s[a + k - 1] = r
  BY <1>1, <1>2, <1>3
<1>5. a + k - 1 \in 1 .. Len(s) /\ a <= a + k - 1 /\ a + k - 1 <= b
  BY <1>4
<1> QED
  BY <1>4, <1>5

\* A part of logs none of which is there twice.
LEMMA FreshPart ==
    ASSUME NEW M \in SUBSET Logs, NEW s \in Seq(Logs), NEW a \in 1 .. Len(s) + 1, NEW b \in Nat,
           a <= b + 1, b <= Len(s)
    PROVE  /\ SubSeq(s, a, b) \in Seq(Logs) /\ LogsPage!ToSet(SubSeq(s, a, b)) \subseteq LogsPage!ToSet(s)
           /\ Fresh(s, M) => Fresh(SubSeq(s, a, b), M)
<1>1. PICK q \in Seq(Logs) : /\ q = SubSeq(s, a, b) /\ Len(q) = b - a + 1
                             /\ \A i \in 1 .. b - a + 1 : q[i] = s[a + i - 1]
  <2>1. /\ SubSeq(s, a, b) \in Seq(Logs) /\ Len(SubSeq(s, a, b)) = b - a + 1
        /\ \A i \in 1 .. b - a + 1 : SubSeq(s, a, b)[i] = s[a + i - 1]
    BY SubSeqFacts
  <2> QED
    BY <2>1
<1>2. \A i \in 1 .. b - a + 1 : a + i - 1 \in 1 .. Len(s) /\ a + i - 1 \in a .. b
  OBVIOUS
<1>3. LogsPage!ToSet(q) \subseteq LogsPage!ToSet(s)
  BY <1>1, PartPlace, Members
<1>4. ASSUME Fresh(s, M) PROVE Fresh(q, M)
  <2>1. ASSUME NEW i \in 1 .. Len(q), NEW j \in 1 .. Len(q), i # j PROVE q[i] # q[j]
    <3>1. PICK k \in 1 .. Len(s) : k = a + i - 1 /\ q[i] = s[k]
      BY <1>1, <1>2
    <3>2. PICK l \in 1 .. Len(s) : l = a + j - 1 /\ q[j] = s[l]
      BY <1>1, <1>2
    <3>3. k # l
      BY <3>1, <3>2, <2>1, <1>1
    <3> QED
      BY <3>1, <3>2, <3>3, <1>4 DEF Fresh
  <2> QED
    BY <2>1, <1>3, <1>4 DEF Fresh
<1> QED
  BY <1>1, <1>3, <1>4

\* Two sequences that share no log.
LEMMA FreshJoin ==
    ASSUME NEW M \in SUBSET Logs, NEW s \in Seq(Logs), NEW p \in Seq(Logs), Fresh(s, M), Fresh(p, M),
           LogsPage!ToSet(s) \cap LogsPage!ToSet(p) = {}
    PROVE  Fresh(s \o p, M)
<1> DEFINE q == s \o p
           m == Len(s)
           n == Len(p)
<1>1. /\ q \in Seq(Logs) /\ Len(q) = m + n /\ m \in Nat /\ n \in Nat /\ LogsPage!ToSet(q) = LogsPage!ToSet(s) \cup LogsPage!ToSet(p)
      /\ \A i \in 1 .. m : q[i] = s[i]
      /\ \A i \in 1 .. n : q[m + i] = p[i]
      /\ \A i \in 1 .. m + n : i \in 1 .. m \/ (i > m /\ i - m \in 1 .. n)
  BY JoinFacts
<1>2. /\ \A i, j \in 1 .. m : i # j => s[i] # s[j]
      /\ \A i, j \in 1 .. n : i # j => p[i] # p[j]
  BY DEF Fresh
<1>3. \A i \in 1 .. m, j \in 1 .. n : s[i] # p[j]
  BY Members
<1> HIDE DEF q, m, n
<1>4. ASSUME NEW i \in 1 .. m + n, NEW j \in 1 .. m + n, i < j PROVE q[i] # q[j]
  <2>1. CASE i \in 1 .. m /\ j \in 1 .. m
    BY <2>1, <1>1, <1>2, <1>4
  <2>2. CASE i \in 1 .. m /\ j \notin 1 .. m
    <3>1. PICK k \in 1 .. n : k = j - m
      BY <2>2, <1>1
    <3>2. j = m + k
      BY <3>1, <1>1
    <3> QED
      BY <2>2, <3>2, <1>1, <1>3
  <2>3. CASE i \notin 1 .. m
    <3>1. PICK k \in 1 .. n, l \in 1 .. n : k = i - m /\ l = j - m /\ k # l
      BY <2>3, <1>1, <1>4
    <3>2. i = m + k /\ j = m + l
      BY <3>1, <1>1
    <3>3. p[k] # p[l] /\ q[m + k] = p[k] /\ q[m + l] = p[l]
      BY <3>1, <1>1, <1>2
    <3> QED
      BY <3>2, <3>3
  <2> QED
    BY <2>1, <2>2, <2>3
<1>5. \A i, j \in 1 .. Len(q) : i # j => q[i] # q[j]
  <2>1. \A i, j \in 1 .. m + n : i # j => i < j \/ j < i
    BY <1>1
  <2> QED
    BY <2>1, <1>1, <1>4
<1>6. Fresh(q, M)
  BY <1>1, <1>5 DEF Fresh
<1> QED
  BY <1>6 DEF q

\* The first of a sequence.
LEMMA UpToFacts ==
    ASSUME NEW M \in SUBSET Logs, NEW s \in Seq(Logs), NEW n \in Nat
    PROVE  /\ LogsPage!UpTo(n, s) \in Seq(Logs) /\ LogsPage!ToSet(LogsPage!UpTo(n, s)) \subseteq LogsPage!ToSet(s)
           /\ Fresh(s, M) => Fresh(LogsPage!UpTo(n, s), M)
<1>1. CASE Len(s) <= n
  BY <1>1 DEF LogsPage!UpTo
<1>2. CASE ~(Len(s) <= n)
  <2>1. PICK a \in 1 .. Len(s) + 1 : a = 1 /\ a <= n + 1 /\ n <= Len(s)
    BY <1>2
  <2>2. /\ SubSeq(s, a, n) \in Seq(Logs) /\ LogsPage!ToSet(SubSeq(s, a, n)) \subseteq LogsPage!ToSet(s)
        /\ Fresh(s, M) => Fresh(SubSeq(s, a, n), M)
    BY <2>1, FreshPart
  <2>3. LogsPage!UpTo(n, s) = SubSeq(s, a, n)
    BY <2>1, <1>2 DEF LogsPage!UpTo
  <2> QED
    BY <2>2, <2>3
<1> QED
  BY <1>1, <1>2

\* The first logs of the channel enter the list.
LEMMA MessageStep ==
    ASSUME PageAssumption, PageInv, LogsPage!Message
    PROVE  PageInv'
<1>1. /\ stream # Null
      /\ UNCHANGED <<hot, announced, segments, query, live, hasOlder, hasNewer, search, more, error, acts,
                     known, before, overdue>>
  BY DEF LogsPage!Message
<1>2. PICK n \in 1 .. BatchSize :
         /\ n <= Len(stream.channel)
         /\ items' = LogsPage!UpTo(MaxLive, LogsPage!Reverse(SubSeq(stream.channel, 1, n)) \o items)
         /\ stream' = [stream EXCEPT !.channel = SubSeq(stream.channel, n + 1, Len(stream.channel))]
  BY DEF LogsPage!Message
<1>3. LogsPage!Stored' = LogsPage!Stored /\ stream \in Streams /\ Null \notin Streams
  BY <1>1, PageShapes DEF LogsPage!Stored, PageInv
<1>4. PICK c \in Seq(Logs) : c = stream.channel
  BY <1>3 DEF Streams
<1>5. n \in Nat /\ 1 <= n /\ n <= Len(c) /\ MaxLive \in Nat /\ items \in Seq(Logs)
  BY <1>2, <1>4 DEF PageAssumption, PageInv, PageTypes
<1>6. PICK K \in SUBSET Logs : K = Come
  <2>1. Come \in SUBSET Logs
    BY PageShapes DEF PageInv, Come
  <2> QED
    BY <2>1
<1>7. PICK taken \in Seq(Logs) : /\ taken = SubSeq(c, 1, n) /\ LogsPage!ToSet(taken) \subseteq LogsPage!ToSet(c)
                                 /\ \A r \in LogsPage!ToSet(taken) : \E i \in 1 .. Len(c) : i <= n /\ c[i] = r
                                 /\ Fresh(c, K) => Fresh(taken, K)
  <2>1. PICK a \in 1 .. Len(c) + 1 : a = 1 /\ a <= n + 1
    BY <1>5
  <2>2. /\ SubSeq(c, a, n) \in Seq(Logs) /\ LogsPage!ToSet(SubSeq(c, a, n)) \subseteq LogsPage!ToSet(c)
        /\ Fresh(c, K) => Fresh(SubSeq(c, a, n), K)
    BY <2>1, <1>5, FreshPart
  <2>3. ASSUME NEW r \in LogsPage!ToSet(SubSeq(c, a, n)) PROVE \E i \in 1 .. Len(c) : a <= i /\ i <= n /\ c[i] = r
    BY <2>1, <1>5, PartPlace
  <2> QED
    BY <2>1, <2>2, <2>3
<1>8. PICK rest \in Seq(Logs) : /\ rest = SubSeq(c, n + 1, Len(c)) /\ LogsPage!ToSet(rest) \subseteq LogsPage!ToSet(c)
                                /\ \A r \in LogsPage!ToSet(rest) : \E i \in 1 .. Len(c) : i > n /\ c[i] = r
                                /\ Fresh(c, K) => Fresh(rest, K)
  <2>1. PICK a \in 1 .. Len(c) + 1, b \in Nat : a = n + 1 /\ b = Len(c) /\ a <= b + 1 /\ b <= Len(c)
    BY <1>5
  <2>2. /\ SubSeq(c, a, b) \in Seq(Logs) /\ LogsPage!ToSet(SubSeq(c, a, b)) \subseteq LogsPage!ToSet(c)
        /\ Fresh(c, K) => Fresh(SubSeq(c, a, b), K)
    BY <2>1, FreshPart
  <2>3. ASSUME NEW r \in LogsPage!ToSet(SubSeq(c, a, b)) PROVE \E i \in 1 .. Len(c) : a <= i /\ i <= b /\ c[i] = r
    BY <2>1, PartPlace
  <2>4. \A i \in 1 .. Len(c) : a <= i => i > n
    BY <2>1, <1>5
  <2> QED
    BY <2>1, <2>2, <2>4, <2>3
<1>9. PICK turned \in Seq(Logs) : /\ turned = LogsPage!Reverse(taken) /\ LogsPage!ToSet(turned) \subseteq LogsPage!ToSet(taken)
                                  /\ Fresh(taken, K) => Fresh(turned, K)
  BY ReverseFacts
<1>10. PICK next \in Seq(Logs) : next = turned \o items /\ LogsPage!ToSet(next) = LogsPage!ToSet(turned) \cup LogsPage!ToSet(items)
  <2>1. turned \o items \in Seq(Logs)
    BY <1>5
  <2>2. LogsPage!ToSet(turned \o items) = LogsPage!ToSet(turned) \cup LogsPage!ToSet(items)
    BY <1>5, JoinFacts
  <2> QED
    BY <2>1, <2>2
<1>11. items' = LogsPage!UpTo(MaxLive, next) /\ stream' = [stream EXCEPT !.channel = rest]
  BY <1>2, <1>4, <1>7, <1>8, <1>9, <1>10
<1>12. /\ items' \in Seq(Logs) /\ LogsPage!ToSet(items') \subseteq LogsPage!ToSet(next)
       /\ Fresh(next, K) => Fresh(items', K)
  BY <1>11, <1>5, UpToFacts
<1>13. stream' \in Streams /\ stream' # Null /\ stream'.query = stream.query /\ stream'.channel = rest
  BY <1>11, <1>3 DEF Streams
<1>14. PageTypes'
  BY <1>1, <1>12, <1>13 DEF PageInv, PageTypes
<1>15. ModeInv'
  BY <1>1, <1>13 DEF PageInv, ModeInv
<1>16. StoredInv' /\ SearchInv'
  BY <1>1, <1>3 DEF PageInv, StoredInv, SearchInv
<1>17. SettledInv'
  BY <1>1 DEF PageInv, ModeInv, SettledInv
<1>18. LiveInv'
  <2> SUFFICES ASSUME live, ~overdue
               PROVE  /\ search = Null /\ Fresh(items', K) /\ Fresh(rest, K)
                      /\ LogsPage!ToSet(items') \cap LogsPage!ToSet(rest) = {}
    BY SMTT(90), <1>1, <1>3, <1>13, <1>6 DEF LiveInv, Fresh, Come
  <2>1. /\ search = Null /\ Fresh(items, K) /\ Fresh(c, K)
        /\ LogsPage!ToSet(items) \cap LogsPage!ToSet(c) = {}
    BY <1>4, <1>6 DEF PageInv, LiveInv
  <2>2. Fresh(turned, K) /\ Fresh(rest, K) /\ LogsPage!ToSet(turned) \subseteq LogsPage!ToSet(c)
    BY <2>1, <1>7, <1>8, <1>9
  <2>3. Fresh(next, K)
    <3>1. LogsPage!ToSet(turned) \cap LogsPage!ToSet(items) = {}
      BY <2>1, <2>2
    <3> QED
      BY <3>1, <2>1, <2>2, <1>5, <1>10, FreshJoin
  <2>4. LogsPage!ToSet(turned) \cap LogsPage!ToSet(rest) = {}
    <3>1. SUFFICES ASSUME NEW r \in LogsPage!ToSet(taken), r \in LogsPage!ToSet(rest) PROVE FALSE
      BY <1>9
    <3>2. PICK i \in 1 .. Len(c) : i <= n /\ c[i] = r
      BY <3>1, <1>7
    <3>3. PICK j \in 1 .. Len(c) : j > n /\ c[j] = r
      BY <3>1, <1>8
    <3>4. i # j
      BY <3>2, <3>3, <1>5
    <3> QED
      BY <3>2, <3>3, <3>4, <2>1 DEF Fresh
  <2> QED
    BY <2>1, <2>2, <2>3, <2>4, <1>8, <1>10, <1>12
<1> QED
  BY <1>14, <1>15, <1>16, <1>17, <1>18 DEF PageInv

\* At first a search is under way.
LEMMA PageBegins ==
    ASSUME PageAssumption, LogsPage!Init
    PROVE  PageInv
<1>1. /\ hot = {} /\ segments = {} /\ announced = Null
      /\ query = FirstQuery /\ live = FALSE
      /\ items = << >> /\ hasOlder = FALSE /\ hasNewer = FALSE
      /\ search = [query |-> FirstQuery, page |-> Null, stored |-> {}] /\ more = Null /\ stream = Null
      /\ error = FALSE /\ acts = 0
      /\ known = {} /\ before = {} /\ overdue = FALSE
  BY DEF LogsPage!Init, LogsPage!Asking
<1>2. FirstQuery \in LogsPage!Queries /\ MaxActs \in Nat /\ Null \notin Asked
  BY DEF PageAssumption
<1>3. search \in Asked /\ search # Null /\ search.query = FirstQuery /\ search.page = Null /\ search.stored = {}
  BY <1>1, <1>2 DEF Asked
<1>4. << >> \in Seq(Logs) /\ 0 \in 0 .. MaxActs
  BY <1>2, NothingFacts
<1>5. PageTypes
  BY <1>1, <1>2, <1>3, <1>4 DEF PageTypes
<1>6. ModeInv /\ StoredInv /\ SearchInv
  BY <1>1, <1>3 DEF ModeInv, StoredInv, SearchInv
<1>7. SettledInv /\ LiveInv
  BY <1>1, <1>3 DEF SettledInv, LiveInv
<1> QED
  BY <1>5, <1>6, <1>7 DEF PageInv

\* Every step keeps what is said of the page.
LEMMA PageSteps ==
    ASSUME PageAssumption, PageInv, LogsPage!Next
    PROVE  PageInv'
<1>1. CASE \E r \in Logs : LogsPage!Store(r)
  BY <1>1, StoreLogStep
<1>2. CASE \E bottom, top \in BOOLEAN : LogsPage!Scroll(bottom, top)
  BY <1>2, ScrollStep
<1>3. CASE LogsPage!Publish \/ LogsPage!Flush \/ LogsPage!Serve \/ LogsPage!ServeMore \/ LogsPage!Open
  BY <1>3, PublishStep, FlushStep, ServeStep, ServeMoreStep, OpenStep
<1>4. CASE LogsPage!MoreAnswer \/ LogsPage!Apply \/ LogsPage!ToggleLive \/ LogsPage!Answer
  BY <1>4, MoreAnswerStep, ApplyStep, ToggleLiveStep, AnswerStep
<1>5. CASE LogsPage!Fail \/ LogsPage!FailMore \/ LogsPage!Message \/ LogsPage!Disconnect
  BY <1>5, FailStep, FailMoreStep, MessageStep, DisconnectStep
<1> QED
  BY <1>1, <1>2, <1>3, <1>4, <1>5 DEF LogsPage!Next

\* What is said of the page is enough.
LEMMA PageEnough ==
    ASSUME PageAssumption, PageInv
    PROVE  LogsPage!ListFollowsQuery
<1>1. ASSUME ~live, search = Null, ~error PROVE LogsPage!ToSet(items) \subseteq Matching[query] /\ LogsPage!InOrder /\ LogsPage!WindowIsWhole
  <2>1. Window(items, known, Matching[query], hasOlder, hasNewer)
    BY <1>1 DEF PageInv, SettledInv
  <2>2. LogsPage!InOrder
    BY <2>1 DEF Window, Ordered, LogsPage!InOrder
  <2>3. LogsPage!WindowIsWhole
    BY <2>1, ZenonT(90) DEF Window, LogsPage!WindowIsWhole
  <2> QED
    BY <2>1, <2>2, <2>3 DEF Window
<1>2. ASSUME live, ~overdue PROVE LogsPage!ToSet(items) \subseteq Matching[query] /\ LogsPage!LiveIsNew
  <2>1. Fresh(items, Come) /\ items \in Seq(Logs)
    BY <1>2 DEF PageInv, LiveInv, PageTypes
  <2>2. DOMAIN items = 1 .. Len(items)
    BY <2>1
  <2> QED
    BY SMTT(90), <2>1, <2>2 DEF Fresh, Come, LogsPage!LiveIsNew
<1> QED
  BY SMTT(90), <1>1, <1>2 DEF LogsPage!ListFollowsQuery

\* In every behaviour the page is as said.
LEMMA PageAlways ==
    ASSUME PageAssumption
    PROVE  Spec => [](part = "page" => PageInv)
<1>1. Init => (part = "page" => PageInv)
  BY PageBegins DEF Init
<1>2. (part = "page" => PageInv) /\ [Next]_partVars => (part = "page" => PageInv)'
  <2> SUFFICES ASSUME part = "page" => PageInv, [Next]_partVars, part' = "page"
               PROVE  PageInv'
    OBVIOUS
  <2>1. CASE partVars' = partVars
    <3>1. part' = part /\ pageVars' = pageVars
      BY <2>1 DEF partVars
    <3> QED
      BY <3>1 DEF pageVars, PageInv, PageTypes, ModeInv, StoredInv, SearchInv, SettledInv, MoreInv, LiveInv,
        Fresh, Come, LogsPage!Stored
  <2>2. CASE Next
    <3>1. part = "page" /\ LogsPage!Next
      BY <2>2 DEF Next, OthersStay
    <3>2. PageInv
      BY <3>1
    <3> QED
      BY SMTT(90), <3>1, <3>2, PageSteps
  <2> QED
    BY <2>1, <2>2
<1> QED
  BY <1>1, <1>2, PTL DEF Spec

\* windowed-list.ts:26 and logs.ts:129: whatever is stored, scrolled, asked and lost in between, the
\* list of a search is a window of what the query asks for, in order, none twice and none missing
\* that scrolling does not bring; the live list holds what came since the stream began, none twice.
THEOREM ListIsAWindow ==
    ASSUME PageAssumption
    PROVE  Spec => []ListFollowsQuery
<1>1. (part = "page" => PageInv) => ListFollowsQuery
  BY PageEnough DEF ListFollowsQuery
<1> QED
  BY <1>1, PageAlways, PTL

=============================================================================
