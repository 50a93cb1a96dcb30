--------------------------- MODULE RfsScanProofs ---------------------------
(***************************************************************************)
(* Theorems about RfsScan, for any directory, any seconds and any length   *)
(* of the array: what the sort and the indexing compute.                   *)
(***************************************************************************)
EXTENDS RfsScan, FiniteSetTheorems, TLAPS

\* The seconds of the k-th element of the array, counted from 1.
T(k) == timestamp[versions[k]]

\* The first m elements stand where they belong.
OrderedTo(m) ==
  \A k, l \in 1 .. version_count : k < l /\ k <= m => T(k) >= T(l)

\* Element i is the newest of those it has been compared with.
NewestSoFar == \A l \in 1 .. version_count : i + 1 < l /\ l <= j => T(i + 1) >= T(l)

\* Reading: what matches is in the array or still to come.
ReadInv ==
  /\ \A k \in 1 .. version_count : versions[k] \notin unread
  /\ pc = "readdir" => matching \subseteq Listed \cup unread
  /\ pc # "readdir" => matching \subseteq Listed \/ version_count >= Limit

\* Sorting, as each loop finds it and leaves it.
SortInv ==
  /\ pc = "outer" => OrderedTo(i)
  /\ pc = "inner" => OrderedTo(i) /\ NewestSoFar
  /\ pc \in {"sorted", "display", "resolved", "displayed"} => OrderedTo(version_count)

\* Indexing and displaying.
IndexInv ==
  /\ pc = "resolved" => result = IF Index(number) \in 0 .. version_count - 1
                                 THEN versions[Index(number) + 1] ELSE None
  /\ pc \in {"readdir", "outer", "inner", "sorted"} => shown = {}
  /\ pc = "sorted" => i = 0
  /\ pc \in {"display", "displayed"} =>
       /\ i <= version_count
       /\ pc = "displayed" => i = version_count
       /\ shown = {<<version_count - k, versions[k + 1]>> : k \in 0 .. i - 1}

ScanInv == TypeOK /\ ReadInv /\ SortInv /\ IndexInv

-----------------------------------------------------------------------------
(* The invariant *)

\* The scan starts with an empty array.
LEMMA InitScanInv == Init => ScanInv
  BY ScanAssumption
  DEF Init, ScanInv, TypeOK, ReadInv, SortInv, IndexInv, Listed, version_count, OrderedTo,
      NewestSoFar, T, Seconds

\* What an entry that readdir returns does to the array.
LEMMA ReadDirectoryInv == ScanInv /\ ReadDirectory => ScanInv'
<1> SUFFICES ASSUME ScanInv, ReadDirectory PROVE ScanInv'
  OBVIOUS
<1> PICK e \in unread :
      /\ unread' = unread \ {e}
      /\ versions' = IF e \in matching THEN Append(versions, e) ELSE versions
  BY DEF ReadDirectory
<1> USE DEF ScanInv, TypeOK, ReadInv
<1>1. /\ pc = "readdir" /\ pc' = "readdir"
      /\ UNCHANGED <<matching, timestamp, i, j, number, result, shown>>
      /\ version_count < Limit
  BY ScanAssumption DEF ReadDirectory, Full, version_count
<1>2. /\ versions' \in Seq(matching)
      /\ version_count' <= Limit
      /\ \A k \in 1 .. version_count' : versions'[k] \notin unread'
      /\ \A k, l \in 1 .. version_count' : versions'[k] = versions'[l] => k = l
  BY <1>1, ScanAssumption DEF version_count
<1>3. matching' \subseteq Listed' \cup unread'
  <2> SUFFICES ASSUME NEW f \in matching, f \notin unread' PROVE f \in Listed'
    BY <1>1
  <2>1. CASE f = e
    <3>1. versions' = Append(versions, e) /\ version_count' = version_count + 1
      BY <2>1 DEF version_count
    <3>2. versions'[version_count'] = e /\ version_count' \in 1 .. version_count'
      BY <3>1, <1>1 DEF version_count
    <3> QED
      BY <3>2, <2>1 DEF Listed
  <2>2. CASE f # e
    <3>1. PICK k \in 1 .. version_count : f = versions[k]
      BY <1>1, <2>2 DEF Listed
    <3>2. k \in 1 .. version_count' /\ versions'[k] = f
      BY <3>1 DEF version_count
    <3> QED
      BY <3>2 DEF Listed
  <2> QED
    BY <2>1, <2>2
<1> QED
  BY <1>1, <1>2, <1>3 DEF SortInv, IndexInv

\* The end of the scan.
LEMMA ScanEndsInv == ScanInv /\ ScanEnds => ScanInv'
  BY SMTT(30), ScanAssumption
  DEF ScanInv, TypeOK, ReadInv, SortInv, IndexInv, ScanEnds, scanVars, Full, Listed,
      version_count, OrderedTo, NewestSoFar, T, Seconds

\* An element of the array, and its seconds.
LEMMA Elements ==
  TypeOK => \A k \in 1 .. version_count : versions[k] \in matching /\ T(k) \in Int
  BY ScanAssumption DEF TypeOK, version_count, T, Seconds

\* When the outer loop ends, all stands where it belongs.
LEMMA OuterLoopInv == ScanInv /\ OuterLoop => ScanInv'
<1> SUFFICES ASSUME ScanInv, OuterLoop PROVE ScanInv'
  OBVIOUS
<1> USE DEF ScanInv, TypeOK
<1>1. /\ pc = "outer"
      /\ UNCHANGED <<matching, timestamp, unread, versions, number, result, shown>>
      /\ version_count' = version_count /\ Listed' = Listed /\ version_count \in Nat
  BY DEF OuterLoop, scanVars, version_count, Listed
<1>2. OrderedTo(i) /\ shown = {}
  BY <1>1 DEF SortInv, IndexInv
<1>3. CASE i < version_count - 1
  <2>1. j' = i + 1 /\ pc' = "inner" /\ i' = i
    BY <1>3 DEF OuterLoop
  <2>2. NewestSoFar'
    BY <2>1, <1>1 DEF NewestSoFar
  <2>3. OrderedTo(i)'
    BY <1>1, <1>2, <2>1 DEF OrderedTo, T
  <2> QED
    BY <1>1, <1>2, <1>3, <2>1, <2>2, <2>3 DEF ReadInv, SortInv, IndexInv
<1>4. CASE ~(i < version_count - 1)
  <2>1. i' = 0 /\ pc' = "sorted" /\ j' = j
    BY <1>4 DEF OuterLoop
  <2>2. OrderedTo(version_count)'
    BY <1>1, <1>2, <1>4 DEF OrderedTo, T
  <2> QED
    BY <1>1, <1>2, <2>1, <2>2 DEF ReadInv, SortInv, IndexInv
<1> QED
  BY <1>3, <1>4

\* Exchanging element i + 1 with a later one: the elements before them keep their
\* place, and the larger of the two comes to stand first.
LEMMA ExchangeKeeps ==
  ASSUME ScanInv, pc = "inner", ~InnerEnds
  PROVE  /\ Exchange \in Seq(matching) /\ Len(Exchange) = version_count
         /\ {Exchange[k] : k \in 1 .. version_count} = Listed
         /\ \A k, l \in 1 .. version_count : Exchange[k] = Exchange[l] => k = l
         /\ \A k, l \in 1 .. version_count :
              k < l /\ (k <= i \/ (k = i + 1 /\ l <= j + 1)) =>
                timestamp[Exchange[k]] >= timestamp[Exchange[l]]
<1> DEFINE p == i + 1
           q == j + 1
<1>1. /\ i \in Nat /\ version_count \in Nat /\ p \in 1 .. version_count /\ q \in 1 .. version_count
      /\ p < q /\ versions \in [1 .. version_count -> matching]
      /\ Len(versions) = version_count
  BY DEF ScanInv, TypeOK, InnerEnds, version_count
<1>2. \A k \in 1 .. version_count : T(k) \in Int
  BY Elements DEF ScanInv
<1>3. /\ \A k, l \in 1 .. version_count : k < l /\ k <= i => T(k) >= T(l)
      /\ \A l \in 1 .. version_count : p < l /\ l < q => T(p) >= T(l)
  BY <1>1 DEF ScanInv, TypeOK, SortInv, OrderedTo, NewestSoFar
<1>4. At(i) = T(p) /\ At(j) = T(q)
  BY DEF At, T
<1>5. CASE T(q) > T(p)
  <2>1. /\ Exchange \in Seq(matching) /\ Len(Exchange) = version_count
        /\ Exchange = [versions EXCEPT ![p] = versions[q], ![q] = versions[p]]
    BY <1>1, <1>4, <1>5 DEF Exchange, Exchanged, ScanInv, TypeOK
  <2>2. \A k \in 1 .. version_count :
          Exchange[k] = versions[IF k = p THEN q ELSE IF k = q THEN p ELSE k]
    BY <2>1, <1>1
  <2>3. {Exchange[k] : k \in 1 .. version_count} = Listed
    <3>1. ASSUME NEW k \in 1 .. version_count PROVE Exchange[k] \in Listed
      BY <2>2, <1>1 DEF Listed
    <3>2. ASSUME NEW k \in 1 .. version_count
          PROVE  \E l \in 1 .. version_count : Exchange[l] = versions[k]
      <4> DEFINE l == IF k = p THEN q ELSE IF k = q THEN p ELSE k
      <4>1. l \in 1 .. version_count /\ Exchange[l] = versions[k]
        BY <2>2, <1>1
      <4> QED
        BY <4>1
    <3> QED
      BY <3>1, <3>2 DEF Listed
  <2>4. \A k, l \in 1 .. version_count : Exchange[k] = Exchange[l] => k = l
    BY <2>2, <1>1 DEF ScanInv, TypeOK
  <2>5. ASSUME NEW k \in 1 .. version_count, NEW l \in 1 .. version_count, k < l,
               k <= i \/ (k = p /\ l <= q)
        PROVE  timestamp[Exchange[k]] >= timestamp[Exchange[l]]
    <3>1. timestamp[Exchange[k]] = T(IF k = p THEN q ELSE IF k = q THEN p ELSE k)
      BY <2>2 DEF T
    <3>2. timestamp[Exchange[l]] = T(IF l = p THEN q ELSE IF l = q THEN p ELSE l)
      BY <2>2 DEF T
    <3>3. CASE k <= i
      <4> DEFINE b == IF l = p THEN q ELSE IF l = q THEN p ELSE l
      <4>1. k # p /\ k # q /\ b \in 1 .. version_count /\ k < b
        BY <3>3, <2>5, <1>1
      <4>2. T(k) >= T(b)
        BY <4>1, <3>3, <1>3
      <4> HIDE DEF b
      <4> QED
        BY <3>1, <3>2, <4>1, <4>2 DEF b
    <3>4. CASE k = p /\ l <= q
      BY <3>1, <3>2, <3>4, <2>5, <1>1, <1>2, <1>3, <1>5
    <3> QED
      BY <2>5, <3>3, <3>4
  <2> QED
    BY <2>1, <2>3, <2>4, <2>5
<1>6. CASE ~(T(q) > T(p))
  <2>1. Exchange = versions
    BY <1>4, <1>6 DEF Exchange
  <2>2. ASSUME NEW k \in 1 .. version_count, NEW l \in 1 .. version_count, k < l,
               k <= i \/ (k = p /\ l <= q)
        PROVE  T(k) >= T(l)
    BY <2>2, <1>1, <1>2, <1>3, <1>6 DEF ScanInv, TypeOK
  <2> QED
    BY <2>1, <2>2, <1>1 DEF ScanInv, TypeOK, T, Listed
<1> QED
  BY <1>5, <1>6

\* One turn of the inner loop.
LEMMA InnerLoopInv == ScanInv /\ InnerLoop => ScanInv'
<1> SUFFICES ASSUME ScanInv, InnerLoop PROVE ScanInv'
  OBVIOUS
<1>1. /\ pc = "inner"
      /\ UNCHANGED <<matching, timestamp, unread, number, result, shown>>
      /\ version_count \in Nat /\ i \in Nat /\ j \in Nat /\ i < j /\ j <= version_count
      /\ OrderedTo(i) /\ NewestSoFar /\ shown = {}
  BY DEF InnerLoop, scanVars, version_count, ScanInv, TypeOK, SortInv, IndexInv
<1>2. CASE InnerEnds
  <2>1. i' = i + 1 /\ pc' = "outer" /\ UNCHANGED <<versions, j>>
    BY <1>2 DEF InnerLoop
  <2>2. version_count' = version_count /\ Listed' = Listed
    BY <2>1 DEF version_count, Listed
  <2>3. OrderedTo(i)'
    BY <1>1, <1>2, <2>1, <2>2 DEF OrderedTo, NewestSoFar, T, InnerEnds
  <2> QED
    BY <1>1, <2>1, <2>2, <2>3 DEF ScanInv, TypeOK, ReadInv, SortInv, IndexInv
<1>3. CASE ~InnerEnds
  <2>1. versions' = Exchange /\ j' = j + 1 /\ UNCHANGED <<i, pc>>
    BY <1>3 DEF InnerLoop
  <2>2. /\ Exchange \in Seq(matching) /\ Len(Exchange) = version_count
        /\ {Exchange[k] : k \in 1 .. version_count} = Listed
        /\ \A k, l \in 1 .. version_count : Exchange[k] = Exchange[l] => k = l
    BY <1>1, <1>3, ExchangeKeeps
  <2>3. \A k, l \in 1 .. version_count :
          k < l /\ (k <= i \/ (k = i + 1 /\ l <= j + 1)) =>
            timestamp[Exchange[k]] >= timestamp[Exchange[l]]
    BY <1>1, <1>3, ExchangeKeeps
  <2>4. version_count' = version_count /\ Listed' = Listed
    BY <2>1, <2>2 DEF version_count, Listed
  <2>5. TypeOK'
    BY <1>1, <1>3, <2>1, <2>2, <2>4 DEF ScanInv, TypeOK, InnerEnds
  <2>6. ReadInv'
    <3>1. \A k \in 1 .. version_count : Exchange[k] \in Listed
      BY <2>2
    <3>2. \A e \in Listed : e \notin unread
      BY DEF ScanInv, ReadInv, Listed
    <3> QED
      BY <1>1, <2>1, <2>4, <3>1, <3>2 DEF ScanInv, ReadInv
  <2>7. OrderedTo(i)' /\ NewestSoFar'
    BY <1>1, <2>1, <2>3, <2>4 DEF OrderedTo, NewestSoFar, T
  <2> QED
    BY <1>1, <2>1, <2>5, <2>6, <2>7 DEF ScanInv, SortInv, IndexInv
<1> QED
  BY <1>2, <1>3

\* The index belonging to a number.
LEMMA ResolveInv == ScanInv /\ Resolve => ScanInv'
<1> SUFFICES ASSUME ScanInv, Resolve PROVE ScanInv'
  OBVIOUS
<1> PICK n \in Numbers :
      /\ number' = n
      /\ result' = IF Index(n) \in 0 .. version_count - 1
                   THEN versions[Index(n) + 1] ELSE None
  BY DEF Resolve
<1>1. /\ pc = "sorted" /\ pc' = "resolved"
      /\ UNCHANGED <<matching, timestamp, unread, versions, i, j, shown>>
      /\ version_count' = version_count /\ Listed' = Listed
  BY DEF Resolve, scanVars, version_count, Listed
<1>2. n \in Int /\ version_count \in Nat
  BY ScanAssumption DEF ScanInv, TypeOK, version_count
<1>3. result' \in matching \cup {None}
  BY <1>2, Elements DEF ScanInv, Index
<1>4. TypeOK'
  BY <1>1, <1>2, <1>3 DEF ScanInv, TypeOK
<1>5. IndexInv'
  BY <1>1 DEF IndexInv, Index
<1> QED
  BY <1>1, <1>4, <1>5 DEF ScanInv, ReadInv, SortInv, OrderedTo, T

\* One line of the display, or its end.
LEMMA DisplayInv == ScanInv /\ Display => ScanInv'
<1> SUFFICES ASSUME ScanInv, Display PROVE ScanInv'
  OBVIOUS
<1>1. /\ pc \in {"sorted", "display"}
      /\ UNCHANGED <<matching, timestamp, unread, versions, j, number, result>>
      /\ version_count' = version_count /\ Listed' = Listed
      /\ version_count \in Nat /\ i \in Nat /\ i <= version_count
      /\ OrderedTo(version_count)
  BY DEF Display, scanVars, version_count, Listed, ScanInv, TypeOK, SortInv, IndexInv
<1>2. shown = {<<version_count - k, versions[k + 1]>> : k \in 0 .. i - 1}
  BY <1>1 DEF ScanInv, IndexInv
<1>3. OrderedTo(version_count)'
  BY <1>1 DEF OrderedTo, T
<1>4. CASE i < version_count
  <2>1. /\ shown' = shown \cup {<<version_count - i, versions[i + 1]>>}
        /\ i' = i + 1 /\ pc' = "display"
    BY <1>4 DEF Display
  <2>2. 0 .. i' - 1 = (0 .. i - 1) \cup {i}
    BY <1>1, <2>1
  <2>3. shown' = {<<version_count - k, versions[k + 1]>> : k \in 0 .. i' - 1}
    BY <1>2, <2>1, <2>2
  <2>4. versions[i + 1] \in matching /\ version_count - i \in Int
    BY <1>1, <1>4, Elements DEF ScanInv
  <2>5. shown' \subseteq Int \X matching
    BY <2>1, <2>4 DEF ScanInv, TypeOK
  <2> QED
    BY <1>1, <1>3, <1>4, <2>1, <2>3, <2>5 DEF ScanInv, TypeOK, ReadInv, SortInv, IndexInv
<1>5. CASE ~(i < version_count)
  <2>1. pc' = "displayed" /\ i' = i /\ shown' = shown
    BY <1>5 DEF Display
  <2> QED
    BY <1>1, <1>2, <1>3, <1>5, <2>1 DEF ScanInv, TypeOK, ReadInv, SortInv, IndexInv
<1> QED
  BY <1>4, <1>5

\* ScanInv is inductive.
LEMMA NextScanInv == ScanInv /\ [Next]_vars => ScanInv'
<1> SUFFICES ASSUME ScanInv, [Next]_vars PROVE ScanInv'
  OBVIOUS
<1>1. CASE UNCHANGED vars
  BY <1>1
  DEF vars, scanVars, ScanInv, TypeOK, ReadInv, SortInv, IndexInv, OrderedTo, NewestSoFar, T,
      Listed, version_count, Index
<1> QED
  BY <1>1, ReadDirectoryInv, ScanEndsInv, OuterLoopInv, InnerLoopInv, ResolveInv, DisplayInv
  DEF Next, Step

\* The invariant the theorems rest on.
LEMMA ScanInvariant == Spec => []ScanInv
  BY InitScanInv, NextScanInv, PTL DEF Spec

-----------------------------------------------------------------------------
(* Counting *)

\* The entries among the elements a to b of the array.
Slice(a, b) == {versions[k] : k \in a .. b}

\* The elements a to b of the array are b - a + 1 entries.
LEMMA CountSlice ==
  ASSUME TypeOK, NEW a \in Int, NEW b \in Int, 1 <= a, a <= b + 1, b <= version_count
  PROVE  IsFiniteSet(Slice(a, b)) /\ Cardinality(Slice(a, b)) = b - a + 1
<1> DEFINE f == [k \in a .. b |-> versions[k]]
           S == Slice(a, b)
<1>1. version_count \in Nat /\ a .. b \subseteq 1 .. version_count
  BY DEF TypeOK, version_count
<1>2. IsFiniteSet(a .. b) /\ Cardinality(a .. b) = b - a + 1
  <2>1. IsFiniteSet(a .. b) /\ Cardinality(a .. b) = IF a > b THEN 0 ELSE b - a + 1
    BY FS_Interval, Zenon
  <2> QED
    BY <2>1
<1>3. f \in Surjection(a .. b, S)
  BY DEF Surjection, Slice
<1>4. f \in Injection(a .. b, S)
  BY <1>1, <1>3 DEF Injection, IsInjective, Surjection, TypeOK
<1> HIDE DEF f, S
<1>5. IsFiniteSet(S) /\ Cardinality(S) = Cardinality(a .. b)
  BY <1>2, <1>3, <1>4, FS_Surjection
<1> QED
  BY <1>2, <1>5 DEF S

\* The array holds as many entries as it has elements.
LEMMA CountListed ==
  ASSUME TypeOK
  PROVE  IsFiniteSet(Listed) /\ Cardinality(Listed) = version_count /\ version_count \in Nat
<1>1. version_count \in Nat
  BY DEF TypeOK, version_count
<1>2. Listed = Slice(1, version_count)
  BY DEF Listed, Slice
<1>3. 1 \in Int /\ version_count \in Int /\ 1 <= version_count + 1
  BY <1>1
<1>4. /\ IsFiniteSet(Slice(1, version_count))
      /\ Cardinality(Slice(1, version_count)) = version_count - 1 + 1
  BY <1>1, <1>3, CountSlice
<1> QED
  BY <1>1, <1>2, <1>4

\* Fewer entries are newer than element k of a sorted array than stand before it,
\* and those up to it are not older.
LEMMA SortedAtIndex ==
  ASSUME TypeOK, OrderedTo(version_count), NEW k \in 0 .. version_count - 1
  PROVE  AtIndex(Listed, versions[k + 1], k)
<1> DEFINE e == versions[k + 1]
           newer == {f \in Listed : timestamp[f] > timestamp[e]}
           notOlder == {f \in Listed : timestamp[f] >= timestamp[e]}
<1>1. version_count \in Nat /\ \A l \in 1 .. version_count : T(l) \in Int
  BY Elements DEF TypeOK, version_count
<1>2. /\ IsFiniteSet(Listed)
      /\ IsFiniteSet(Slice(1, k)) /\ Cardinality(Slice(1, k)) = k
      /\ Cardinality(Slice(1, k + 1)) = k + 1
  <2>1. /\ IsFiniteSet(Slice(1, k)) /\ Cardinality(Slice(1, k)) = k - 1 + 1
        /\ Cardinality(Slice(1, k + 1)) = k + 1 - 1 + 1
    BY <1>1, CountSlice
  <2> QED
    BY <1>1, <2>1, CountListed
<1>3. newer \subseteq Slice(1, k)
  <2> SUFFICES ASSUME NEW l \in 1 .. version_count, T(l) > T(k + 1)
               PROVE  l \in 1 .. k
    BY DEF Listed, T, Slice
  <2> QED
    BY <1>1 DEF OrderedTo
<1>4. Slice(1, k + 1) \subseteq notOlder
  <2> SUFFICES ASSUME NEW l \in 1 .. k + 1
               PROVE  l \in 1 .. version_count /\ T(l) >= T(k + 1)
    BY DEF Listed, T, Slice
  <2> QED
    BY <1>1 DEF OrderedTo
<1>5. IsFiniteSet(notOlder) /\ IsFiniteSet(newer)
  BY <1>2, FS_Subset
<1> HIDE DEF newer, notOlder
<1>6. Cardinality(newer) \in Nat /\ Cardinality(newer) <= k
  BY <1>2, <1>3, <1>5, FS_Subset, FS_CardinalityType
<1>7. Cardinality(notOlder) \in Nat /\ k + 1 <= Cardinality(notOlder)
  BY <1>2, <1>4, <1>5, FS_Subset, FS_CardinalityType
<1> QED
  BY <1>6, <1>7 DEF AtIndex, newer, notOlder

-----------------------------------------------------------------------------
(* The theorems *)

\* The array never overflows and holds no entry twice; the indices of the sort stay
\* within it.
THEOREM ScanTypeCorrect == Spec => []TypeOK
  BY ScanInvariant, PTL DEF ScanInv

\* The array is complete, unless there are more versions than it can hold.
LEMMA ScanInvComplete == ScanInv => ArrayComplete
<1> SUFFICES ASSUME ScanInv, pc # "readdir"
             PROVE  /\ Listed \subseteq matching
                    /\ Cardinality(matching) <= Limit => Listed = matching
  BY DEF ArrayComplete
<1>1. Listed \subseteq matching
  BY Elements DEF ScanInv, Listed
<1>2. IsFiniteSet(matching)
  BY ScanAssumption, FS_Subset DEF ScanInv, TypeOK
<1>3. ASSUME Cardinality(matching) <= Limit PROVE Listed = matching
  <2>1. CASE matching \subseteq Listed
    BY <1>1, <2>1
  <2>2. CASE version_count >= Limit
    <3>1. IsFiniteSet(Listed) /\ Cardinality(Listed) = version_count
      BY CountListed DEF ScanInv
    <3>2. Cardinality(Listed) <= Cardinality(matching)
      BY <1>1, <1>2, FS_Subset
    <3>3. Cardinality(matching) \in Nat /\ Cardinality(Listed) \in Nat
      BY <1>2, <3>1, FS_CardinalityType
    <3>4. Cardinality(matching) = Cardinality(Listed)
      BY ScanAssumption, <1>3, <2>2, <3>1, <3>2, <3>3
    <3> QED
      BY <1>1, <1>2, <3>4, FS_Subset
  <2> QED
    BY <2>1, <2>2 DEF ScanInv, ReadInv
<1> QED
  BY <1>1, <1>3

\* Whatever order readdir returns, sorting keeps all the versions.
THEOREM ArrayIsComplete == Spec => []ArrayComplete
  BY ScanInvariant, ScanInvComplete, PTL

\* Sorted, the array has at each index an entry that may stand there.
LEMMA ScanInvResolves == ScanInv => ResolvesAtIndex
<1> SUFFICES ASSUME ScanInv, pc = "resolved"
             PROVE  IF number \in 1 .. version_count
                    THEN result # None /\ AtIndex(Listed, result, version_count - number)
                    ELSE result = None
  BY DEF ResolvesAtIndex
<1>1. version_count \in Nat /\ number \in Int
  BY DEF ScanInv, TypeOK, version_count
<1>2. result = IF Index(number) \in 0 .. version_count - 1
               THEN versions[Index(number) + 1] ELSE None
  BY DEF ScanInv, IndexInv
<1>3. OrderedTo(version_count)
  BY DEF ScanInv, SortInv
<1>4. CASE number \in 1 .. version_count
  <2>1. Index(number) \in 0 .. version_count - 1 /\ Index(number) = version_count - number
    BY <1>1, <1>4 DEF Index
  <2>2. result = versions[Index(number) + 1]
    BY <1>2, <2>1
  <2>3. result \in matching
    BY <1>1, <2>1, <2>2, Elements DEF ScanInv
  <2>4. result # None
    BY <2>3, ScanAssumption DEF ScanInv, TypeOK
  <2>5. AtIndex(Listed, result, Index(number))
    BY <1>3, <2>1, <2>2, SortedAtIndex DEF ScanInv
  <2> QED
    BY <1>4, <2>1, <2>4, <2>5
<1>5. CASE number \notin 1 .. version_count
  BY <1>1, <1>2, <1>5 DEF Index
<1> QED
  BY <1>4, <1>5

\* The version resolved is one RfsStore allows for the number.
THEOREM ResolutionIsAtIndex == Spec => []ResolvesAtIndex
  BY ScanInvariant, ScanInvResolves, PTL

\* Counting the entries that are not newer than the one resolved.
LEMMA ScanInvAge == ScanInv => NumberIsAge
<1> SUFFICES ASSUME ScanInv, pc = "resolved", number \in 1 .. Cardinality(matching),
                    Cardinality(matching) <= Limit,
                    \A e, f \in matching : timestamp[e] = timestamp[f] => e = f
             PROVE  Cardinality({e \in matching : timestamp[e] <= timestamp[result]}) = number
  BY DEF NumberIsAge
<1>1. version_count \in Nat /\ \A k \in 1 .. version_count : T(k) \in Int
  BY Elements DEF ScanInv, TypeOK, version_count
<1>2. Listed = matching /\ Cardinality(matching) = version_count
  BY ScanInvComplete, CountListed DEF ScanInv, ArrayComplete
<1> DEFINE p == version_count - number + 1
<1>3. p \in 1 .. version_count /\ number \in Int
  BY <1>1, <1>2
<1>4. result = versions[p]
  <2>1. Index(number) \in 0 .. version_count - 1 /\ Index(number) + 1 = p
    BY <1>1, <1>2, <1>3 DEF Index
  <2> QED
    BY <2>1 DEF ScanInv, IndexInv
<1>5. \A k, l \in 1 .. version_count : k < l => T(k) > T(l)
  <2> SUFFICES ASSUME NEW k \in 1 .. version_count, NEW l \in 1 .. version_count, k < l
               PROVE  T(k) > T(l)
    OBVIOUS
  <2>1. T(k) >= T(l)
    BY <1>1 DEF ScanInv, SortInv, OrderedTo
  <2>2. versions[k] # versions[l]
    BY DEF ScanInv, TypeOK
  <2>3. versions[k] \in matching /\ versions[l] \in matching
    BY Elements DEF ScanInv
  <2>4. T(k) # T(l)
    BY <2>2, <2>3 DEF T
  <2> QED
    BY <1>1, <2>1, <2>4
<1>6. {e \in matching : timestamp[e] <= timestamp[result]}
        = Slice(p, version_count)
  <2>1. {e \in matching : timestamp[e] <= timestamp[result]}
          = {versions[k] : k \in {l \in 1 .. version_count : T(l) <= T(p)}}
    BY <1>2, <1>4 DEF Listed, T
  <2>2. {l \in 1 .. version_count : T(l) <= T(p)} = p .. version_count
    BY <1>1, <1>3, <1>5
  <2> QED
    BY <2>1, <2>2 DEF Slice
<1>7. Cardinality(Slice(p, version_count)) = version_count - p + 1
  BY <1>1, <1>3, CountSlice DEF ScanInv
<1>8. version_count - p + 1 = number
  BY <1>1, <1>3
<1> QED
  BY <1>6, <1>7, <1>8

\* Number k is the k-th oldest version.
THEOREM NumbersAreAges == Spec => []NumberIsAge
  BY ScanInvariant, ScanInvAge, PTL

\* Line k of the display is element k of the array under the number of index k.
LEMMA ScanInvDisplay == ScanInv => DisplayMatchesResolve
<1> SUFFICES ASSUME ScanInv, pc = "displayed"
             PROVE  /\ {line[1] : line \in shown} = 1 .. version_count
                    /\ {line[2] : line \in shown} = Listed
                    /\ \A line \in shown : AtIndex(Listed, line[2], Index(line[1]))
  BY DEF DisplayMatchesResolve
<1> DEFINE Line(k) == <<version_count - k, versions[k + 1]>>
<1>1. version_count \in Nat
  BY DEF ScanInv, TypeOK, version_count
<1>2. shown = {Line(k) : k \in 0 .. version_count - 1}
  BY DEF ScanInv, IndexInv
<1>3. /\ {line[1] : line \in shown} = {version_count - k : k \in 0 .. version_count - 1}
      /\ {line[2] : line \in shown} = {versions[k + 1] : k \in 0 .. version_count - 1}
  <2>1. \A k : Line(k)[1] = version_count - k /\ Line(k)[2] = versions[k + 1]
    OBVIOUS
  <2> HIDE DEF Line
  <2> QED
    BY <1>2, <2>1, Zenon
<1>4. {version_count - k : k \in 0 .. version_count - 1} = 1 .. version_count
  <2>1. ASSUME NEW n \in 1 .. version_count
        PROVE  \E k \in 0 .. version_count - 1 : n = version_count - k
    <3>1. version_count - n \in 0 .. version_count - 1 /\ n = version_count - (version_count - n)
      BY <1>1
    <3> QED
      BY <3>1
  <2> QED
    BY <1>1, <2>1
<1>5. {line[2] : line \in shown} = Listed
  <2>1. ASSUME NEW l \in 1 .. version_count
        PROVE  \E k \in 0 .. version_count - 1 : versions[l] = versions[k + 1]
    <3>1. l - 1 \in 0 .. version_count - 1 /\ l = (l - 1) + 1
      BY <1>1
    <3> QED
      BY <3>1
  <2>2. \A k \in 0 .. version_count - 1 : k + 1 \in 1 .. version_count
    BY <1>1
  <2> QED
    BY <1>3, <2>1, <2>2 DEF Listed
<1>6. ASSUME NEW k \in 0 .. version_count - 1
      PROVE  AtIndex(Listed, Line(k)[2], Index(Line(k)[1]))
  <2>1. Index(version_count - k) = k
    BY <1>1 DEF Index
  <2>2. AtIndex(Listed, versions[k + 1], k)
    BY SortedAtIndex DEF ScanInv, SortInv
  <2> QED
    BY <2>1, <2>2
<1> QED
  BY <1>2, <1>3, <1>4, <1>5, <1>6

\* LS displays every version under a number that selects it in GETVERSION.
THEOREM DisplayIsResolvable == Spec => []DisplayMatchesResolve
  BY ScanInvariant, ScanInvDisplay, PTL
=============================================================================
