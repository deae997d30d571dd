---------------------------- MODULE PagingProofs -----------------------------
(***************************************************************************)
(* Neither listing misses, repeats or invents an entry, whatever the size  *)
(* of a page, the identities, the catalogues, and what is admitted or      *)
(* replaced between two pages.                                             *)
(***************************************************************************)
EXTENDS ServicePaging, SequenceTheorems, FiniteSetTheorems, TLAPS

Increasing(s) == \A m, n \in DOMAIN s : m < n => s[m] < s[n]

\* What a caller has received of a history: everything up to its cursor that was
\* retained when it began.
HistoryFits ==
    listing = "history" =>
       /\ entries \in Seq(Nat) /\ Increasing(entries)
       /\ ToSet(entries) \subseteq Retained /\ started \subseteq Retained
       /\ cursor = None => started \subseteq ToSet(entries)
       /\ cursor # None =>
             /\ cursor \in Nat
             /\ \A n \in DOMAIN entries : entries[n] <= cursor
             /\ \A i \in started : i <= cursor => i \in ToSet(entries)

\* What a caller has received of a catalogue: the entries up to its cursor.
CatalogueFits ==
    listing = "catalogue" /\ ~replaced =>
       IF cursor = None THEN entries = catalogue
       ELSE \E k \in 0 .. Len(catalogue) :
               /\ entries = SubSeq(catalogue, 1, k)
               /\ cursor = IF k = 0 THEN 0 ELSE catalogue[k]

IInv ==
    /\ kubernetes \subseteq Identities /\ git \subseteq Identities
    /\ catalogue \in Catalogues
    /\ HistoryFits /\ CatalogueFits

-----------------------------------------------------------------------------
(* Pages.                                                                  *)

\* The lesser of two numbers.
LEMMA MinOfTwo ==
    ASSUME NEW a \in Nat, NEW b \in Nat
    PROVE  Min({a, b}) = IF a <= b THEN a ELSE b
BY DEF Min

\* Ascending lists the elements of a finite set, each once, in their order.
LEMMA AscendingFacts ==
    ASSUME NEW S, S \subseteq Nat, IsFiniteSet(S)
    PROVE  /\ Cardinality(S) \in Nat
           /\ Ascending(S) \in [1 .. Cardinality(S) -> S]
           /\ Increasing(Ascending(S))
           /\ \A i \in S : \E n \in 1 .. Cardinality(S) : Ascending(S)[n] = i
<1> DEFINE Below(i) == {j \in S : j <= i}
           c == Cardinality(S)
           rank == [i \in S |-> Cardinality(Below(i))]
           a == Ascending(S)
<1>1. c \in Nat
  BY FS_CardinalityType
<1>2. ASSUME NEW i \in S PROVE IsFiniteSet(Below(i)) /\ rank[i] \in 1 .. c
  <2>1. Below(i) \in SUBSET S /\ Below(i) # {}
    BY <1>2
  <2>2. IsFiniteSet(Below(i)) /\ Cardinality(Below(i)) <= c
    BY Zenon, <2>1, FS_Subset
  <2>3. Cardinality(Below(i)) \in Nat /\ Cardinality(Below(i)) # 0
    BY Zenon, <2>1, <2>2, FS_CardinalityType, FS_EmptySet
  <2>4. rank[i] = Cardinality(Below(i))
    BY <1>2
  <2> HIDE DEF Below, rank, c
  <2> QED
    BY <1>1, <2>2, <2>3, <2>4
<1>3. ASSUME NEW i \in S, NEW k \in S, i < k PROVE rank[i] < rank[k]
  <2>1. Below(i) \in SUBSET Below(k) /\ Below(i) # Below(k)
    <3>1. i \in Nat /\ k \in Nat /\ \A j \in S : j \in Nat
      BY Zenon
    <3>2. \A j \in S : j <= i => j <= k
      BY <1>3, <3>1
    <3>3. k <= k /\ ~(k <= i)
      BY <1>3, <3>1
    <3> QED
      BY Zenon, <3>2, <3>3
  <2>2. IsFiniteSet(Below(k))
    BY <1>2
  <2>3. rank[i] = Cardinality(Below(i)) /\ rank[k] = Cardinality(Below(k))
    BY <1>3
  <2>4. rank[i] \in Nat /\ rank[k] \in Nat
    BY <1>1, <1>2
  <2> HIDE DEF Below, rank
  <2>5. /\ Cardinality(Below(i)) <= Cardinality(Below(k))
        /\ Cardinality(Below(i)) # Cardinality(Below(k))
    BY <2>1, <2>2, FS_Subset
  <2> QED
    BY <2>3, <2>4, <2>5
<1>4. \A i, k \in S : rank[i] = rank[k] => i = k
  <2> SUFFICES ASSUME NEW i \in S, NEW k \in S, rank[i] = rank[k] PROVE i = k
    OBVIOUS
  <2>1. i < k \/ k < i \/ i = k
    OBVIOUS
  <2>2. rank[i] \in Nat /\ rank[k] \in Nat
    BY <1>1, <1>2
  <2> HIDE DEF rank
  <2> QED
    BY <1>3, <2>1, <2>2
<1>5. \A n \in 1 .. c : \E i \in S : rank[i] = n
  <2>1. rank \in [S -> 1 .. c]
    BY <1>2
  <2>2. rank \in Injection(S, 1 .. c)
    BY <1>4, <2>1 DEF Injection, IsInjective
  <2>3. IsFiniteSet(1 .. c) /\ Cardinality(1 .. c) = c
    BY <1>1, FS_Interval
  <2> HIDE DEF rank, c
  <2>4. rank \in Surjection(S, 1 .. c)
    BY Zenon, <2>2, <2>3, FS_Injection DEF c
  <2> QED
    BY <2>4 DEF Surjection
<1>6. ASSUME NEW n \in 1 .. c PROVE a[n] \in S /\ rank[a[n]] = n
  <2>1. a[n] = CHOOSE i \in S : Cardinality(Below(i)) = n
    BY <1>6 DEF Ascending
  <2>2. \E i \in S : Cardinality(Below(i)) = n
    BY <1>5, <1>6
  <2> HIDE DEF a, Below
  <2>3. a[n] \in S /\ Cardinality(Below(a[n])) = n
    BY Zenon, <2>1, <2>2
  <2> QED
    BY <2>3
<1>7. a \in [1 .. c -> S]
  BY <1>6 DEF Ascending
<1>8. Increasing(a)
  <2> SUFFICES ASSUME NEW m \in 1 .. c, NEW n \in 1 .. c, m < n PROVE a[m] < a[n]
    BY <1>7 DEF Increasing
  <2>1. a[m] \in S /\ a[n] \in S /\ rank[a[m]] = m /\ rank[a[n]] = n
    BY <1>6
  <2> HIDE DEF a, rank
  <2>2. a[m] \in Nat /\ a[n] \in Nat
    BY Zenon, <2>1
  <2>3. a[n] < a[m] => n < m
    BY <1>3, <2>1
  <2> QED
    BY <2>1, <2>2, <2>3
<1>9. ASSUME NEW i \in S PROVE \E n \in 1 .. c : a[n] = i
  <2> HIDE DEF a, rank, c
  <2> QED
    BY Zenon, <1>2, <1>4, <1>6
<1> QED
  BY <1>1, <1>7, <1>8, <1>9

\* A page of history goes on behind its cursor, in order, with retained identities; the
\* next cursor is its last entry, or there is none and the page has all that was left.
LEMMA HistoryFacts ==
    ASSUME IInv, NEW after \in Nat
    PROVE  LET answer == History(after)
           IN  /\ answer.page \in Seq(Nat) /\ Increasing(answer.page)
               /\ \A n \in DOMAIN answer.page :
                     answer.page[n] \in Retained /\ answer.page[n] > after
               /\ answer.next = None =>
                     \A i \in Retained : i > after => i \in ToSet(answer.page)
               /\ answer.next # None =>
                     /\ answer.next \in Nat /\ answer.next > after
                     /\ \A n \in DOMAIN answer.page : answer.page[n] <= answer.next
                     /\ \A i \in Retained :
                           i > after /\ i <= answer.next => i \in ToSet(answer.page)
<1> DEFINE S == {i \in Retained : i > after}
           c == Cardinality(S)
           a == Ascending(S)
           ids == HistoryIds(after)
           length == IF c <= PageSize THEN c ELSE PageSize
           page == History(after).page
<1>1. S \subseteq Nat /\ IsFiniteSet(S)
  <2>1. S \subseteq Identities
    BY Zenon DEF IInv, Retained
  <2> HIDE DEF S
  <2> QED
    BY Zenon, <2>1, FS_Subset, PagingAssumption
<1>2. /\ c \in Nat /\ a \in [1 .. c -> S] /\ Increasing(a)
      /\ \A i \in S : \E n \in 1 .. c : a[n] = i
  <2> HIDE DEF S
  <2> QED
    BY Zenon, <1>1, AscendingFacts
<1>3. c \in Nat /\ a \in Seq(Nat) /\ Len(a) = c /\ \A n \in 1 .. c : a[n] \in Nat
  <2> HIDE DEF S, a, c
  <2>1. c \in Nat /\ a \in [1 .. c -> Nat]
    BY Zenon, <1>1, <1>2
  <2> QED
    BY <2>1
<1>4. PageSize \in Nat \ {0} /\ PageSize + 1 \in Nat /\ None \notin Nat
  BY PagingAssumption
<1>5. /\ ids \in Seq(Nat) /\ Len(ids) = IF c <= PageSize + 1 THEN c ELSE PageSize + 1
      /\ \A n \in 1 .. Len(ids) : ids[n] = a[n]
  <2> DEFINE k == IF c <= PageSize + 1 THEN c ELSE PageSize + 1
  <2>1. ids = SubSeq(a, 1, Min({Len(a), PageSize + 1}))
    BY Zenon DEF HistoryIds
  <2> HIDE DEF ids, a, c, S
  <2>2. Min({Len(a), PageSize + 1}) = k
    BY Zenon, <1>3, <1>4, MinOfTwo
  <2>3. k \in Int /\ k >= 0 /\ \A n \in 1 .. k : a[n] \in Nat
    BY <1>3, <1>4
  <2> HIDE DEF k
  <2>4. /\ SubSeq(a, 1, k) \in Seq(Nat)
        /\ Len(SubSeq(a, 1, k)) = IF 1 <= k THEN k - 1 + 1 ELSE 0
        /\ \A n \in 1 .. (k - 1 + 1) : SubSeq(a, 1, k)[n] = a[1 + n - 1]
    BY <2>3, SubSeqProperties
  <2>5. Len(ids) = k /\ \A n \in 1 .. k : ids[n] = a[n]
    <3>1. /\ k - 1 + 1 = k /\ (IF 1 <= k THEN k - 1 + 1 ELSE 0) = k
          /\ \A n \in 1 .. k : 1 + n - 1 = n
      BY <2>3
    <3> QED
      BY Zenon, <2>1, <2>2, <2>4, <3>1
  <2> QED
    BY Zenon, <2>1, <2>2, <2>4, <2>5 DEF k
<1>6. /\ page \in Seq(Nat) /\ Len(page) = length /\ length \in Nat
      /\ \A n \in 1 .. length : page[n] = a[n]
  <2>1. page = SubSeq(ids, 1, Min({Len(ids), PageSize}))
    BY Zenon DEF History
  <2> HIDE DEF page, ids, a, c, S
  <2>2. Min({Len(ids), PageSize}) = length
    <3>1. Min({Len(ids), PageSize}) = IF Len(ids) <= PageSize THEN Len(ids) ELSE PageSize
      BY Zenon, <1>4, <1>5, MinOfTwo, LenProperties
    <3> QED
      BY <1>3, <1>4, <1>5, <3>1
  <2>3. length \in Int /\ length >= 0 /\ length <= Len(ids)
        /\ \A n \in 1 .. length : ids[n] \in Nat /\ ids[n] = a[n]
    BY <1>3, <1>4, <1>5
  <2> HIDE DEF length
  <2>4. /\ SubSeq(ids, 1, length) \in Seq(Nat)
        /\ Len(SubSeq(ids, 1, length)) = IF 1 <= length THEN length - 1 + 1 ELSE 0
        /\ \A n \in 1 .. (length - 1 + 1) : SubSeq(ids, 1, length)[n] = ids[1 + n - 1]
    BY <2>3, SubSeqProperties
  <2>5. /\ length - 1 + 1 = length /\ (IF 1 <= length THEN length - 1 + 1 ELSE 0) = length
        /\ length \in Nat /\ \A n \in 1 .. length : 1 + n - 1 = n
    BY <2>3
  <2> QED
    BY Zenon, <2>1, <2>2, <2>3, <2>4, <2>5
<1>7. History(after).next = IF c > PageSize THEN a[PageSize] ELSE None
  <2>1. History(after).next = IF Len(ids) > PageSize THEN page[Len(page)] ELSE None
    BY Zenon DEF History, Last
  <2> HIDE DEF page, ids, a, c, S
  <2>2. Len(ids) > PageSize <=> c > PageSize
    BY <1>3, <1>4, <1>5
  <2>3. c > PageSize => Len(page) = PageSize /\ page[PageSize] = a[PageSize]
    BY <1>3, <1>4, <1>6
  <2> QED
    BY Zenon, <2>1, <2>2, <2>3
<1> DEFINE next == History(after).next
<1> HIDE DEF next, page, ids, a, c
<1>8. \A n \in DOMAIN page : n \in 1 .. length /\ n \in 1 .. c /\ page[n] = a[n]
  BY <1>2, <1>4, <1>6
<1>9. Increasing(page)
  BY <1>2, <1>8 DEF Increasing
<1>10. \A n \in DOMAIN page : page[n] \in Retained /\ page[n] > after
  BY <1>2, <1>8
<1>11. ASSUME next = None, NEW i \in Retained, i > after PROVE i \in ToSet(page)
  <2>1. c <= PageSize
    <3>1. c > PageSize => a[PageSize] \in Nat
      BY <1>1, <1>2, <1>4
    <3> QED
      BY <1>2, <1>4, <1>7, <1>11, <3>1 DEF next
  <2>2. PICK n \in 1 .. c : a[n] = i
    BY Zenon, <1>2, <1>11
  <2>3. n \in DOMAIN page /\ page[n] = i
    BY <1>2, <1>4, <1>6, <2>1, <2>2
  <2> QED
    BY Zenon, <2>3 DEF ToSet
<1>12. ASSUME next # None
       PROVE  /\ next \in Nat /\ next > after
              /\ \A n \in DOMAIN page : page[n] <= next
              /\ \A i \in Retained : i > after /\ i <= next => i \in ToSet(page)
  <2>1. c > PageSize /\ next = a[PageSize] /\ PageSize \in 1 .. c /\ length = PageSize
    BY <1>2, <1>4, <1>7, <1>12 DEF next
  <2>2. next \in Nat /\ next > after
    BY <1>1, <1>2, <2>1
  <2>3. \A n \in 1 .. c : a[n] \in Nat /\ (n < PageSize => a[n] < next) /\ (n > PageSize => next < a[n])
    BY <1>1, <1>2, <2>1 DEF Increasing
  <2>4. ASSUME NEW n \in DOMAIN page PROVE page[n] <= next
    <3>1. n \in 1 .. length /\ n \in 1 .. c /\ page[n] = a[n]
      BY Zenon, <1>8, <2>4
    <3>2. n = PageSize \/ n < PageSize
      BY <1>4, <2>1, <3>1
    <3> QED
      BY <2>1, <2>2, <2>3, <3>1, <3>2
  <2>5. ASSUME NEW i \in Retained, i > after, i <= next PROVE i \in ToSet(page)
    <3>1. PICK n \in 1 .. c : a[n] = i
      BY Zenon, <1>2, <2>5
    <3>2. n <= PageSize
      BY <1>2, <1>4, <2>2, <2>3, <2>5, <3>1
    <3>3. n \in DOMAIN page /\ page[n] = i
      BY <1>2, <1>4, <1>6, <2>1, <3>1, <3>2
    <3> QED
      BY Zenon, <3>3 DEF ToSet
  <2> QED
    BY Zenon, <2>2, <2>4, <2>5
<1> QED
  BY Zenon, <1>6, <1>9, <1>10, <1>11, <1>12 DEF next, page

\* The page behind the k-th entry of the catalogue.
LEMMA ApprovedFacts ==
    ASSUME IInv, NEW k \in 0 .. Len(catalogue),
           NEW after, after = IF k = 0 THEN 0 ELSE catalogue[k]
    PROVE  /\ catalogue \in Seq(Identities) /\ Len(catalogue) \in Nat
           /\ \E m \in k .. Len(catalogue) :
                 /\ ApprovedActions(after) = SubSeq(catalogue, k + 1, m)
                 /\ m = k <=> k = Len(catalogue)
<1>1. /\ catalogue \in Seq(Identities) /\ IsInjective(catalogue)
      /\ PageSize \in Nat \ {0} /\ Identities \subseteq Nat \ {0}
  BY Zenon, PagingAssumption DEF IInv
<1>2. /\ Len(catalogue) \in Nat /\ DOMAIN catalogue = 1 .. Len(catalogue)
      /\ \A n \in 1 .. Len(catalogue) : catalogue[n] \in Identities
  BY <1>1, LenProperties
<1> DEFINE start == IF after = 0 THEN 0 ELSE CHOOSE p \in DOMAIN catalogue : catalogue[p] = after
           m == IF Len(catalogue) <= k + PageSize THEN Len(catalogue) ELSE k + PageSize
<1>3. start = k
  <2>1. CASE k = 0
    BY <2>1
  <2>2. CASE k # 0
    <3>1. k \in DOMAIN catalogue /\ catalogue[k] = after /\ after # 0
      BY <1>1, <1>2, <2>2
    <3> QED
      BY Zenon, <1>1, <3>1 DEF IsInjective
  <2> QED
    BY <2>1, <2>2
<1>4. ApprovedActions(after) = SubSeq(catalogue, start + 1, Min({Len(catalogue), start + PageSize}))
  BY Zenon DEF ApprovedActions
<1> HIDE DEF start
<1>5. k + PageSize \in Nat
  BY <1>1
<1>6. Min({Len(catalogue), start + PageSize}) = m
  BY Zenon, <1>2, <1>3, <1>5, MinOfTwo
<1>7. m \in k .. Len(catalogue) /\ (m = k <=> k = Len(catalogue))
  <2>1. \A l \in Nat : k \in 0 .. l =>
           LET n == IF l <= k + PageSize THEN l ELSE k + PageSize
           IN  n \in k .. l /\ (n = k <=> k = l)
    BY <1>1
  <2> QED
    BY Zenon, <1>2, <2>1
<1> QED
  BY Zenon, <1>1, <1>2, <1>3, <1>4, <1>6, <1>7

\* Receiving a page of the catalogue.
LEMMA CatalogueStep ==
    ASSUME IInv, listing = "catalogue", ~replaced, cursor # None, Receive(List(cursor))
    PROVE  IF cursor' = None THEN entries' = catalogue
           ELSE \E k \in 0 .. Len(catalogue) :
                   /\ entries' = SubSeq(catalogue, 1, k)
                   /\ cursor' = IF k = 0 THEN 0 ELSE catalogue[k]
<1>1. PICK k \in 0 .. Len(catalogue) :
         entries = SubSeq(catalogue, 1, k) /\ cursor = IF k = 0 THEN 0 ELSE catalogue[k]
  BY Zenon DEF IInv, CatalogueFits
<1>2. /\ catalogue \in Seq(Identities) /\ Len(catalogue) \in Nat
      /\ \A n \in 1 .. Len(catalogue) : catalogue[n] \in Identities
  BY <1>1, ApprovedFacts, LenProperties
<1> DEFINE page == ApprovedActions(cursor)
<1>3. PICK m \in k .. Len(catalogue) :
         page = SubSeq(catalogue, k + 1, m) /\ (m = k <=> k = Len(catalogue))
  BY <1>1, ApprovedFacts
<1>4. /\ entries' = entries \o page
      /\ cursor' = IF page = <<>> \/ ApprovedActions(Last(page)) = <<>> THEN None ELSE Last(page)
  BY Zenon DEF Receive, List
<1> HIDE DEF page
<1>5. entries' = SubSeq(catalogue, 1, m)
  <2>1. 1 \in 1 .. Len(catalogue) + 1 /\ k \in 1 - 1 .. Len(catalogue)
    BY <1>2
  <2> QED
    BY <1>1, <1>2, <1>3, <1>4, <2>1, ConcatAdjacentSubSeq
<1>6. SubSeq(catalogue, 1, Len(catalogue)) = catalogue
  BY Zenon, <1>2, SubSeqFull
<1>7. CASE m = k
  <2>1. page = <<>>
    BY <1>2, <1>3, <1>7, SubSeqEmpty
  <2> QED
    BY Zenon, <1>3, <1>4, <1>5, <1>6, <1>7, <2>1
<1>8. CASE m # k
  <2>1. page # <<>> /\ Last(page) = catalogue[m] /\ m \in 1 .. Len(catalogue)
    <3>1. /\ k + 1 \in Int /\ m \in Int /\ k + 1 <= m
          /\ \A n \in (k + 1) .. m : catalogue[n] \in Identities
      BY <1>2, <1>3, <1>8
    <3>2. /\ Len(page) = m - (k + 1) + 1
          /\ \A n \in 1 .. m - (k + 1) + 1 : page[n] = catalogue[k + 1 + n - 1]
      BY <1>3, <3>1, SubSeqProperties
    <3> QED
      BY <1>3, <3>1, <3>2 DEF Last
  <2>2. m \in 0 .. Len(catalogue) /\ catalogue[m] = IF m = 0 THEN 0 ELSE catalogue[m]
    BY <1>2, <2>1
  <2>3. PICK l \in m .. Len(catalogue) :
           /\ ApprovedActions(catalogue[m]) = SubSeq(catalogue, m + 1, l)
           /\ l = m <=> m = Len(catalogue)
    BY Zenon, <2>2, ApprovedFacts
  <2>4. CASE l = m
    <3>1. ApprovedActions(catalogue[m]) = <<>>
      BY <1>2, <2>1, <2>3, <2>4, SubSeqEmpty
    <3> QED
      BY Zenon, <1>4, <1>5, <1>6, <2>1, <2>3, <2>4, <3>1
  <2>5. CASE l # m
    <3>1. ApprovedActions(catalogue[m]) # <<>>
      <4>1. /\ m + 1 \in Int /\ l \in Int /\ m + 1 <= l
            /\ \A n \in (m + 1) .. l : catalogue[n] \in Identities
        BY <1>2, <2>1, <2>3, <2>5
      <4>2. Len(SubSeq(catalogue, m + 1, l)) = l - (m + 1) + 1
        BY <4>1, SubSeqProperties
      <4>3. l - (m + 1) + 1 # 0
        BY <4>1
      <4>4. Len(<<>>) = 0
        OBVIOUS
      <4> QED
        BY Zenon, <2>3, <4>2, <4>3, <4>4
    <3>2. cursor' = catalogue[m] /\ catalogue[m] # None
      <4>1. cursor' = catalogue[m]
        BY Zenon, <1>4, <2>1, <3>1
      <4> QED
        BY Zenon, <1>2, <2>1, <4>1, PagingAssumption
    <3> QED
      BY Zenon, <1>5, <2>2, <3>2
  <2> QED
    BY Zenon, <2>4, <2>5
<1> QED
  BY Zenon, <1>7, <1>8

\* Receiving a page of history.
LEMMA HistoryStep ==
    ASSUME IInv, ReadHistory PROVE HistoryFits'
<1> DEFINE answer == History(cursor)
           page == answer.page
<1>1. /\ entries \in Seq(Nat) /\ Increasing(entries)
      /\ ToSet(entries) \subseteq Retained /\ started \subseteq Retained
      /\ cursor # None /\ cursor \in Nat
      /\ \A n \in DOMAIN entries : entries[n] <= cursor
      /\ \A i \in started : i <= cursor => i \in ToSet(entries)
  BY Zenon DEF IInv, HistoryFits, ReadHistory
<1>2. /\ entries' = entries \o page /\ cursor' = answer.next
      /\ started' = started /\ Retained' = Retained
  BY Zenon DEF ReadHistory, Receive, Retained
<1>3. /\ page \in Seq(Nat) /\ Increasing(page)
      /\ \A n \in DOMAIN page : page[n] \in Retained /\ page[n] > cursor
      /\ answer.next = None => \A i \in Retained : i > cursor => i \in ToSet(page)
      /\ answer.next # None =>
            /\ answer.next \in Nat /\ answer.next > cursor
            /\ \A n \in DOMAIN page : page[n] <= answer.next
            /\ \A i \in Retained : i > cursor /\ i <= answer.next => i \in ToSet(page)
  BY Zenon, <1>1, HistoryFacts
<1> HIDE DEF answer
<1> DEFINE d == Len(entries)
<1>4. /\ d \in Nat /\ Len(page) \in Nat /\ DOMAIN entries = 1 .. d /\ DOMAIN page = 1 .. Len(page)
      /\ entries' \in Seq(Nat) /\ Len(entries') = d + Len(page)
      /\ DOMAIN entries' = 1 .. d + Len(page)
      /\ \A n \in 1 .. d : entries'[n] = entries[n]
      /\ \A n \in 1 .. Len(page) : entries'[d + n] = page[n]
  <2>1. /\ d \in Nat /\ Len(page) \in Nat /\ DOMAIN entries = 1 .. d /\ DOMAIN page = 1 .. Len(page)
    BY <1>1, <1>3, LenProperties
  <2>2. /\ entries' \in Seq(Nat) /\ Len(entries') = d + Len(page)
        /\ \A n \in 1 .. d + Len(page) : entries'[n] = IF n <= d THEN entries[n] ELSE page[n - d]
    BY Zenon, <1>1, <1>2, <1>3, ConcatProperties
  <2>3. DOMAIN entries' = 1 .. d + Len(page)
    BY <2>2, LenProperties
  <2>4. \A n \in 1 .. d : n \in 1 .. d + Len(page) /\ n <= d
    BY <2>1
  <2> HIDE DEF d, page
  <2>5. ASSUME NEW n \in 1 .. Len(page) PROVE entries'[d + n] = page[n]
    <3>1. PICK m : m = d + n
      OBVIOUS
    <3>2. m \in 1 .. d + Len(page) /\ ~(m <= d) /\ m - d = n
      BY <2>1, <2>5, <3>1
    <3>3. entries'[m] = page[m - d]
      BY Zenon, <2>2, <3>2
    <3> QED
      BY Zenon, <3>1, <3>2, <3>3
  <2>6. \A n \in 1 .. d : entries'[n] = entries[n]
    BY Zenon, <2>2, <2>4
  <2> QED
    BY Zenon, <2>1, <2>2, <2>3, <2>5, <2>6
<1> HIDE DEF d, page
<1>5. \A n \in DOMAIN entries' :
         \/ n \in 1 .. d /\ entries'[n] = entries[n] /\ entries[n] \in Nat
         \/ /\ n - d \in 1 .. Len(page) /\ entries'[n] = page[n - d] /\ page[n - d] \in Nat
            /\ n > d
  <2> SUFFICES ASSUME NEW n \in DOMAIN entries'
               PROVE  \/ n \in 1 .. d /\ entries'[n] = entries[n] /\ entries[n] \in Nat
                      \/ /\ n - d \in 1 .. Len(page) /\ entries'[n] = page[n - d]
                         /\ page[n - d] \in Nat /\ n > d
    OBVIOUS
  <2>1. CASE n <= d
    BY <1>1, <1>4, <2>1
  <2>2. CASE n > d
    <3>1. n - d \in 1 .. Len(page) /\ d + (n - d) = n
      BY <1>4, <2>2
    <3> QED
      BY <1>3, <1>4, <2>2, <3>1
  <2> QED
    BY <1>4, <2>1, <2>2
<1>6. Increasing(entries')
  <2> SUFFICES ASSUME NEW m \in DOMAIN entries', NEW n \in DOMAIN entries', m < n
               PROVE  entries'[m] < entries'[n]
    BY Zenon DEF Increasing
  <2>1. CASE n \in 1 .. d
    <3>1. m \in 1 .. d
      BY <1>4, <2>1
    <3> QED
      BY <1>1, <1>4, <2>1, <3>1 DEF Increasing
  <2>2. CASE n > d /\ m \in 1 .. d
    <3>1. n \notin 1 .. d /\ ~(m > d)
      BY <1>4, <2>2
    <3>2. /\ entries'[m] = entries[m] /\ entries[m] \in Nat
          /\ n - d \in DOMAIN page /\ entries'[n] = page[n - d] /\ page[n - d] \in Nat
      BY Zenon, <1>4, <1>5, <3>1
    <3>3. entries[m] <= cursor /\ page[n - d] > cursor
      BY Zenon, <1>1, <1>3, <1>4, <2>2, <3>2
    <3> QED
      BY <1>1, <3>2, <3>3
  <2>3. CASE n > d /\ m > d
    <3>1. /\ n - d \in DOMAIN page /\ m - d \in DOMAIN page /\ m - d < n - d
          /\ entries'[m] = page[m - d] /\ entries'[n] = page[n - d]
      <4>1. m \notin 1 .. d /\ n \notin 1 .. d /\ m - d < n - d
        BY <1>4, <2>3
      <4>2. n - d \in DOMAIN page /\ entries'[n] = page[n - d]
        BY Zenon, <1>4, <1>5, <4>1
      <4>3. m - d \in DOMAIN page /\ entries'[m] = page[m - d]
        BY Zenon, <1>4, <1>5, <4>1
      <4> QED
        BY Zenon, <4>1, <4>2, <4>3
    <3> QED
      BY Zenon, <1>3, <3>1 DEF Increasing
  <2> QED
    BY <1>4, <2>1, <2>2, <2>3
<1>7. /\ ToSet(entries) \subseteq ToSet(entries') /\ ToSet(page) \subseteq ToSet(entries')
      /\ ToSet(entries') \subseteq Retained
  <2>1. ToSet(entries) \subseteq ToSet(entries')
    <3>1. \A n \in 1 .. d : n \in DOMAIN entries' /\ entries'[n] = entries[n]
      BY <1>4
    <3> QED
      BY Zenon, <1>4, <3>1 DEF ToSet
  <2>2. ToSet(page) \subseteq ToSet(entries')
    <3>1. \A n \in 1 .. Len(page) : d + n \in DOMAIN entries' /\ entries'[d + n] = page[n]
      BY <1>4
    <3> QED
      BY Zenon, <1>4, <3>1 DEF ToSet
  <2>3. ToSet(entries') \subseteq Retained
    <3>1. \A n \in DOMAIN entries : entries[n] \in Retained
      BY Zenon, <1>1 DEF ToSet
    <3>2. \A n \in DOMAIN page : page[n] \in Retained
      BY Zenon, <1>3
    <3>3. ASSUME NEW n \in DOMAIN entries' PROVE entries'[n] \in Retained
      <4>1. CASE n \in 1 .. d /\ entries'[n] = entries[n]
        BY Zenon, <1>4, <3>1, <4>1
      <4>2. CASE n - d \in 1 .. Len(page) /\ entries'[n] = page[n - d]
        BY Zenon, <1>4, <3>2, <4>2
      <4> QED
        BY Zenon, <1>5, <4>1, <4>2
    <3> QED
      BY Zenon, <3>3 DEF ToSet
  <2> QED
    BY Zenon, <2>1, <2>2, <2>3
<1>8. \A i \in started : i \in Nat
  BY Zenon, <1>1, PagingAssumption DEF IInv, Retained
<1>9. cursor' = None => started \subseteq ToSet(entries')
  <2> SUFFICES ASSUME cursor' = None, NEW i \in started PROVE i \in ToSet(entries')
    OBVIOUS
  <2>1. i <= cursor \/ i > cursor
    BY <1>1, <1>8
  <2> QED
    BY Zenon, <1>1, <1>2, <1>3, <1>7, <2>1
<1>10. ASSUME cursor' # None
       PROVE  /\ cursor' \in Nat
              /\ \A n \in DOMAIN entries' : entries'[n] <= cursor'
              /\ \A i \in started : i <= cursor' => i \in ToSet(entries')
  <2>1. /\ cursor' \in Nat /\ cursor' > cursor
        /\ \A n \in DOMAIN page : page[n] <= cursor'
        /\ \A i \in Retained : i > cursor /\ i <= cursor' => i \in ToSet(page)
    BY Zenon, <1>2, <1>3, <1>10
  <2>2. ASSUME NEW n \in DOMAIN entries' PROVE entries'[n] <= cursor'
    <3>1. CASE n \in 1 .. d /\ entries'[n] = entries[n] /\ entries[n] \in Nat
      <4>1. entries[n] <= cursor
        BY Zenon, <1>1, <1>4, <3>1
      <4> QED
        BY <1>1, <2>1, <3>1, <4>1
    <3>2. CASE n - d \in 1 .. Len(page) /\ entries'[n] = page[n - d]
      BY Zenon, <1>4, <2>1, <3>2
    <3> QED
      BY Zenon, <1>5, <2>2, <3>1, <3>2
  <2>3. ASSUME NEW i \in started, i <= cursor' PROVE i \in ToSet(entries')
    <3>1. i <= cursor \/ i > cursor
      BY <1>1, <1>8
    <3> QED
      BY Zenon, <1>1, <1>7, <2>1, <2>3, <3>1
  <2> QED
    BY Zenon, <2>1, <2>2, <2>3
<1> QED
  BY Zenon, <1>1, <1>2, <1>4, <1>6, <1>7, <1>9, <1>10 DEF HistoryFits

-----------------------------------------------------------------------------
(* Steps.                                                                  *)

\* Nothing is retained, and nobody lists anything.
LEMMA InitInv == Init => IInv
BY Zenon, PagingAssumption DEF Init, IInv, HistoryFits, CatalogueFits

\* Every step keeps what the listings have received in line with their cursors.
LEMMA NextInv == IInv /\ [Next]_vars => IInv'
<1> SUFFICES ASSUME IInv, [Next]_vars PROVE IInv'
  OBVIOUS
<1>0. /\ None \notin Nat /\ None # "history" /\ None # "catalogue" /\ 0 \in Nat
      /\ Identities \subseteq Nat
  BY PagingAssumption
<1>1. ASSUME NEW kind \in {"history", "catalogue"}, Begin(kind) PROVE IInv'
  <2>1. /\ kubernetes' = kubernetes /\ git' = git /\ catalogue' = catalogue
        /\ cursor' = 0 /\ entries' = <<>> /\ listing' = kind /\ Retained' = Retained
        /\ kind = "history" => started' = Retained
    BY Zenon, <1>1 DEF Begin, Retained
  <2>2. HistoryFits'
    <3>1. <<>> \in Seq(Nat) /\ DOMAIN <<>> = {}
      OBVIOUS
    <3>2. \A i \in Retained : i \in Nat /\ i # 0
      BY Zenon, PagingAssumption DEF IInv, Retained
    <3>3. \A i \in Retained : ~(i <= 0)
      BY <3>2
    <3> QED
      BY Zenon, <1>0, <2>1, <3>1, <3>3 DEF HistoryFits, Increasing, ToSet
  <2>3. CatalogueFits'
    <3>1. 0 \in 0 .. Len(catalogue)
      <4>1. catalogue \in Seq(Identities)
        BY Zenon, PagingAssumption DEF IInv
      <4> QED
        BY <4>1, LenProperties
    <3>2. <<>> = SubSeq(catalogue, 1, 0)
      BY SubSeqEmpty
    <3> QED
      BY Zenon, <1>0, <2>1, <3>1, <3>2 DEF CatalogueFits
  <2> QED
    BY Zenon, <2>1, <2>2, <2>3 DEF IInv
<1>2. CASE ReadHistory
  <2>1. CatalogueFits'
    BY Zenon, <1>2 DEF ReadHistory, Receive, CatalogueFits
  <2> QED
    BY Zenon, <1>2, <2>1, HistoryStep DEF ReadHistory, Receive, IInv
<1>3. ASSUME listing' = None, UNCHANGED <<kubernetes, git, catalogue>> PROVE IInv'
  BY Zenon, <1>0, <1>3 DEF IInv, HistoryFits, CatalogueFits
<1>4. CASE ReadCatalogue
  <2>1. CASE Receive(List(cursor))
    <3>1. /\ listing = "catalogue" /\ cursor # None
          /\ UNCHANGED <<kubernetes, git, catalogue, listing, started, replaced>>
      BY Zenon, <1>4, <2>1 DEF ReadCatalogue, Receive
    <3>2. HistoryFits'
      BY Zenon, <3>1 DEF HistoryFits
    <3>3. CatalogueFits'
      BY Zenon, <2>1, <3>1, CatalogueStep DEF CatalogueFits
    <3> QED
      BY Zenon, <3>1, <3>2, <3>3 DEF IInv
  <2> QED
    BY Zenon, <1>3, <1>4, <2>1 DEF ReadCatalogue, Forget
<1>5. CASE End
  BY Zenon, <1>3, <1>5 DEF End, Forget
<1>6. ASSUME NEW i \in Identities, Admit(i) PROVE IInv'
  <2>1. /\ Retained \subseteq Retained'
        /\ kubernetes' \subseteq Identities /\ git' \subseteq Identities
        /\ UNCHANGED <<catalogue, listing, cursor, entries, started, replaced>>
    BY Zenon, <1>6 DEF Admit, Retained, IInv
  <2>2. HistoryFits' /\ CatalogueFits'
    BY Zenon, <2>1 DEF IInv, HistoryFits, CatalogueFits
  <2> QED
    BY Zenon, <2>1, <2>2 DEF IInv
<1>7. ASSUME NEW c \in Catalogues, Restart(c) PROVE IInv'
  <2>1. /\ UNCHANGED <<kubernetes, git, listing, cursor, entries, started>>
        /\ catalogue' \in Catalogues /\ replaced' = (listing # None) /\ Retained' = Retained
    BY Zenon, <1>7 DEF Restart, Retained
  <2>2. HistoryFits' /\ CatalogueFits'
    BY Zenon, <1>0, <2>1 DEF IInv, HistoryFits, CatalogueFits
  <2> QED
    BY Zenon, <2>1, <2>2 DEF IInv
<1>8. CASE UNCHANGED vars
  BY Zenon, <1>8 DEF vars, IInv, HistoryFits, CatalogueFits, Retained
<1> QED
  BY Zenon, <1>1, <1>2, <1>4, <1>5, <1>6, <1>7, <1>8 DEF Next

\* A listing that has ended names every operation that was retained when it began, in
\* order and each once, or is the catalogue of the operator (history, history_ids,
\* approved_actions, read_observed).
THEOREM ListingsComplete == Spec => []ListingsAreComplete
<1>1. IInv => ListingsAreComplete
  BY Zenon DEF IInv, HistoryFits, CatalogueFits, ListingsAreComplete, HistoryIsComplete,
     CatalogueIsComplete, Increasing
<1> QED
  BY InitInv, NextInv, <1>1, PTL DEF Spec
=============================================================================
