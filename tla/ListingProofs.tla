---------------------------- MODULE ListingProofs ----------------------------
(***************************************************************************)
(* Proofs about Listing: for any items, filters, sort keys, page size and  *)
(* number of changes.                                                       *)
(*                                                                          *)
(* An untouched item has a sort key of its own, so its place in the sorted  *)
(* result is a number: how many matching items stand in front of it.  A     *)
(* page shows an untouched item exactly when that number falls on the page, *)
(* and one change moves it by at most one.                                  *)
(***************************************************************************)
EXTENDS Listing, Integers, FunctionTheorems, FiniteSetTheorems, TLAPS

USE PageAssumption, StoredAssumption

(***************************************************************************)
(* The inductive invariant.                                                 *)
(***************************************************************************)
Result == Matching(request)
Untouched == Stored \ touched
Sorted(i) == SortKey(request, doc[i])
Front(i) == {j \in Result : Precedes(request, j, i)}
Rank(i) == Cardinality(Front(i))

\* The ranks that the pages so far were to show are those below.
Walked == IF walk.at = "done" THEN walk.page * PageSize ELSE Skip(walk.page)

Shape ==
    /\ doc \in [Items -> Document]
    /\ request \in Requests
    /\ walk \in [at : {"count", "page", "done"}, page : Nat \ {0}, total : Nat]
    /\ seen \subseteq Items /\ touched \subseteq Items /\ twice \subseteq seen
    /\ left \in Nat /\ entered \in Nat /\ raced \in Nat /\ changes \in Nat
    /\ forward \in Nat /\ backward \in Nat

\* No other document shares the sort key of an untouched one.
Apart == \A i \in Untouched \cap Live : \A j \in Live \ {i} : Sorted(i) # Sorted(j)

\* What the caller saw and nobody touched is still in the result.
Seen ==
    /\ \A i \in seen : OrgOf[i] = request.org
    /\ seen \ touched \subseteq Result
    /\ Live \subseteq Stored \cup touched
    /\ Cardinality(seen) <= Walked

\* The result has outgrown the last count only by what came after it.
Counted ==
    /\ walk.at = "page" => Cardinality(Result) <= walk.total + raced
    /\ walk.at = "done" => Cardinality(Result) <= Walked + raced
    /\ walk.total <= Cardinality(Items)
    /\ walk.page = 1 \/ walk.page <= Cardinality(Items)

\* Untouched items seen twice, or due to be: seen, and pushed behind the pages
\* so far.
Pushed == {i \in seen \ touched : i \in twice \/ Rank(i) >= Walked}

\* Untouched items that slipped to the pages so far without being seen.
Hidden == {i \in (Untouched \cap Result) \ seen : Rank(i) < Walked}

FewPushed == Cardinality(Pushed) <= entered + forward
FewHidden == Cardinality(Hidden) <= left + backward

Bounded == left + entered + forward + backward <= changes /\ changes <= MaxChanges

IInv == Shape /\ Apart /\ Seen /\ Counted /\ FewPushed /\ FewHidden /\ Bounded

(***************************************************************************)
(* Ranks.                                                                   *)
(***************************************************************************)
\* Whatever the request says, a list is sorted by one of four fields.
LEMMA FieldOfSort ==
  \A r : SortField(r) \in {"created_at", "updated_at", "name", "status"}
BY DEF SortField

\* Each of them has an order.
LEMMA KeyType ==
  ASSUME NEW r, NEW d \in Document
  PROVE  SortKey(r, d) \in Nat
<1>1. d.status \in Status /\ d.name \in Nat /\ d.created_at \in Nat /\ d.updated_at \in Nat
  BY DEF Document
<1>2. CASE SortField(r) = "status"
  BY <1>1, <1>2 DEF SortKey, Status, StatusOrder
<1>3. CASE SortField(r) = "name"
  BY <1>1, <1>3 DEF SortKey
<1>4. CASE SortField(r) = "created_at"
  BY <1>1, <1>4 DEF SortKey
<1>5. CASE SortField(r) = "updated_at"
  BY <1>1, <1>5 DEF SortKey
<1> QED
  BY <1>2, <1>3, <1>4, <1>5, FieldOfSort

\* So do the sort keys of the items.
LEMMA SortedType ==
  ASSUME Shape, NEW i \in Items
  PROVE  Sorted(i) \in Nat
BY KeyType DEF Shape, Sorted

\* The order of the list, in terms of the sort key.
LEMMA PrecedesSorted ==
  \A i, j : Precedes(request, i, j) <=>
                IF Descending(request) THEN Sorted(i) > Sorted(j) ELSE Sorted(i) < Sorted(j)
  BY DEF Precedes, Before, Sorted

\* The result is a finite set of live items, and so are its parts.
LEMMA ResultFinite ==
  /\ Result \subseteq Live /\ Live \subseteq Items
  /\ IsFiniteSet(Result) /\ Cardinality(Result) \in Nat
  /\ Cardinality(Result) <= Cardinality(Items)
  /\ \A i : IsFiniteSet(Front(i)) /\ Rank(i) \in Nat
<1>1. Result \subseteq Live /\ Live \subseteq Items
  BY DEF Result, Matching, Live
<1>2. IsFiniteSet(Result) /\ Cardinality(Result) <= Cardinality(Items)
  BY <1>1, FS_Subset
<1>3. \A i : Front(i) \in SUBSET Result
  BY DEF Front
<1> QED
  BY <1>1, <1>2, <1>3, FS_Subset, FS_CardinalityType DEF Rank

\* The one in front has the smaller rank.
LEMMA Ahead ==
  ASSUME Shape, NEW i \in Result, NEW k \in Result, Precedes(request, i, k)
  PROVE  Rank(i) < Rank(k)
<1>1. \A j \in Items : Sorted(j) \in Nat
  BY SortedType
<1>2. Result \subseteq Items
  BY ResultFinite
<1>3. Front(i) \subseteq Front(k)
  BY <1>1, <1>2, PrecedesSorted DEF Front
<1>4. i \in Front(k) /\ i \notin Front(i)
  BY <1>1, <1>2, PrecedesSorted DEF Front
<1>5. IsFiniteSet(Front(k)) /\ Rank(i) \in Nat /\ Rank(k) \in Nat
  BY ResultFinite
<1>6. Cardinality(Front(i)) <= Cardinality(Front(k))
      /\ (Cardinality(Front(k)) = Cardinality(Front(i)) => Front(k) = Front(i))
  BY <1>3, <1>5, FS_Subset
<1> QED
  BY <1>4, <1>5, <1>6 DEF Rank

\* An untouched item and another of the result stand one in front of the other.
LEMMA OneInFront ==
  ASSUME Shape, Apart, NEW i \in Untouched \cap Result, NEW j \in Result, i # j
  PROVE  Precedes(request, i, j) \/ Precedes(request, j, i)
<1>1. Sorted(i) # Sorted(j)
  BY ResultFinite DEF Apart
<1>2. Sorted(i) \in Nat /\ Sorted(j) \in Nat
  BY SortedType, ResultFinite
<1> QED
  BY <1>1, <1>2, PrecedesSorted

\* So no two untouched items have one rank.
LEMMA RanksDiffer ==
  ASSUME Shape, Apart, NEW i \in Untouched \cap Result, NEW k \in Untouched \cap Result,
         Rank(i) = Rank(k)
  PROVE  i = k
<1> SUFFICES ASSUME i # k PROVE FALSE
  OBVIOUS
<1>1. Precedes(request, i, k) \/ Precedes(request, k, i)
  BY OneInFront
<1>2. Rank(i) < Rank(k) \/ Rank(k) < Rank(i)
  BY <1>1, Ahead
<1> QED
  BY <1>2, ResultFinite

\* A page shows the untouched items whose ranks fall on it, and those only.
LEMMA PageByRank ==
  ASSUME Shape, Apart, NEW page \in Nat \ {0}, NEW S \in Page(request, page),
         NEW i \in Untouched \cap Result
  PROVE  i \in S <=> Skip(page) <= Rank(i) /\ Rank(i) < Skip(page) + PageSize
<1> DEFINE skipped == Least(Skip(page), Cardinality(Result))
           length == Least(PageSize, Cardinality(Result) - skipped)
<1>1. PICK B \in SUBSET (Result \ S) :
          /\ Cardinality(B) = skipped /\ Cardinality(S) = length
          /\ \A b \in B : \A x \in Result \ B : ~ Precedes(request, x, b)
          /\ \A s \in S : \A x \in Result \ (B \cup S) : ~ Precedes(request, x, s)
  BY DEF Page, Result
<1>2. S \subseteq Result
  BY DEF Page, Result
<1>3. Skip(page) \in Nat
  BY DEF Skip
<1>4. /\ IsFiniteSet(Result) /\ Cardinality(Result) \in Nat /\ Rank(i) \in Nat
      /\ IsFiniteSet(Front(i))
  BY ResultFinite
<1>5. IsFiniteSet(B) /\ IsFiniteSet(S)
  BY <1>1, <1>2, <1>4, FS_Subset
<1>6. skipped \in Nat /\ length \in Nat /\ skipped <= Skip(page) /\ length <= PageSize
  BY <1>3, <1>4 DEF Least
<1> HIDE DEF skipped, length
<1>7. IsFiniteSet(B \cup S) /\ Cardinality(B \cup S) = skipped + length
  <2>1. B \cap S = {}
    BY <1>1
  <2>2. IsFiniteSet(B \cup S)
        /\ Cardinality(B \cup S) = Cardinality(B) + Cardinality(S) - Cardinality(B \cap S)
    BY <1>5, FS_Union
  <2> QED
    BY <1>1, <1>6, <2>1, <2>2, FS_EmptySet
<1>8. \A T \in SUBSET Result : T \subseteq Front(i) => IsFiniteSet(T) /\ Cardinality(T) <= Rank(i)
  BY <1>4, FS_Subset DEF Rank
<1>9. ASSUME NEW T, IsFiniteSet(T), Front(i) \subseteq T, i \in T PROVE Rank(i) < Cardinality(T)
  <2>1. i \notin Front(i)
    BY SortedType, PrecedesSorted, ResultFinite DEF Front
  <2>2. Cardinality(Front(i)) <= Cardinality(T)
        /\ (Cardinality(T) = Cardinality(Front(i)) => T = Front(i))
    BY <1>9, FS_Subset
  <2>3. Cardinality(T) \in Nat
    BY <1>9, FS_CardinalityType
  <2> QED
    BY <1>4, <1>9, <2>1, <2>2, <2>3 DEF Rank
<1>10. CASE i \in B
  <2>1. Front(i) \subseteq B
    BY <1>1, <1>10 DEF Front
  <2>2. Rank(i) < skipped
    BY <1>1, <1>5, <1>9, <1>10, <2>1
  <2> QED
    BY <1>1, <1>3, <1>4, <1>6, <1>10, <2>2
<1>11. CASE i \in S
  <2>1. B \subseteq Front(i)
    BY <1>1, <1>11, OneInFront DEF Front
  <2>2. skipped <= Rank(i)
    BY <1>1, <1>8, <2>1
  <2>3. Front(i) \subseteq B \cup S
    BY <1>1, <1>11 DEF Front
  <2>4. Rank(i) < skipped + length
    BY <1>7, <1>9, <1>11, <2>3
  <2>5. skipped = Skip(page)
    <3>1. length > 0
      BY <1>4, <1>6, <2>2, <2>4
    <3>2. skipped # Cardinality(Result)
      BY <1>4, <1>6, <3>1 DEF length, Least
    <3> QED
      BY <3>2 DEF skipped, Least
  <2> QED
    BY <1>3, <1>4, <1>6, <1>11, <2>2, <2>4, <2>5
<1>12. CASE i \notin B \cup S
  <2>1. B \cup S \subseteq Front(i)
    BY <1>1, <1>2, <1>12, OneInFront DEF Front
  <2>2. skipped + length <= Rank(i)
    BY <1>1, <1>2, <1>7, <1>8, <2>1
  <2>3. Rank(i) < Cardinality(Result)
    BY <1>4, <1>9 DEF Front
  <2>4. length = PageSize /\ skipped = Skip(page)
    BY <1>3, <1>4, <1>6, <2>2, <2>3 DEF length, skipped, Least
  <2> QED
    BY <1>3, <1>4, <1>6, <1>12, <2>2, <2>4
<1> QED
  BY <1>10, <1>11, <1>12

(***************************************************************************)
(* Changes by others.                                                       *)
(***************************************************************************)
\* A change leaves the other items, their keys and their order as they are.
LEMMA OthersStay ==
  ASSUME Shape, NEW x \in Items, NEW k, Change(x, k)
  PROVE  /\ request' = request /\ walk' = walk /\ seen' = seen /\ twice' = twice
         /\ walk.at # "done"
         /\ Walked' = Walked
         /\ Untouched' \subseteq Untouched \ {x}
         /\ doc' = [doc EXCEPT ![x] = k]
         /\ Sorted(x)' = SortKey(request, k)
         /\ \A i \in Items \ {x} :
               /\ doc'[i] = doc[i]
               /\ Sorted(i)' = Sorted(i)
               /\ i \in Live' <=> i \in Live
               /\ i \in Result' <=> i \in Result
         /\ \A i, j \in Items \ {x} :
               Precedes(request, i, j)' <=> Precedes(request, i, j)
<1>1. /\ UNCHANGED <<request, walk, seen, twice>> /\ walk.at # "done"
      /\ doc' = [doc EXCEPT ![x] = k] /\ touched \cup {x} \subseteq touched'
  BY DEF Change
<1>2. \A i \in Items \ {x} : doc'[i] = doc[i]
  BY <1>1 DEF Shape
<1>3. /\ \A i \in Items \ {x} : Sorted(i)' = Sorted(i) /\ (i \in Live' <=> i \in Live)
      /\ Sorted(x)' = SortKey(request, k)
  BY <1>1, <1>2 DEF Sorted, Live, Shape
<1>4. \A i \in Items \ {x} : i \in Result' <=> i \in Result
  BY <1>1, <1>2, <1>3 DEF Result, Matching
<1>5. \A i, j \in Items \ {x} : Precedes(request, i, j)' <=> Precedes(request, i, j)
  BY <1>1, <1>2 DEF Precedes
<1>6. Walked' = Walked /\ Untouched' \subseteq Untouched \ {x}
  BY <1>1 DEF Walked, Untouched
<1> QED
  BY <1>1, <1>2, <1>3, <1>4, <1>5, <1>6

\* One change moves another item by one place at most, backward when the
\* changed item gets in front of it and forward when it was.
LEMMA RankStep ==
  ASSUME Shape, NEW x \in Items, NEW k, Change(x, k), NEW i \in Items \ {x}
  PROVE  /\ Rank(i) \in Nat /\ Rank(i)' \in Nat
         /\ Rank(i)' <= Rank(i) + 1 /\ Rank(i) <= Rank(i)' + 1
         /\ Rank(i)' > Rank(i) => x \in Front(i)' \ Front(i)
         /\ Rank(i)' < Rank(i) => x \in Front(i) \ Front(i)'
<1>1. Result \subseteq Items /\ Result' \subseteq Items
  BY DEF Result, Matching, Live
<1>2. Front(i)' \ {x} = Front(i) \ {x}
  BY <1>1, OthersStay DEF Front
<1>3. IsFiniteSet(Front(i)) /\ IsFiniteSet(Front(i)')
  BY <1>1, FS_Subset DEF Front
<1>4. Rank(i) \in Nat /\ Rank(i)' \in Nat
  BY <1>3, FS_CardinalityType DEF Rank
<1>5. PICK rest : rest = Front(i) \ {x}
  OBVIOUS
<1>6. /\ Cardinality(rest) \in Nat
      /\ Rank(i) = Cardinality(rest) + (IF x \in Front(i) THEN 1 ELSE 0)
      /\ Rank(i)' = Cardinality(rest) + (IF x \in Front(i)' THEN 1 ELSE 0)
  <2>1. IsFiniteSet(rest) /\ Cardinality(rest) \in Nat
    BY <1>3, <1>5, FS_RemoveElement, FS_CardinalityType
  <2>2. Cardinality(rest) = IF x \in Front(i) THEN Rank(i) - 1 ELSE Rank(i)
    BY <1>3, <1>5, FS_RemoveElement DEF Rank
  <2>3. Cardinality(rest) = IF x \in Front(i)' THEN Rank(i)' - 1 ELSE Rank(i)'
    BY <1>2, <1>3, <1>5, FS_RemoveElement DEF Rank
  <2> QED
    BY <1>4, <2>1, <2>2, <2>3
<1> QED
  BY <1>4, <1>6

\* A set that gains at most one element.
LEMMA OneMore ==
  ASSUME NEW A, IsFiniteSet(A), NEW C, \A a, b \in C \ A : a = b
  PROVE  /\ IsFiniteSet(C) /\ Cardinality(C) \in Nat /\ Cardinality(A) \in Nat
         /\ Cardinality(C) <= Cardinality(A) + 1
         /\ C \ A = {} => Cardinality(C) <= Cardinality(A)
<1>1. CASE C \ A = {}
  BY <1>1, FS_Subset, FS_CardinalityType
<1>2. CASE C \ A # {}
  <2>1. PICK a : C \in SUBSET (A \cup {a})
    BY <1>2
  <2>2. Cardinality(A) \in Nat
    BY FS_CardinalityType
  <2>3. IsFiniteSet(A \cup {a}) /\ Cardinality(A \cup {a}) <= Cardinality(A) + 1
    <3>1. /\ IsFiniteSet(A \cup {a})
          /\ \/ Cardinality(A \cup {a}) = Cardinality(A)
             \/ Cardinality(A \cup {a}) = Cardinality(A) + 1
      BY FS_AddElement
    <3> QED
      BY <2>2, <3>1
  <2>4. IsFiniteSet(C) /\ Cardinality(C) <= Cardinality(A \cup {a})
        /\ Cardinality(C) \in Nat /\ Cardinality(A \cup {a}) \in Nat
    BY <2>1, <2>3, FS_Subset, FS_CardinalityType
  <2> QED
    BY <1>2, <2>2, <2>3, <2>4
<1> QED
  BY <1>1, <1>2

\* A change pushes at most one more seen item over the edge, by getting in
\* front of it.
LEMMA PushedByOne ==
  ASSUME Shape, Apart, Seen, NEW x \in Items, NEW k, Change(x, k)
  PROVE  /\ Cardinality(Pushed) \in Nat /\ Cardinality(Pushed') \in Nat
         /\ Cardinality(Pushed') <= Cardinality(Pushed) + 1
         /\ Cardinality(Pushed') > Cardinality(Pushed) =>
               \E i \in Untouched' \cap Result : x \in Front(i)' \ Front(i)
<1>1. IsFiniteSet(Pushed)
  <2>1. Pushed \in SUBSET Items
    BY DEF Pushed, Shape
  <2> QED
    BY <2>1, FS_Subset
<1>2. Walked \in Nat
  BY DEF Walked, Skip, Shape
<1>3. ASSUME NEW i \in Pushed' \ Pushed
      PROVE  /\ i \in Untouched' \cap Untouched \cap Result
             /\ Rank(i) + 1 = Walked
             /\ x \in Front(i)' \ Front(i)
  <2>1. i \in seen \ touched' /\ touched \cup {x} \subseteq touched'
    BY <1>3, OthersStay DEF Pushed, Change
  <2>2. i \in Result /\ i \in Stored /\ i \in Items \ {x}
    BY <2>1, ResultFinite DEF Seen, Shape
  <2>3. i \notin twice /\ Rank(i)' >= Walked /\ ~ (Rank(i) >= Walked)
    BY <1>3, <2>1, OthersStay DEF Pushed
  <2>4. Rank(i) \in Nat /\ Rank(i)' \in Nat /\ Rank(i)' <= Rank(i) + 1
        /\ (Rank(i)' > Rank(i) => x \in Front(i)' \ Front(i))
    BY <2>2, RankStep
  <2> QED
    BY <1>2, <2>1, <2>2, <2>3, <2>4 DEF Untouched
<1>4. \A a, b \in Pushed' \ Pushed : a = b
  <2> SUFFICES ASSUME NEW a \in Pushed' \ Pushed, NEW b \in Pushed' \ Pushed PROVE a = b
    OBVIOUS
  <2>1. Rank(a) = Rank(b)
    BY <1>2, <1>3, ResultFinite
  <2> QED
    BY <1>3, <2>1, RanksDiffer
<1>5. /\ Cardinality(Pushed) \in Nat /\ Cardinality(Pushed') \in Nat
      /\ Cardinality(Pushed') <= Cardinality(Pushed) + 1
      /\ Pushed' \ Pushed = {} => Cardinality(Pushed') <= Cardinality(Pushed)
  BY <1>1, <1>4, OneMore
<1> QED
  BY <1>3, <1>5

\* A change hides at most one more item, that it was in front of.
LEMMA HiddenByOne ==
  ASSUME Shape, Apart, Seen, NEW x \in Items, NEW k, Change(x, k)
  PROVE  /\ Cardinality(Hidden) \in Nat /\ Cardinality(Hidden') \in Nat
         /\ Cardinality(Hidden') <= Cardinality(Hidden) + 1
         /\ Cardinality(Hidden') > Cardinality(Hidden) =>
               \E i \in Untouched' \cap Result : x \in Front(i) \ Front(i)'
<1>1. IsFiniteSet(Hidden)
  <2>1. Hidden \in SUBSET Items
    BY DEF Hidden, Untouched
  <2> QED
    BY <2>1, FS_Subset
<1>2. Walked \in Nat
  BY DEF Walked, Skip, Shape
<1>3. ASSUME NEW i \in Hidden' \ Hidden
      PROVE  /\ i \in Untouched' \cap Untouched \cap Result
             /\ Rank(i) = Walked
             /\ x \in Front(i) \ Front(i)'
  <2>1. /\ i \in Untouched' /\ i \in Result' /\ i \notin seen
        /\ Rank(i)' < Walked
    BY <1>3, OthersStay DEF Hidden
  <2>2. i \in Untouched /\ i \in Items \ {x}
    BY <2>1, OthersStay DEF Untouched
  <2>3. i \in Result /\ ~ (Rank(i) < Walked)
    BY <1>3, <2>1, <2>2, OthersStay DEF Hidden
  <2>4. Rank(i) \in Nat /\ Rank(i)' \in Nat /\ Rank(i) <= Rank(i)' + 1
        /\ (Rank(i)' < Rank(i) => x \in Front(i) \ Front(i)')
    BY <2>2, RankStep
  <2> QED
    BY <1>2, <2>1, <2>2, <2>3, <2>4
<1>4. \A a, b \in Hidden' \ Hidden : a = b
  <2> SUFFICES ASSUME NEW a \in Hidden' \ Hidden, NEW b \in Hidden' \ Hidden PROVE a = b
    OBVIOUS
  <2>1. Rank(a) = Rank(b)
    BY <1>3
  <2> QED
    BY <1>3, <2>1, RanksDiffer
<1>5. /\ Cardinality(Hidden) \in Nat /\ Cardinality(Hidden') \in Nat
      /\ Cardinality(Hidden') <= Cardinality(Hidden) + 1
      /\ Hidden' \ Hidden = {} => Cardinality(Hidden') <= Cardinality(Hidden)
  BY <1>1, <1>4, OneMore
<1> QED
  BY <1>3, <1>5

\* One count more, one item more at most.
LEMMA ResultByOne ==
  ASSUME Shape, NEW x \in Items, NEW k, Change(x, k)
  PROVE  /\ Cardinality(Result) \in Nat /\ Cardinality(Result') \in Nat
         /\ Cardinality(Result') <= Cardinality(Result) + 1
         /\ Cardinality(Result') > Cardinality(Result) => x \in Result' \ Result
<1>1. Result' \subseteq Result \cup {x}
  <2>1. Result' \subseteq Items
    BY DEF Result, Matching, Live
  <2> QED
    BY <2>1, OthersStay
<1>2. \A a, b \in Result' \ Result : a = b
  BY <1>1
<1>3. /\ Cardinality(Result) \in Nat /\ Cardinality(Result') \in Nat
      /\ Cardinality(Result') <= Cardinality(Result) + 1
      /\ Result' \ Result = {} => Cardinality(Result') <= Cardinality(Result)
  BY <1>2, ResultFinite, OneMore
<1> QED
  BY <1>1, <1>3

\* An item that gets in front of an untouched one, or behind it, moved forward or
\* backward: no item stands beside an untouched one.
LEMMA MovedPast ==
  ASSUME Shape, Apart, NEW x \in Items, NEW k \in Document, Change(x, k),
         NEW i \in Untouched' \cap Result, x \in Result, x \in Result'
  PROVE  /\ x \in Front(i)' \ Front(i) => Before(request, k, doc[x])
         /\ x \in Front(i) \ Front(i)' => Before(request, doc[x], k)
<1>1. i \in Items \ {x} /\ i \in Untouched /\ i \in Live /\ x \in Live
  BY OthersStay, ResultFinite DEF Untouched
<1>2. Sorted(x) # Sorted(i)
  BY <1>1 DEF Apart
<1>3. SortKey(request, k) # Sorted(i)
  BY <1>1 DEF Change, Untouched, Sorted
<1>4. /\ Sorted(x) \in Nat /\ Sorted(i) \in Nat /\ SortKey(request, k) \in Nat
      /\ Sorted(x)' = SortKey(request, k) /\ Sorted(i)' = Sorted(i) /\ request' = request
  BY <1>1, SortedType, KeyType, OthersStay
<1>5. Precedes(request, x, i) <=>
          IF Descending(request) THEN Sorted(x) > Sorted(i) ELSE Sorted(x) < Sorted(i)
  BY PrecedesSorted
<1>6. Precedes(request, x, i)' <=>
          IF Descending(request) THEN Sorted(x)' > Sorted(i)' ELSE Sorted(x)' < Sorted(i)'
  BY <1>4 DEF Precedes, Before, Sorted
<1>7. /\ x \in Front(i)' <=> Precedes(request, x, i)'
      /\ x \in Front(i) <=> Precedes(request, x, i)
  BY DEF Front
<1>8. /\ Before(request, k, doc[x]) <=>
             IF Descending(request) THEN SortKey(request, k) > Sorted(x)
             ELSE SortKey(request, k) < Sorted(x)
      /\ Before(request, doc[x], k) <=>
             IF Descending(request) THEN Sorted(x) > SortKey(request, k)
             ELSE Sorted(x) < SortKey(request, k)
  BY DEF Before, Sorted
<1> QED
  BY <1>2, <1>3, <1>4, <1>5, <1>6, <1>7, <1>8

\* A change is counted once, as what it did to the item.
LEMMA ChangeCounts ==
  ASSUME Shape, NEW x \in Items, NEW k \in Document, Change(x, k)
  PROVE  /\ left' \in Nat /\ entered' \in Nat /\ forward' \in Nat /\ backward' \in Nat
         /\ left <= left' /\ entered <= entered' /\ forward <= forward' /\ backward <= backward'
         /\ left' + entered' + forward' + backward' <= left + entered + forward + backward + 1
         /\ x \in Result /\ x \notin Result' => left' = left + 1
         /\ x \in Result' /\ x \notin Result => entered' = entered + 1
         /\ x \in Result /\ x \in Result' /\ Before(request, k, doc[x]) => forward' = forward + 1
         /\ x \in Result /\ x \in Result' /\ Before(request, doc[x], k) => backward' = backward + 1
<1>1. /\ left' = left + (IF x \in Result /\ x \notin Result' THEN 1 ELSE 0)
      /\ entered' = entered + (IF x \in Result' /\ x \notin Result THEN 1 ELSE 0)
      /\ forward' = forward + (IF x \in Result /\ x \in Result' /\ Before(request, k, doc[x])
                              THEN 1 ELSE 0)
      /\ backward' = backward + (IF x \in Result /\ x \in Result' /\ Before(request, doc[x], k)
                                THEN 1 ELSE 0)
  BY DEF Change, Plus, Result
<1>2. ~ (Before(request, k, doc[x]) /\ Before(request, doc[x], k))
  <2>1. SortKey(request, k) \in Nat /\ SortKey(request, doc[x]) \in Nat
    BY KeyType DEF Shape
  <2> QED
    BY <2>1 DEF Before
<1>3. left \in Nat /\ entered \in Nat /\ forward \in Nat /\ backward \in Nat
  BY DEF Shape
<1> QED
  BY <1>1, <1>2, <1>3

\* What Insert, Update and Delete have in common.
LEMMA ChangeStep ==
  ASSUME IInv, NEW x \in Items, NEW k \in Document, Change(x, k), x \in Live \/ x \notin Stored
  PROVE  IInv'
<1> USE DEF IInv
<1>1. /\ changes < MaxChanges /\ changes' = changes + 1
      /\ touched' = touched \cup {x} \cup
             {j \in Live : SortKey(request, k) = SortKey(request, doc[j])}
      /\ x \in Result' \ Result /\ walk.at = "page" => raced' = raced + 1
      /\ x \notin Result' \ Result \/ walk.at # "page" => raced' = raced
  BY DEF Change, Plus, Result, Shape
<1>2. raced' \in Nat /\ raced <= raced'
  BY <1>1 DEF Shape
<1>3. Live \subseteq Items
  BY DEF Live
<1>4. Shape'
  <2>1. doc' \in [Items -> Document]
    BY OthersStay DEF Shape
  <2>2. touched' \subseteq Items /\ changes' \in Nat
    BY <1>1, <1>3 DEF Shape
  <2>3. UNCHANGED <<request, walk, seen, twice>>
    BY OthersStay
  <2> QED
    BY <1>2, <2>1, <2>2, <2>3, ChangeCounts DEF Shape
<1>5. Apart'
  <2> SUFFICES ASSUME NEW i \in Untouched' \cap Live', NEW j \in Live' \ {i}
               PROVE  Sorted(i)' # Sorted(j)'
    BY DEF Apart
  <2>1. i \in Items \ {x} /\ i \in Untouched /\ i \in Live /\ Sorted(i)' = Sorted(i)
        /\ i \notin touched' /\ j \in Items
    <3>1. i \in Items /\ j \in Items
      BY DEF Live
    <3> QED
      BY <3>1, OthersStay DEF Untouched
  <2>2. CASE j # x
    BY <2>1, <2>2, OthersStay DEF Apart
  <2>3. CASE j = x
    <3>1. Sorted(j)' = SortKey(request, k)
      BY <2>3, OthersStay
    <3>2. SortKey(request, k) # Sorted(i)
      BY <1>1, <2>1 DEF Sorted
    <3> QED
      BY <2>1, <3>1, <3>2
  <2> QED
    BY <2>2, <2>3
<1>6. Seen'
  <2>1. Live' \subseteq Stored' \cup touched'
    <3>1. Live' \subseteq Items /\ touched \cup {x} \subseteq touched'
      BY <1>1 DEF Live
    <3> QED
      BY <3>1, OthersStay DEF Seen
  <2>2. (seen \ touched)' \subseteq Result'
    BY <1>1, OthersStay DEF Seen, Shape
  <2> QED
    BY <2>1, <2>2, OthersStay DEF Seen
<1>7. Counted'
  <2>1. walk.at = "page" => Cardinality(Result') <= walk.total + raced'
    <3> SUFFICES ASSUME walk.at = "page" PROVE Cardinality(Result') <= walk.total + raced'
      OBVIOUS
    <3>1. Cardinality(Result) <= walk.total + raced /\ walk.total \in Nat /\ raced \in Nat
      BY DEF Counted, Shape
    <3> QED
      BY <1>1, <1>2, <3>1, ResultByOne
  <2> QED
    BY <2>1, OthersStay DEF Counted
<1>8. Bounded'
  BY <1>1, ChangeCounts DEF Bounded, Shape
<1>9. FewPushed'
  <2>1. Cardinality(Pushed') > Cardinality(Pushed) =>
            x \in Result' /\ (x \in Result => Before(request, k, doc[x]))
    <3> SUFFICES ASSUME Cardinality(Pushed') > Cardinality(Pushed)
                 PROVE  x \in Result' /\ (x \in Result => Before(request, k, doc[x]))
      OBVIOUS
    <3>1. PICK i \in Untouched' \cap Result : x \in Front(i)' \ Front(i)
      BY PushedByOne
    <3>2. x \in Result'
      BY <3>1 DEF Front
    <3> QED
      BY <3>1, <3>2, MovedPast
  <2>2. Cardinality(Pushed') > Cardinality(Pushed) => entered' + forward' >= entered + forward + 1
    BY <2>1, ChangeCounts DEF Shape
  <2> QED
    BY <2>2, ChangeCounts, PushedByOne DEF FewPushed, Shape
<1>10. FewHidden'
  <2>1. Cardinality(Hidden') > Cardinality(Hidden) =>
            x \in Result /\ (x \in Result' => Before(request, doc[x], k))
    <3> SUFFICES ASSUME Cardinality(Hidden') > Cardinality(Hidden)
                 PROVE  x \in Result /\ (x \in Result' => Before(request, doc[x], k))
      OBVIOUS
    <3>1. PICK i \in Untouched' \cap Result : x \in Front(i) \ Front(i)'
      BY HiddenByOne
    <3>2. x \in Result
      BY <3>1 DEF Front
    <3> QED
      BY <3>1, <3>2, MovedPast
  <2>2. Cardinality(Hidden') > Cardinality(Hidden) => left' + backward' >= left + backward + 1
    BY <2>1, ChangeCounts DEF Shape
  <2> QED
    BY <2>2, ChangeCounts, HiddenByOne DEF FewHidden, Shape
<1> QED
  BY <1>4, <1>5, <1>6, <1>7, <1>8, <1>9, <1>10

\* A new item is not one of those stored at the start.
LEMMA InsertStep ==
  ASSUME IInv, NEW x \in Items, Insert(x)
  PROVE  IInv'
<1>1. PICK d \in Created, created \in Times, updated \in Times :
          Change(x, [d EXCEPT !.created_at = created, !.updated_at = updated])
  BY DEF Insert
<1>2. [d EXCEPT !.created_at = created, !.updated_at = updated] \in Document
  BY ChangeAssumption DEF Document
<1> QED
  BY <1>1, <1>2, ChangeStep DEF Insert

\* What an update sets has the type of the field.
LEMMA SetType ==
  ASSUME NEW d \in Document, NEW e \in Edits
  PROVE  Set(d, e) \in Document
<1>1. e \in Edit
  BY ChangeAssumption
<1>2. /\ e.name \in Nat \cup {None} /\ e.status \in Status \cup {None}
      /\ e.tags \in (SUBSET Tags) \cup {None}
      /\ e.is_duplicate \in BOOLEAN \cup {None} /\ e.hits \in BOOLEAN \cup {None}
  BY <1>1 DEF Edit
<1> DEFINE Given(value, old) == IF value = None THEN old ELSE value
<1>3. /\ Given(e.name, d.name) \in Nat
      /\ Given(e.status, d.status) \in Status
      /\ Given(e.tags, d.tags) \in SUBSET Tags
      /\ Given(e.is_duplicate, d.is_duplicate) \in BOOLEAN
      /\ Given(e.hits, d.hits) \in BOOLEAN
  BY <1>2 DEF Document
<1>4. Set(d, e) = [d EXCEPT !.name = Given(e.name, d.name),
                           !.status = Given(e.status, d.status),
                           !.tags = Given(e.tags, d.tags),
                           !.is_duplicate = Given(e.is_duplicate, d.is_duplicate),
                           !.hits = Given(e.hits, d.hits)]
  BY DEF Set, Document
<1> HIDE DEF Given
<1> QED
  BY <1>3, <1>4 DEF Document

\* An update may change what is matched and the order, but one item only.
LEMMA UpdateStep ==
  ASSUME IInv, NEW x \in Items, Update(x)
  PROVE  IInv'
<1>1. PICK e \in Edits, now \in Times : Change(x, [Set(doc[x], e) EXCEPT !.updated_at = now])
  BY DEF Update
<1>2. Set(doc[x], e) \in Document
  BY SetType DEF IInv, Shape
<1>3. [Set(doc[x], e) EXCEPT !.updated_at = now] \in Document
  BY <1>2, ChangeAssumption DEF Document
<1> QED
  BY <1>1, <1>3, ChangeStep DEF Update

\* Nothing is left of a deleted item.
LEMMA DeleteStep ==
  ASSUME IInv, NEW x \in Items, Delete(x)
  PROVE  IInv'
<1>1. NoDoc \in Document
  BY DEF NoDoc, Document, Status, StatusOrder
<1> QED
  BY <1>1, ChangeStep DEF Delete

(***************************************************************************)
(* The caller's own steps.                                                  *)
(***************************************************************************)
\* What a quotient says of what was divided.
LEMMA Quotient ==
  ASSUME NEW a \in Nat, NEW b \in Nat \ {0}, NEW q \in Nat, a \div b = q
  PROVE  b * q <= a /\ a < b * (q + 1)
  OBVIOUS

\* A last page covers the total, and there are no more pages than items.
LEMMA PagesCover ==
  ASSUME NEW total \in Nat, NEW page \in Nat \ {0}
  PROVE  /\ page < TotalPages(total) => page + 1 <= total
         /\ ~ (page < TotalPages(total)) => total <= page * PageSize
<1>1. PICK n \in Nat, q \in Nat :
          n = total + PageSize - 1 /\ q = n \div PageSize /\ TotalPages(total) = q
  BY DEF TotalPages, CeilDiv
<1>2. PageSize * q <= n /\ n < PageSize * (q + 1)
  BY <1>1, Quotient
<1>3. ASSUME page < q PROVE page + 1 <= total
  <2>1. (PageSize - 1) * (q - 1) >= 0
    BY <1>3
  <2>2. (PageSize - 1) * (q - 1) = PageSize * q - PageSize - q + 1
    OBVIOUS
  <2>3. PICK m \in Int : m = PageSize * q
    OBVIOUS
  <2>4. total >= q
    BY <1>1, <1>2, <2>1, <2>2, <2>3
  <2> QED
    BY <1>3, <2>4
<1>4. ASSUME q <= page PROVE total <= page * PageSize
  <2>1. PageSize * (q + 1) <= PageSize * (page + 1)
    BY <1>4
  <2>2. PageSize * (page + 1) = page * PageSize + PageSize
    OBVIOUS
  <2>3. PICK m \in Int : m = page * PageSize
    OBVIOUS
  <2>4. n < m + PageSize
    BY <1>2, <2>1, <2>2, <2>3
  <2> QED
    BY <1>1, <2>3, <2>4
<1> QED
  BY <1>1, <1>3, <1>4

\* A count looks at the result as it is.
LEMMA CountStep ==
  ASSUME IInv, Count
  PROVE  IInv'
<1> USE DEF IInv
<1>1. /\ walk.at = "count"
      /\ walk' = [walk EXCEPT !.at = "page", !.total = Cardinality(Result)]
      /\ raced' = 0
      /\ UNCHANGED <<doc, request, seen, touched, twice, left, entered, forward, backward, changes>>
  BY DEF Count, Result
<1>2. Cardinality(Result) \in Nat /\ Cardinality(Result) <= Cardinality(Items)
  BY ResultFinite
<1>3. /\ walk' \in [at : {"count", "page", "done"}, page : Nat \ {0}, total : Nat]
      /\ walk'.at = "page" /\ walk'.page = walk.page /\ walk'.total = Cardinality(Result)
  BY <1>1, <1>2 DEF Shape
<1>4. Shape'
  BY <1>1, <1>3 DEF Shape
<1>5. /\ Result' = Result /\ Untouched' = Untouched /\ Live' = Live
      /\ \A i : Sorted(i)' = Sorted(i) /\ Front(i)' = Front(i) /\ Rank(i)' = Rank(i)
  BY <1>1 DEF Result, Matching, Live, Search, GetFilters, DateRange, Untouched, Sorted,
              SortField, Front, Rank, Precedes, Descending
<1>6. Walked' = Walked
  BY <1>1, <1>3 DEF Walked, Skip
<1>7. Apart' /\ Bounded'
  BY <1>1, <1>5 DEF Apart, Bounded
<1>8. Seen' /\ Counted'
  BY <1>1, <1>2, <1>3, <1>5, <1>6 DEF Seen, Counted
<1>9. Pushed' = Pushed /\ Hidden' = Hidden
  BY <1>1, <1>5, <1>6 DEF Pushed, Hidden
<1>10. FewPushed' /\ FewHidden'
  BY <1>1, <1>9 DEF FewPushed, FewHidden, Descending
<1> QED
  BY <1>4, <1>7, <1>8, <1>10

\* A page shows the untouched items of its ranks: none of them is on it twice
\* that was not pushed, and none in its reach stays unseen that was not hidden.
LEMMA GetPageStep ==
  ASSUME IInv, GetPage
  PROVE  IInv'
<1> USE DEF IInv
<1>1. PICK S \in Page(request, walk.page) :
          seen' = seen \cup S /\ twice' = twice \cup (seen \cap S)
  BY DEF GetPage
<1>2. /\ walk.at = "page"
      /\ UNCHANGED <<doc, request, touched, left, entered, raced, forward, backward, changes>>
  BY DEF GetPage, counts
<1>3. walk.page \in Nat \ {0} /\ walk.total \in Nat
  BY DEF Shape
<1>4. /\ walk' \in [at : {"count", "page", "done"}, page : Nat \ {0}, total : Nat]
      /\ walk'.total = walk.total
      /\ \/ /\ walk.page < TotalPages(walk.total)
            /\ walk'.at = "count" /\ walk'.page = walk.page + 1
         \/ /\ ~ (walk.page < TotalPages(walk.total))
            /\ walk'.at = "done" /\ walk'.page = walk.page
  <2>1. CASE walk.page < TotalPages(walk.total)
    <3>1. walk' = [walk EXCEPT !.at = "count", !.page = walk.page + 1]
      BY <2>1 DEF GetPage
    <3>2. walk.page + 1 \in Nat \ {0}
      BY <1>3
    <3> QED
      BY <2>1, <3>1, <3>2 DEF Shape
  <2>2. CASE ~ (walk.page < TotalPages(walk.total))
    <3>1. walk' = [walk EXCEPT !.at = "done"]
      BY <2>2 DEF GetPage
    <3> QED
      BY <1>3, <2>2, <3>1 DEF Shape
  <2> QED
    BY <2>1, <2>2
<1>5. Walked = Skip(walk.page) /\ Walked' = Walked + PageSize /\ Walked \in Nat
  <2>1. Walked = (walk.page - 1) * PageSize
    BY <1>2 DEF Walked, Skip
  <2>2. Walked' = walk.page * PageSize
    BY <1>3, <1>4 DEF Walked, Skip
  <2>3. walk.page * PageSize = (walk.page - 1) * PageSize + PageSize
    BY <1>3
  <2>4. Walked = Skip(walk.page)
    BY <2>1 DEF Skip
  <2>5. (walk.page - 1) * PageSize \in Nat
    BY <1>3
  <2>6. Walked' = Walked + PageSize
    BY <2>1, <2>2, <2>3
  <2> QED
    BY <2>1, <2>4, <2>5, <2>6
<1>6. /\ S \subseteq Result /\ IsFiniteSet(S) /\ Cardinality(S) \in Nat
      /\ Cardinality(S) <= PageSize
  <2>1. S \subseteq Result
    BY DEF Page, Result
  <2>2. IsFiniteSet(S) /\ Cardinality(S) \in Nat
    BY <2>1, ResultFinite, FS_Subset, FS_CardinalityType
  <2>3. Cardinality(S) = Least(PageSize, Cardinality(Result) -
                                  Least(Skip(walk.page), Cardinality(Result)))
    BY DEF Page, Result
  <2>4. Skip(walk.page) \in Nat /\ Cardinality(Result) \in Nat
    BY <1>5, ResultFinite
  <2> QED
    BY <2>1, <2>2, <2>3, <2>4 DEF Least
<1>7. S \subseteq Items /\ \A i \in S : OrgOf[i] = request.org
  BY <1>6, ResultFinite DEF Result, Matching
<1>8. Shape'
  BY <1>1, <1>2, <1>4, <1>7 DEF Shape
<1>9. /\ Result' = Result /\ Untouched' = Untouched /\ Live' = Live
      /\ \A i : Sorted(i)' = Sorted(i) /\ Front(i)' = Front(i) /\ Rank(i)' = Rank(i)
  BY <1>2 DEF Result, Matching, Live, Search, GetFilters, DateRange, Untouched, Sorted,
              SortField, Front, Rank, Precedes, Descending
<1>10. Apart' /\ Bounded'
  BY <1>2, <1>9 DEF Apart, Bounded
<1>11. Seen'
  <2>1. Cardinality(seen \cup S) <= Walked + PageSize
    <3>1. IsFiniteSet(seen) /\ Cardinality(seen) \in Nat /\ Cardinality(seen) <= Walked
      BY FS_Subset, FS_CardinalityType DEF Shape, Seen
    <3>2. Cardinality(seen \cup S)
            = Cardinality(seen) + Cardinality(S) - Cardinality(seen \cap S)
      BY <1>6, <3>1, FS_Union
    <3>3. Cardinality(seen \cap S) \in Nat
      BY <3>1, FS_Intersection, FS_CardinalityType
    <3> QED
      BY <1>5, <1>6, <3>1, <3>2, <3>3
  <2> QED
    BY <1>1, <1>2, <1>5, <1>6, <1>7, <1>9, <2>1 DEF Seen
<1>12. Counted'
  <2>1. Cardinality(Result) <= walk.total + raced /\ Cardinality(Result) \in Nat
        /\ walk.total <= Cardinality(Items) /\ raced \in Nat /\ Cardinality(Items) \in Nat
    BY <1>2, ResultFinite, FS_CardinalityType DEF Counted, Shape
  <2>2. /\ walk.page < TotalPages(walk.total) => walk.page + 1 <= walk.total
        /\ ~ (walk.page < TotalPages(walk.total)) => walk.total <= walk.page * PageSize
    BY <1>3, PagesCover
  <2>3. walk'.at = "done" => Walked' = walk.page * PageSize
    BY <1>4 DEF Walked
  <2> QED
    BY <1>2, <1>3, <1>4, <1>9, <2>1, <2>2, <2>3 DEF Counted
<1>13. \A i \in Untouched \cap Result :
           i \in S <=> Walked <= Rank(i) /\ Rank(i) < Walked + PageSize
  BY <1>3, <1>5, PageByRank
<1>14. Pushed' \subseteq Pushed
  <2> SUFFICES ASSUME NEW i \in Pushed', i \notin twice PROVE i \in seen \ touched /\ Rank(i) >= Walked
    BY <1>1, <1>2 DEF Pushed, Shape
  <2>1. i \in (seen \cup S) \ touched /\ (i \in seen \cap S \/ Rank(i) >= Walked + PageSize)
    BY <1>1, <1>2, <1>5, <1>9 DEF Pushed
  <2>2. i \in Untouched \cap Result
    BY <1>6, <2>1, ResultFinite DEF Seen, Untouched
  <2> QED
    BY <1>5, <1>13, <2>1, <2>2, ResultFinite
<1>15. Hidden' \subseteq Hidden
  BY <1>1, <1>5, <1>9, <1>13, ResultFinite DEF Hidden
<1>16. Pushed \in SUBSET Items /\ Hidden \in SUBSET Items
  BY DEF Pushed, Hidden, Shape, Untouched
<1>17. /\ Cardinality(Pushed') <= Cardinality(Pushed)
       /\ Cardinality(Hidden') <= Cardinality(Hidden)
       /\ Cardinality(Pushed) \in Nat /\ Cardinality(Pushed') \in Nat
       /\ Cardinality(Hidden) \in Nat /\ Cardinality(Hidden') \in Nat
  <2>1. IsFiniteSet(Pushed) /\ IsFiniteSet(Hidden)
    BY <1>16, FS_Subset
  <2>2. IsFiniteSet(Pushed') /\ IsFiniteSet(Hidden')
        /\ Cardinality(Pushed') <= Cardinality(Pushed)
        /\ Cardinality(Hidden') <= Cardinality(Hidden)
    BY <1>14, <1>15, <2>1, FS_Subset
  <2> QED
    BY <2>1, <2>2, FS_CardinalityType
<1>18. FewPushed' /\ FewHidden'
  BY <1>2, <1>17 DEF FewPushed, FewHidden, Shape
<1> QED
  BY <1>8, <1>10, <1>11, <1>12, <1>18

\* A walk starts before the first page, with nothing seen.
LEMMA IInvInit == Init => IInv
<1> SUFFICES ASSUME Init PROVE IInv
  OBVIOUS
<1>1. PICK d \in StoredDocs : doc = [i \in Items |-> IF i \in Stored THEN d[i] ELSE NoDoc]
  BY DEF Init
<1>2. NoDoc \in Document
  BY DEF NoDoc, Document, Status, StatusOrder
<1>3. doc \in [Items -> Document]
  BY <1>1, <1>2
<1>5. /\ walk = [at |-> "count", page |-> 1, total |-> 0]
      /\ walk.at = "count" /\ walk.page = 1 /\ walk.total = 0
      /\ seen = {} /\ twice = {} /\ request \in Requests /\ left = 0 /\ entered = 0
      /\ raced = 0 /\ forward = 0 /\ backward = 0 /\ changes = 0
  BY DEF Init
<1>6. Shape
  BY <1>3, <1>5 DEF Init, Shape
<1>7. Live \subseteq Stored
  BY <1>1 DEF Live
<1>8. Apart
  BY <1>7 DEF Init, Apart, Untouched, Sorted
<1>9. Walked = 0
  BY <1>5 DEF Walked, Skip
<1>10. Seen
  BY <1>5, <1>7, <1>9, FS_EmptySet DEF Seen
<1>11. Counted
  BY <1>5, FS_CardinalityType DEF Counted
<1>12. Pushed = {}
  BY <1>5 DEF Pushed
<1>13. Hidden = {}
  BY <1>9, ResultFinite DEF Hidden
<1>14. FewPushed /\ FewHidden /\ Bounded
  BY <1>5, <1>12, <1>13, FS_EmptySet DEF FewPushed, FewHidden, Bounded
<1> QED
  BY <1>6, <1>8, <1>10, <1>11, <1>14 DEF IInv

\* Every step keeps the invariant.
LEMMA IInvStep == IInv /\ [Next]_vars => IInv'
<1> SUFFICES ASSUME IInv, [Next]_vars PROVE IInv'
  OBVIOUS
<1>1. CASE UNCHANGED vars
  <2>1. /\ UNCHANGED <<doc, request, walk, seen, touched, twice>>
        /\ UNCHANGED <<left, entered, raced, forward, backward, changes>>
    BY <1>1 DEF vars, counts
  <2>2. Result' = Result /\ Live' = Live /\ Walked' = Walked /\ Untouched' = Untouched
    BY <2>1 DEF Result, Matching, Live, Search, GetFilters, DateRange, Walked, Skip, Untouched
  <2>3. \A i : Sorted(i)' = Sorted(i) /\ Front(i)' = Front(i) /\ Rank(i)' = Rank(i)
    BY <2>1, <2>2 DEF Sorted, SortField, Front, Rank, Precedes, Descending
  <2>4. Pushed' = Pushed /\ Hidden' = Hidden
    BY <2>1, <2>2, <2>3 DEF Pushed, Hidden
  <2>5. Shape' /\ Apart' /\ Seen' /\ Counted' /\ Bounded'
    BY <2>1, <2>2, <2>3 DEF IInv, Shape, Apart, Seen, Counted, Bounded
  <2>6. FewPushed' /\ FewHidden'
    BY <2>1, <2>4 DEF IInv, FewPushed, FewHidden, Descending
  <2> QED
    BY <2>5, <2>6 DEF IInv
<1> QED
  BY <1>1, CountStep, GetPageStep, InsertStep, UpdateStep, DeleteStep DEF Next

\* What the theorems rest on.
THEOREM Inductive == Spec => []IInv
  BY IInvInit, IInvStep, PTL DEF Spec

\* A walk never leaves the organisation, no page is longer than asked for, and
\* the walk ends after at most one page per item (item_repository.py's list and
\* search, common/schemas' pagination).
THEOREM TypeCorrect == Spec => []TypeOK
<1>1. IInv => TypeOK
  <2> SUFFICES ASSUME IInv PROVE TypeOK
    OBVIOUS
  <2>1. /\ walk.at \in {"count", "page", "done"} /\ walk.page \in Nat \ {0}
        /\ walk.page = 1 \/ walk.page <= Cardinality(Items)
        /\ Cardinality(Items) \in Nat /\ Cardinality(seen) <= Walked
    BY FS_CardinalityType DEF IInv, Shape, Counted, Seen
  <2>2. Cardinality(seen) \in Nat
    BY FS_Subset, FS_CardinalityType DEF IInv, Shape
  <2>3. Walked <= walk.page * PageSize /\ Walked \in Nat /\ walk.page * PageSize \in Nat
    <3>1. (walk.page - 1) * PageSize = walk.page * PageSize - PageSize
      BY <2>1
    <3> QED
      BY <2>1, <3>1 DEF Walked, Skip
  <2>4. Cardinality(seen) <= walk.page * PageSize
    BY <2>1, <2>2, <2>3
  <2> QED
    BY <2>1, <2>4 DEF IInv, Shape, Seen, Bounded, TypeOK
<1> QED
  BY <1>1, Inductive, PTL

\* An untouched item is on a second page only if another got in front of it:
\* for any filters, sort key and page size and any interleaving of the walk with
\* creations, updates and deletions, there are at most as many repeats as items
\* that came to match and updates that moved an item toward the front.
THEOREM RepeatsNeedAPush == Spec => []RepeatsArePushed
<1>1. IInv => RepeatsArePushed
  <2> SUFFICES ASSUME IInv PROVE RepeatsArePushed
    OBVIOUS
  <2>1. twice \ touched \subseteq Pushed /\ Pushed \in SUBSET Items
    BY DEF IInv, Shape, Pushed
  <2>2. IsFiniteSet(Pushed) /\ Cardinality(Pushed) \in Nat
    BY <2>1, FS_Subset, FS_CardinalityType
  <2>3. Cardinality(twice \ touched) <= Cardinality(Pushed) /\ Cardinality(twice \ touched) \in Nat
    BY <2>1, <2>2, FS_Subset, FS_CardinalityType
  <2> QED
    BY <2>2, <2>3 DEF IInv, FewPushed, Shape, RepeatsArePushed
<1> QED
  BY <1>1, Inductive, PTL

\* At the end of a walk every item that nobody touched, with a sort key of its
\* own, was on one of the pages, but for at most as many as items left the
\* result, came in after the last count or were moved toward the end by an update.
THEOREM AWalkMissesNoItem == Spec => []WalkMissesNoItem
<1>1. IInv => WalkMissesNoItem
  <2> SUFFICES ASSUME IInv, walk.at = "done"
               PROVE  Cardinality(Missed) <=
                          left + raced + backward
    BY DEF WalkMissesNoItem
  <2> DEFINE Late == {i \in Missed : Rank(i) >= Walked}
  <2>1. Missed \in SUBSET Items /\ Missed \subseteq Untouched \cap Result
    BY DEF Missed, Untouched, Result
  <2>2. Missed \subseteq Hidden \cup Late /\ Walked \in Nat /\ Cardinality(Result) \in Nat
    <3>1. Walked \in Nat
      BY DEF IInv, Shape, Walked, Skip
    <3> QED
      BY <2>1, <3>1, ResultFinite DEF Missed, Hidden
  <2>3. IsFiniteSet(Late) /\ Cardinality(Late) \in Nat
    BY <2>1, FS_Subset, FS_CardinalityType
  <2>4. Cardinality(Late) <= raced
    <3> DEFINE Room == Walked..(Cardinality(Result) - 1)
               f == [i \in Late |-> Rank(i)]
    <3>1. \A i \in Late : Rank(i) \in Room
      <4> SUFFICES ASSUME NEW i \in Late PROVE Rank(i) \in Room
        OBVIOUS
      <4>1. i \in Result /\ i \notin Front(i) /\ Front(i) \subseteq Result
        BY <2>1, ResultFinite, SortedType, PrecedesSorted DEF IInv, Front
      <4>2. Rank(i) <= Cardinality(Result)
            /\ (Cardinality(Result) = Rank(i) => Result = Front(i))
        BY <4>1, ResultFinite, FS_Subset DEF Rank
      <4> QED
        BY <2>2, <4>1, <4>2, ResultFinite
    <3>2. f \in Injection(Late, Room)
      <4>1. f \in [Late -> Room]
        BY <3>1
      <4>2. \A a, b \in Late : Rank(a) = Rank(b) => a = b
        BY <2>1, RanksDiffer DEF IInv
      <4> QED
        BY <4>1, <4>2 DEF Injection, IsInjective
    <3>3. Cardinality(Result) - 1 \in Int /\ Walked \in Int
      BY <2>2
    <3>4. IsFiniteSet(Room)
          /\ Cardinality(Room) = IF Walked > Cardinality(Result) - 1 THEN 0
                                 ELSE Cardinality(Result) - 1 - Walked + 1
      BY <3>3, FS_Interval
    <3>5. Cardinality(Late) <= Cardinality(Room)
      BY <3>2, <3>4, FS_Injection
    <3>6. Cardinality(Result) <= Walked + raced /\ raced \in Nat
      BY DEF IInv, Counted, Shape
    <3> HIDE DEF Room
    <3> QED
      BY <2>2, <2>3, <3>4, <3>5, <3>6
  <2>5. IsFiniteSet(Hidden) /\ Cardinality(Hidden) \in Nat
    <3>1. Hidden \in SUBSET Items
      BY DEF Hidden, Untouched
    <3> QED
      BY <3>1, FS_Subset, FS_CardinalityType
  <2>6. /\ IsFiniteSet(Hidden \cup Late)
        /\ Cardinality(Hidden \cup Late) <= Cardinality(Hidden) + Cardinality(Late)
        /\ Cardinality(Hidden \cup Late) \in Nat
    <3> HIDE DEF Late
    <3>1. IsFiniteSet(Hidden \cup Late)
          /\ Cardinality(Hidden \cup Late)
               = Cardinality(Hidden) + Cardinality(Late) - Cardinality(Hidden \cap Late)
      BY <2>3, <2>5, FS_Union
    <3>2. IsFiniteSet(Hidden \cap Late)
      BY <2>5, FS_Intersection
    <3>3. Cardinality(Hidden \cap Late) \in Nat /\ Cardinality(Hidden \cup Late) \in Nat
      BY <3>1, <3>2, FS_CardinalityType
    <3> QED
      BY <2>3, <2>5, <3>1, <3>3
  <2>7. Cardinality(Missed) <= Cardinality(Hidden \cup Late) /\ Cardinality(Missed) \in Nat
    BY <2>2, <2>6, FS_Subset, FS_CardinalityType
  <2> HIDE DEF Late
  <2> QED
    BY <2>3, <2>4, <2>5, <2>6, <2>7 DEF IInv, FewHidden, Shape
<1> QED
  BY <1>1, Inductive, PTL
=============================================================================
