----------------------------- MODULE TuiProofs -----------------------------
(***************************************************************************)
(* Theorems about Tui, for any batches of contexts, clusters in them,      *)
(* queries and window heights, and messages in any order.                  *)
(***************************************************************************)
EXTENDS Tui, FiniteSetTheorems, FunctionTheorems, SequenceTheorems,
        WellFoundedInduction, TLAPS

(***************************************************************************)
(* What can be listed: contexts of the stores, clusters in their contexts. *)
(***************************************************************************)
Discovered ==
  {<<it.storeID, it.path>> : it \in UNION {Range(b) : b \in Range(Batches)}}
Hosted ==
  UNION {{<<DynamicID(p), q>> : q \in Range(Clusters[p])} :
           p \in DOMAIN Clusters}

ListedItem ==
  {it \in Item : <<it.storeID, it.path>> \in Discovered \cup Hosted}

\* What Update works on: the cursor may be anywhere until it is clamped.
RawModel ==
  [allItems : Seq(ListedItem), filtered : Seq(ListedItem), query : Queries,
   cursor : Int, viewOffset : Nat, listHeight : Heights,
   previewForPath : Paths \cup {NoPath},
   previewContent : (StoreIDs \X Paths) \cup {NoPath},
   loading : BOOLEAN,
   end : {"no", "aborted", "selected", "hangs", "panics"}]

\* The order of the natural numbers is a well-founded relation.
LEMMA LessIsWellFounded ==
  \E R : /\ IsWellFoundedOn(R, Nat)
         /\ \A x, y \in Nat : x < y => <<x, y>> \in R
<1>1. \A x, y \in Nat : x < y => <<x, y>> \in OpToRel(<, Nat)
  BY Zenon DEF OpToRel
<1>2. QED
  BY <1>1, NatLessThanWellFounded, Zenon

\* Sets of numbers are what induction makes them.
LEMMA SetInduction ==
  ASSUME NEW S, 0 \in S, \A n \in Nat : n \in S => n + 1 \in S
  PROVE  Nat \subseteq S
<1> DEFINE T == Nat \ S
<1>1. SUFFICES ASSUME T # {} PROVE FALSE
  OBVIOUS
<1>2. PICK R : /\ IsWellFoundedOn(R, Nat)
               /\ \A x, y \in Nat : x < y => <<x, y>> \in R
  BY LessIsWellFounded
<1>3. T \subseteq Nat
  OBVIOUS
<1> HIDE DEF T
<1>4. T # {} /\ T \subseteq Nat /\ IsWellFoundedOn(R, Nat)
  BY <1>1, <1>2, <1>3
<1>5. PICK x \in T : \A y \in T : ~(<<y, x>> \in R)
  BY <1>4, WFMin, Zenon
<1>6. x \in Nat /\ x # 0 /\ x \notin S
  BY <1>5 DEF T
<1>7. x - 1 \in Nat /\ x - 1 < x /\ x = (x - 1) + 1
  BY <1>6
<1>8. x - 1 \notin T
  BY <1>2, <1>5, <1>6, <1>7
<1>9. QED
  BY <1>6, <1>7, <1>8 DEF T

\* Of the positions in a set there is a first, a second, ... and a last one.
HasRank(S, k) == \E i \in S : Cardinality({j \in S : j <= i}) = k

IsRanked(S) ==
  /\ IsFiniteSet(S) /\ Cardinality(S) \in Nat
  /\ \A k \in 1 .. Cardinality(S) : HasRank(S, k)

\* One more position is the last one.
LEMMA LastRank ==
  ASSUME NEW x \in Nat, NEW Y \in SUBSET (1 .. x), IsRanked(Y)
  PROVE  IsRanked(Y \cup {x + 1})
<1> DEFINE X == Y \cup {x + 1}
<1>1. x + 1 \notin Y /\ \A j \in Y : j \in Nat /\ j < x + 1
  OBVIOUS
<1>2. /\ IsFiniteSet(X) /\ Cardinality(X) = Cardinality(Y) + 1
      /\ Cardinality(Y) \in Nat
  BY <1>1, FS_AddElement DEF IsRanked
<1>3. ASSUME NEW k \in 1 .. Cardinality(Y) PROVE HasRank(X, k)
  <2>1. PICK i \in Y : Cardinality({j \in Y : j <= i}) = k
    BY <1>3 DEF HasRank, IsRanked
  <2>2. {j \in X : j <= i} = {j \in Y : j <= i}
    BY <1>1
  <2>3. QED
    BY <2>1, <2>2 DEF HasRank
<1>4. HasRank(X, Cardinality(X))
  <2>1. \A j \in X : j <= x + 1
    BY <1>1
  <2>2. {j \in X : j <= x + 1} = X
    BY <2>1
  <2>3. x + 1 \in X
    OBVIOUS
  <2> HIDE DEF X
  <2>4. QED
    BY <2>2, <2>3 DEF HasRank
<1> HIDE DEF X
<1>5. \A k \in 1 .. Cardinality(X) :
        k \in 1 .. Cardinality(Y) \/ k = Cardinality(X)
  BY <1>2
<1>6. IsRanked(X)
  BY <1>2, <1>3, <1>4, <1>5 DEF IsRanked
<1>7. QED
  BY <1>6 DEF X

\* By induction over the positions.
LEMMA RankIsThere ==
  ASSUME NEW n \in Nat, NEW S \in SUBSET (1 .. n)
  PROVE  IsRanked(S)
<1> DEFINE G == {x \in Nat : \A X \in SUBSET (1 .. x) : IsRanked(X)}
<1>1. 0 \in G
  <2>1. 1 .. 0 = {}
    OBVIOUS
  <2>2. \A X \in SUBSET (1 .. 0) : X = {}
    BY <2>1
  <2>3. IsFiniteSet({}) /\ Cardinality({}) = 0
    BY FS_EmptySet
  <2>4. IsRanked({})
    BY <2>1, <2>3 DEF IsRanked
  <2>5. QED
    BY <2>2, <2>4
<1>2. ASSUME NEW x \in Nat, x \in G PROVE x + 1 \in G
  <2> SUFFICES ASSUME NEW X \in SUBSET (1 .. x + 1) PROVE IsRanked(X)
    OBVIOUS
  <2>1. X \ {x + 1} \in SUBSET (1 .. x)
    OBVIOUS
  <2>2. IsRanked(X \ {x + 1})
    BY <1>2, <2>1
  <2>3. X = X \ {x + 1} \/ X = (X \ {x + 1}) \cup {x + 1}
    OBVIOUS
  <2>4. IsRanked((X \ {x + 1}) \cup {x + 1})
    BY <2>1, <2>2, LastRank
  <2>5. QED
    BY <2>2, <2>3, <2>4
<1> HIDE DEF G
<1>3. n \in G
  BY <1>1, <1>2, SetInduction
<1>4. QED
  BY <1>3 DEF G

\* The items at some positions are items of the list.
LEMMA ItemsAtAre ==
  ASSUME NEW T, NEW items \in Seq(T), NEW S \in SUBSET (DOMAIN items)
  PROVE  /\ ItemsAt(items, S) \in Seq(T)
         /\ \A k \in DOMAIN ItemsAt(items, S) :
              \E i \in S : ItemsAt(items, S)[k] = items[i]
<1>1. DOMAIN items = 1 .. Len(items) /\ Len(items) \in Nat
  OBVIOUS
<1>2. /\ Cardinality(S) \in Nat
      /\ \A k \in 1 .. Cardinality(S) : HasRank(S, k)
  BY <1>1, RankIsThere DEF IsRanked
<1> DEFINE pos(k) == CHOOSE i \in S : Cardinality({j \in S : j <= i}) = k
<1>3. \A k \in 1 .. Cardinality(S) : pos(k) \in S
  BY <1>2, Zenon DEF HasRank
<1>4. ItemsAt(items, S) = [k \in 1 .. Cardinality(S) |-> items[pos(k)]]
  BY DEF ItemsAt
<1> HIDE DEF pos
<1>5. \A k \in 1 .. Cardinality(S) : items[pos(k)] \in T
  BY <1>1, <1>3
<1>6. QED
  BY <1>2, <1>3, <1>4, <1>5

\* Of two lists with the same paths the same items are kept.
LEMMA ItemsOfSamePaths ==
  ASSUME NEW x \in Seq(Item), NEW y \in Seq(Item), DOMAIN x = DOMAIN y,
         \A i \in DOMAIN x : x[i].path = y[i].path, NEW P
  PROVE  /\ DOMAIN ItemsOf(x, P) = DOMAIN ItemsOf(y, P)
         /\ \A k \in DOMAIN ItemsOf(x, P) :
              ItemsOf(x, P)[k].path = ItemsOf(y, P)[k].path
<1> DEFINE S == {i \in DOMAIN x : x[i].path \in P}
           pos(k) == CHOOSE i \in S : Cardinality({j \in S : j <= i}) = k
<1>1. S = {i \in DOMAIN y : y[i].path \in P}
  OBVIOUS
<1>2. /\ ItemsOf(x, P) = [k \in 1 .. Cardinality(S) |-> x[pos(k)]]
      /\ ItemsOf(y, P) = [k \in 1 .. Cardinality(S) |-> y[pos(k)]]
  <2>1. ItemsOf(x, P) = ItemsAt(x, S)
    BY DEF ItemsOf
  <2>2. ItemsOf(y, P) = ItemsAt(y, S)
    BY <1>1 DEF ItemsOf
  <2> HIDE DEF S
  <2>3. QED
    BY <2>1, <2>2 DEF ItemsAt
<1>3. \A k \in 1 .. Cardinality(S) : HasRank(S, k)
  <2>1. DOMAIN x = 1 .. Len(x) /\ Len(x) \in Nat
    OBVIOUS
  <2>2. S \in SUBSET (1 .. Len(x))
    BY <2>1
  <2> HIDE DEF S
  <2>3. QED
    BY <2>1, <2>2, RankIsThere DEF IsRanked
<1>4. \A k \in 1 .. Cardinality(S) : pos(k) \in S
  BY <1>3, Zenon DEF HasRank
<1> HIDE DEF pos
<1>5. \A k \in 1 .. Cardinality(S) : x[pos(k)].path = y[pos(k)].path
  BY <1>4
<1> HIDE DEF S
<1>6. QED
  BY <1>2, <1>5

\* The filtered list holds items of the list.
LEMMA FilterTyped ==
  ASSUME NEW T, T \subseteq Item, NEW items \in Seq(T), NEW q
  PROVE  FilterItems(q, items) \in Seq(T)
<1>1. \A P : ItemsOf(items, P) \in Seq(T)
  <2> SUFFICES ASSUME NEW P PROVE ItemsOf(items, P) \in Seq(T)
    OBVIOUS
  <2> DEFINE S == {i \in DOMAIN items : items[i].path \in P}
  <2>1. S \in SUBSET (DOMAIN items)
    OBVIOUS
  <2>2. ItemsOf(items, P) = ItemsAt(items, S)
    BY DEF ItemsOf
  <2> HIDE DEF S
  <2>3. QED
    BY <2>1, <2>2, ItemsAtAre
<1>2. ItemsOf(items, Best) \in Seq(T)
        /\ ItemsOf(items, Matching \ Best) \in Seq(T)
  BY <1>1
<1>3. ItemsOf(items, Best) \o ItemsOf(items, Matching \ Best) \in Seq(T)
  BY <1>2, ConcatProperties
<1>4. QED
  BY <1>3 DEF FilterItems

\* Sequences with the same positions are equally long.
LEMMA SameLength ==
  ASSUME NEW S, NEW T, NEW x \in Seq(S), NEW y \in Seq(T),
         DOMAIN x = DOMAIN y
  PROVE  Len(x) = Len(y)
<1>1. /\ DOMAIN x = 1 .. Len(x) /\ DOMAIN y = 1 .. Len(y)
      /\ Len(x) \in Nat /\ Len(y) \in Nat
  OBVIOUS
<1> DEFINE a == Len(x)
           b == Len(y)
<1>2. a \in Nat /\ b \in Nat /\ 1 .. a = 1 .. b
  BY <1>1
<1> HIDE DEF a, b
<1>3. ~(a < b)
  <2>1. a < b => b \in 1 .. b /\ b \notin 1 .. a
    BY <1>2
  <2>2. QED
    BY <1>2, <2>1
<1>4. ~(b < a)
  <2>1. b < a => a \in 1 .. a /\ a \notin 1 .. b
    BY <1>2
  <2>2. QED
    BY <1>2, <2>1
<1>5. a = b
  BY <1>2, <1>3, <1>4
<1>6. QED
  BY <1>5 DEF a, b

\* Of two lists with the same paths the same is found.
LEMMA FilterSamePaths ==
  ASSUME NEW x \in Seq(Item), NEW y \in Seq(Item), DOMAIN x = DOMAIN y,
         \A i \in DOMAIN x : x[i].path = y[i].path, NEW q
  PROVE  /\ Len(FilterItems(q, x)) = Len(FilterItems(q, y))
         /\ \A k \in 1 .. Len(FilterItems(q, x)) :
              FilterItems(q, x)[k].path = FilterItems(q, y)[k].path
<1>1. CASE q = ""
  <2>1. FilterItems(q, x) = x /\ FilterItems(q, y) = y /\ Len(x) = Len(y)
    BY <1>1, SameLength DEF FilterItems
  <2>2. \A k \in 1 .. Len(x) : k \in DOMAIN x
    OBVIOUS
  <2>3. QED
    BY <2>1, <2>2
<1>2. CASE q # ""
  <2> DEFINE a == ItemsOf(x, Best)
             b == ItemsOf(x, Matching \ Best)
             c == ItemsOf(y, Best)
             d == ItemsOf(y, Matching \ Best)
  <2>1. /\ DOMAIN a = DOMAIN c /\ \A k \in DOMAIN a : a[k].path = c[k].path
        /\ DOMAIN b = DOMAIN d /\ \A k \in DOMAIN b : b[k].path = d[k].path
    BY ItemsOfSamePaths
  <2>2. \A z \in Seq(Item) : \A P : ItemsOf(z, P) \in Seq(Item)
    <3> SUFFICES ASSUME NEW z \in Seq(Item), NEW P
                 PROVE  ItemsOf(z, P) \in Seq(Item)
      OBVIOUS
    <3> DEFINE S == {i \in DOMAIN z : z[i].path \in P}
    <3>1. S \in SUBSET (DOMAIN z) /\ ItemsOf(z, P) = ItemsAt(z, S)
      BY DEF ItemsOf
    <3> HIDE DEF S
    <3>2. QED
      BY <3>1, ItemsAtAre
  <2>3. /\ a \in Seq(Item) /\ b \in Seq(Item)
        /\ c \in Seq(Item) /\ d \in Seq(Item)
    BY <2>2
  <2>4. FilterItems(q, x) = a \o b /\ FilterItems(q, y) = c \o d
    BY <1>2 DEF FilterItems
  <2> HIDE DEF a, b, c, d
  <2>5. /\ Len(a) = Len(c) /\ Len(b) = Len(d)
        /\ Len(a) \in Nat /\ Len(b) \in Nat
    BY <2>1, <2>3, SameLength
  <2>6. /\ Len(a \o b) = Len(a) + Len(b)
        /\ \A k \in 1 .. Len(a) + Len(b) :
             (a \o b)[k] = IF k <= Len(a) THEN a[k] ELSE b[k - Len(a)]
    BY <2>3, ConcatProperties
  <2>7. /\ Len(c \o d) = Len(c) + Len(d)
        /\ \A k \in 1 .. Len(c) + Len(d) :
             (c \o d)[k] = IF k <= Len(c) THEN c[k] ELSE d[k - Len(c)]
    BY <2>3, ConcatProperties
  <2>8. /\ \A k \in 1 .. Len(a) : a[k].path = c[k].path
        /\ \A k \in 1 .. Len(b) : b[k].path = d[k].path
    BY <2>1, <2>3
  <2>9. ASSUME NEW k \in 1 .. Len(a) + Len(b)
        PROVE  (a \o b)[k].path = (c \o d)[k].path
    <3>1. CASE k <= Len(a)
      BY <2>5, <2>6, <2>7, <2>8, <3>1
    <3>2. CASE ~(k <= Len(a))
      <4>1. k - Len(a) \in 1 .. Len(b)
        BY <2>5, <3>2
      <4>2. QED
        BY <2>5, <2>6, <2>7, <2>8, <3>2, <4>1
    <3>3. QED
      BY <3>1, <3>2
  <2>10. QED
    BY <2>4, <2>5, <2>6, <2>7, <2>9
<1>3. QED
  BY <1>1, <1>2

\* The loop for the first item of a path.
LEMMA FirstIsThere ==
  ASSUME NEW T, NEW items \in Seq(T), NEW path
  PROVE  /\ FirstAt(items, path) \in 0 .. Len(items)
         /\ FirstAt(items, path) # 0 =>
              items[FirstAt(items, path)].path = path
         /\ (\E i \in 1 .. Len(items) : items[i].path = path) =>
              FirstAt(items, path) # 0
<1> DEFINE I == {i \in 1 .. Len(items) : items[i].path = path}
<1>1. FirstAt(items, path) = IF I # {} THEN Min(I) ELSE 0
  BY DEF FirstAt, SelectInSeq
<1>2. I # {} => Min(I) \in I
  <2> SUFFICES ASSUME I # {} PROVE Min(I) \in I
    OBVIOUS
  <2>1. I \subseteq Nat
    OBVIOUS
  <2> HIDE DEF I
  <2>2. PICK R : /\ IsWellFoundedOn(R, Nat)
                 /\ \A x, y \in Nat : x < y => <<x, y>> \in R
    BY LessIsWellFounded
  <2>3. I # {} /\ I \subseteq Nat /\ IsWellFoundedOn(R, Nat)
    BY <2>1, <2>2
  <2>4. PICK x \in I : \A y \in I : ~(<<y, x>> \in R)
    BY <2>3, WFMin, Zenon
  <2>5. ASSUME NEW y \in I PROVE x <= y
    <3>1. x \in Nat /\ y \in Nat
      BY <2>1
    <3>2. ~(y < x)
      BY <2>2, <2>4, <3>1
    <3>3. QED
      BY <3>1, <3>2
  <2>6. QED
    BY <2>5 DEF Min
<1>3. QED
  BY <1>1, <1>2

-----------------------------------------------------------------------------
(***************************************************************************)
(* The helpers of Update.                                                  *)
(***************************************************************************)
Same(x, y) ==
  /\ x.allItems = y.allItems /\ x.filtered = y.filtered
  /\ x.query = y.query /\ x.listHeight = y.listHeight
  /\ x.previewForPath = y.previewForPath
  /\ x.previewContent = y.previewContent
  /\ x.loading = y.loading /\ x.end = y.end

InRange(mod) == mod.filtered # <<>> => mod.cursor < Len(mod.filtered)

Current(mod) == mod.filtered = FilterItems(mod.query, mod.allItems)

\* A model in which nobody looks at the wrong item.
Good == {mod \in RawModel : mod.cursor \in Nat /\ InRange(mod) /\ Current(mod)}

\* The fields of a model.
LEMMA RawFields ==
  ASSUME NEW mod \in RawModel
  PROVE  /\ mod.allItems \in Seq(ListedItem)
         /\ mod.filtered \in Seq(ListedItem)
         /\ mod.query \in Queries
         /\ mod.cursor \in Int
         /\ mod.viewOffset \in Nat
         /\ mod.listHeight \in Heights
         /\ mod.listHeight \in Nat \ {0}
         /\ mod.previewForPath \in Paths \cup {NoPath}
         /\ mod.previewContent \in (StoreIDs \X Paths) \cup {NoPath}
         /\ mod.loading \in BOOLEAN
         /\ mod.end \in {"no", "aborted", "selected", "hangs", "panics"}
<1>1. Heights \subseteq Nat \ {0}
  BY TuiAssumption
<1>2. mod.listHeight \in Heights
  BY DEF RawModel
<1>3. QED
  BY <1>1, <1>2 DEF RawModel

\* What is found is current.
LEMMA FilterMakesCurrent ==
  ASSUME NEW mod \in RawModel
  PROVE  /\ Filter(mod) \in RawModel /\ Current(Filter(mod))
         /\ Filter(mod) = [mod EXCEPT !.filtered =
                              FilterItems(mod.query, mod.allItems)]
<1>1. FilterItems(mod.query, mod.allItems) \in Seq(ListedItem)
  <2>1. ListedItem \subseteq Item /\ mod.allItems \in Seq(ListedItem)
    BY DEF ListedItem, RawModel
  <2>2. QED
    BY <2>1, FilterTyped
<1>2. QED
  BY <1>1 DEF Filter, RawModel, Current

\* A clamped cursor is in the list, if there is one.
LEMMA ClampMakesGood ==
  ASSUME NEW mod \in RawModel, Current(mod)
  PROVE  ClampCursor(mod) \in Good /\ Same(ClampCursor(mod), mod)
<1> DEFINE new == ClampCursor(mod)
           len == Len(mod.filtered)
           c == IF len = 0 THEN 0
                ELSE Lesser(Greater(mod.cursor, 0), len - 1)
           v == IF len = 0 THEN 0
                ELSE Lesser(mod.viewOffset, Greater(len - mod.listHeight, 0))
<1>1. /\ mod.cursor \in Int /\ mod.viewOffset \in Nat
      /\ mod.listHeight \in Nat /\ mod.filtered \in Seq(ListedItem)
  BY RawFields
<1>2. len \in Nat /\ (mod.filtered # <<>> => len > 0)
  BY <1>1
<1>3. new = [mod EXCEPT !.cursor = c, !.viewOffset = v]
  BY DEF ClampCursor
<1> HIDE DEF len, new
<1>4. c \in Nat /\ v \in Nat /\ (len > 0 => c < len)
  BY <1>1, <1>2 DEF Lesser, Greater
<1> HIDE DEF c, v
<1> DEFINE x == [mod EXCEPT !.cursor = c]
<1>5. x \in RawModel /\ Same(x, mod) /\ x.cursor = c
  BY <1>4 DEF RawModel, Same
<1>6. new = [x EXCEPT !.viewOffset = v]
  BY <1>3
<1> HIDE DEF x
<1>7. new \in RawModel
  BY <1>4, <1>5, <1>6 DEF RawModel
<1>8. Same(new, x) /\ new.cursor = x.cursor
  BY <1>5, <1>6 DEF RawModel, Same
<1>9. Same(new, mod) /\ new.cursor = c
  BY <1>5, <1>8 DEF Same
<1>10. QED
  BY <1>2, <1>4, <1>7, <1>9 DEF Good, Same, InRange, Current, len, new

\* Scrolling leaves the cursor where it is.
LEMMA ScrollKeepsGood ==
  ASSUME NEW mod \in Good
  PROVE  ScrollIntoView(mod) \in Good /\ Same(ScrollIntoView(mod), mod)
<1> DEFINE v == Greater(Lesser(mod.viewOffset, mod.cursor),
                        mod.cursor - mod.listHeight + 1)
<1>1. mod.viewOffset \in Nat /\ mod.cursor \in Nat /\ mod.listHeight \in Nat
  BY RawFields DEF Good
<1>2. v \in Nat
  BY <1>1 DEF Lesser, Greater
<1>3. ScrollIntoView(mod) = [mod EXCEPT !.viewOffset = v]
  BY DEF ScrollIntoView
<1> HIDE DEF v
<1>4. /\ [mod EXCEPT !.viewOffset = v] \in RawModel
      /\ Same([mod EXCEPT !.viewOffset = v], mod)
      /\ [mod EXCEPT !.viewOffset = v].cursor = mod.cursor
  BY <1>2 DEF Good, RawModel, Same
<1>5. QED
  BY <1>1, <1>3, <1>4 DEF Good, Same, InRange, Current

\* The fields that the previews depend on are left alone.
SamePreview(x, y) ==
  /\ x.previewForPath = y.previewForPath
  /\ x.previewContent = y.previewContent
  /\ x.listHeight = y.listHeight

\* An item stays where it is in the tree.
Stays(y, x) == y.path = x.path /\ y.parentPath = x.parentPath

Unmoved(y, x) == Stays(y, x) /\ y.expanded = x.expanded

\* The items with a path are marked as loading or not ...
IsLit(y, x, path, l) ==
  /\ Len(y) = Len(x)
  /\ \A i \in 1 .. Len(x) :
       /\ x[i].path = path => Unmoved(y[i], x[i]) /\ y[i].isLoading = l
       /\ x[i].path # path => y[i] = x[i]

\* ... or, no longer loading, as expanded or not.
IsOpened(y, x, path, e) ==
  /\ Len(y) = Len(x)
  /\ \A i \in 1 .. Len(x) :
       /\ x[i].path = path => /\ Stays(y[i], x[i])
                             /\ y[i].isLoading = FALSE
                             /\ y[i].expanded = e
       /\ x[i].path # path => y[i] = x[i]

\* The marks of an item do not change what it stands for.
LEMMA MarkedItem ==
  ASSUME NEW it \in ListedItem, NEW l \in BOOLEAN, NEW e \in BOOLEAN
  PROVE  /\ [it EXCEPT !.isLoading = l] \in ListedItem
         /\ Unmoved([it EXCEPT !.isLoading = l], it)
         /\ [it EXCEPT !.isLoading = l].isLoading = l
         /\ [it EXCEPT !.expanded = e] \in ListedItem
         /\ Stays([it EXCEPT !.expanded = e], it)
         /\ [it EXCEPT !.expanded = e].expanded = e
         /\ [it EXCEPT !.expanded = e].isLoading = it.isLoading
         /\ [it EXCEPT !.expandedEmpty = e] \in ListedItem
         /\ Unmoved([it EXCEPT !.expandedEmpty = e], it)
         /\ [it EXCEPT !.expandedEmpty = e].isLoading = it.isLoading
BY DEF ListedItem, Item, Unmoved, Stays

\* A list of as many items.
LEMMA ListOf ==
  ASSUME NEW T, NEW items \in Seq(T), NEW F(_),
         \A i \in DOMAIN items : F(i) \in T
  PROVE  [i \in DOMAIN items |-> F(i)] \in Seq(T)
<1>1. DOMAIN items = 1 .. Len(items) /\ Len(items) \in Nat
  OBVIOUS
<1>2. QED
  BY <1>1

\* A model with other items.
LEMMA WithItems ==
  ASSUME NEW mod \in RawModel, NEW list \in Seq(ListedItem)
  PROVE  LET new == [mod EXCEPT !.allItems = list]
         IN  /\ new \in RawModel
             /\ new.allItems = list
             /\ new.filtered = mod.filtered
             /\ new.query = mod.query
             /\ new.cursor = mod.cursor
             /\ new.viewOffset = mod.viewOffset
             /\ new.loading = mod.loading
             /\ new.end = mod.end
             /\ SamePreview(new, mod)
BY DEF RawModel, SamePreview

\* Finding again changes the filtered list only.
LEMMA FilterLeaves ==
  ASSUME NEW mod \in RawModel
  PROVE  /\ Filter(mod) \in RawModel
         /\ Current(Filter(mod))
         /\ Filter(mod).allItems = mod.allItems
         /\ Filter(mod).filtered = FilterItems(mod.query, mod.allItems)
         /\ Filter(mod).query = mod.query
         /\ Filter(mod).cursor = mod.cursor
         /\ Filter(mod).end = mod.end
         /\ SamePreview(Filter(mod), mod)
<1>1. /\ Filter(mod) \in RawModel /\ Current(Filter(mod))
      /\ Filter(mod) = [mod EXCEPT !.filtered =
                           FilterItems(mod.query, mod.allItems)]
  BY FilterMakesCurrent
<1>2. QED
  BY <1>1 DEF RawModel, SamePreview

\* Items that are marked are found as before.
LEMMA FilterMarked ==
  ASSUME NEW mod \in Good, NEW list \in Seq(ListedItem),
         DOMAIN list = DOMAIN mod.allItems,
         \A i \in DOMAIN list : list[i].path = mod.allItems[i].path
  PROVE  LET new == Filter([mod EXCEPT !.allItems = list])
         IN  /\ new \in Good
             /\ Len(new.filtered) = Len(mod.filtered)
             /\ \A k \in 1 .. Len(mod.filtered) :
                  new.filtered[k].path = mod.filtered[k].path
             /\ new.cursor = mod.cursor
             /\ new.end = mod.end
             /\ new.allItems = list
             /\ SamePreview(new, mod)
<1> DEFINE x == [mod EXCEPT !.allItems = list]
           new == Filter(x)
<1>1. mod \in RawModel /\ mod.cursor \in Nat /\ InRange(mod) /\ Current(mod)
  BY DEF Good
<1>2. /\ x \in RawModel /\ x.allItems = list /\ x.query = mod.query
      /\ x.cursor = mod.cursor /\ x.end = mod.end /\ SamePreview(x, mod)
  BY <1>1, WithItems
<1> HIDE DEF x
<1>3. /\ new \in RawModel /\ Current(new)
      /\ new.filtered = FilterItems(mod.query, list)
      /\ new.cursor = mod.cursor /\ new.end = mod.end
      /\ new.allItems = list /\ SamePreview(new, x)
  BY <1>2, FilterLeaves
<1> HIDE DEF new
<1>4. SamePreview(new, mod)
  BY <1>2, <1>3 DEF SamePreview
<1>5. mod.filtered = FilterItems(mod.query, mod.allItems)
  BY <1>1 DEF Current
<1>6. list \in Seq(Item) /\ mod.allItems \in Seq(Item)
  <2>1. ListedItem \subseteq Item /\ mod.allItems \in Seq(ListedItem)
    BY <1>1 DEF ListedItem, RawModel
  <2>2. QED
    BY <2>1
<1>7. /\ Len(new.filtered) = Len(mod.filtered)
      /\ \A k \in 1 .. Len(mod.filtered) :
           new.filtered[k].path = mod.filtered[k].path
  BY <1>3, <1>5, <1>6, FilterSamePaths
<1>8. InRange(new)
  <2>1. new.filtered \in Seq(ListedItem) /\ mod.filtered \in Seq(ListedItem)
    BY <1>1, <1>3, RawFields
  <2>2. new.filtered # <<>> => mod.filtered # <<>>
    BY <1>7, <2>1
  <2>3. QED
    BY <1>1, <1>3, <1>7, <2>2 DEF InRange
<1>9. new \in Good
  BY <1>1, <1>3, <1>8 DEF Good
<1>10. QED
  BY <1>3, <1>4, <1>7, <1>9 DEF new, x

\* The start of an expansion leaves all paths in place.
LEMMA MarkLoadingIsGood ==
  ASSUME NEW mod \in Good, NEW path
  PROVE  LET new == MarkLoading(mod, path)
         IN  /\ new \in Good
             /\ Len(new.filtered) = Len(mod.filtered)
             /\ \A k \in 1 .. Len(mod.filtered) :
                  new.filtered[k].path = mod.filtered[k].path
             /\ new.cursor = mod.cursor
             /\ new.end = mod.end
             /\ IsLit(new.allItems, mod.allItems, path, TRUE)
             /\ SamePreview(new, mod)
<1> DEFINE items == mod.allItems
           F(i) == IF items[i].path = path
                   THEN [items[i] EXCEPT !.isLoading = TRUE] ELSE items[i]
           list == [i \in DOMAIN items |-> F(i)]
<1>1. items \in Seq(ListedItem)
  BY RawFields DEF Good
<1>2. MarkLoading(mod, path) = Filter([mod EXCEPT !.allItems = list])
  BY DEF MarkLoading, Mark
<1> HIDE DEF items
<1>3. ASSUME NEW i \in DOMAIN items
      PROVE  /\ F(i) \in ListedItem /\ F(i).path = items[i].path
             /\ items[i].path # path => F(i) = items[i]
             /\ items[i].path = path => /\ Unmoved(F(i), items[i])
                                       /\ F(i).isLoading = TRUE
  <2> DEFINE it == items[i]
             x == [it EXCEPT !.isLoading = TRUE]
  <2>1. it \in ListedItem
    BY <1>1
  <2>2. x \in ListedItem /\ Unmoved(x, it) /\ x.isLoading = TRUE
    BY <2>1, MarkedItem
  <2>3. F(i) = IF it.path = path THEN x ELSE it
    OBVIOUS
  <2> HIDE DEF x, F
  <2>4. QED
    BY <2>1, <2>2, <2>3 DEF Unmoved, Stays
<1> HIDE DEF F
<1>4. list \in Seq(ListedItem)
  <2>1. \A i \in DOMAIN items : F(i) \in ListedItem
    BY <1>3
  <2>2. QED
    BY <1>1, <2>1, ListOf
<1>5. /\ DOMAIN list = DOMAIN items
      /\ \A i \in DOMAIN list : list[i].path = items[i].path
  BY <1>3
<1>6. IsLit(list, items, path, TRUE)
  <2>1. \A i \in 1 .. Len(items) : i \in DOMAIN items /\ list[i] = F(i)
    BY <1>1
  <2>2. Len(list) = Len(items)
    BY <1>1, <1>4, <1>5, SameLength
  <2> HIDE DEF list
  <2>3. QED
    BY <1>3, <2>1, <2>2 DEF IsLit
<1> HIDE DEF list
<1> DEFINE new == Filter([mod EXCEPT !.allItems = list])
<1> USE DEF items
<1>7. /\ new \in Good
      /\ Len(new.filtered) = Len(mod.filtered)
      /\ \A k \in 1 .. Len(mod.filtered) :
           new.filtered[k].path = mod.filtered[k].path
      /\ new.cursor = mod.cursor /\ new.end = mod.end
      /\ new.allItems = list /\ SamePreview(new, mod)
  BY <1>4, <1>5, FilterMarked
<1> HIDE DEF new, items
<1>8. IsLit(new.allItems, items, path, TRUE)
  BY <1>6, <1>7
<1>9. QED
  BY <1>2, <1>7, <1>8 DEF new, items

\* An expansion that finds nothing leaves all paths in place.
LEMMA ApplyNoneIsGood ==
  ASSUME NEW mod \in Good, NEW path, NEW err \in BOOLEAN
  PROVE  LET new == ApplyNone(mod, path, err)
         IN  /\ new \in Good /\ new.end = mod.end /\ SamePreview(new, mod)
             /\ IsLit(new.allItems, mod.allItems, path, FALSE)
<1> DEFINE items == mod.allItems
           F(i) == IF items[i].path = path
                   THEN [items[i] EXCEPT !.isLoading = FALSE,
                                         !.expandedEmpty = @ \/ ~err]
                   ELSE items[i]
           list == [i \in DOMAIN items |-> F(i)]
<1>1. items \in Seq(ListedItem)
  BY RawFields DEF Good
<1>2. ApplyNone(mod, path, err) = Filter([mod EXCEPT !.allItems = list])
  BY DEF ApplyNone, Mark
<1> HIDE DEF items
<1>3. ASSUME NEW i \in DOMAIN items
      PROVE  /\ F(i) \in ListedItem /\ F(i).path = items[i].path
             /\ items[i].path # path => F(i) = items[i]
             /\ items[i].path = path => /\ Unmoved(F(i), items[i])
                                       /\ F(i).isLoading = FALSE
  <2> DEFINE it == items[i]
             x == [it EXCEPT !.isLoading = FALSE]
             e == it.expandedEmpty \/ ~err
             y == [x EXCEPT !.expandedEmpty = e]
  <2>1. it \in ListedItem
    BY <1>1
  <2>2. x \in ListedItem /\ Unmoved(x, it) /\ x.isLoading = FALSE
    BY <2>1, MarkedItem
  <2>3. e \in BOOLEAN
    BY Zenon
  <2>4. F(i) = IF it.path = path THEN y ELSE it
    OBVIOUS
  <2> HIDE DEF x, e, F
  <2>5. y \in ListedItem /\ Unmoved(y, x) /\ y.isLoading = x.isLoading
    BY <2>2, <2>3, MarkedItem
  <2> HIDE DEF y
  <2>6. QED
    BY <2>1, <2>2, <2>4, <2>5 DEF Unmoved, Stays
<1> HIDE DEF F
<1>4. list \in Seq(ListedItem)
  <2>1. \A i \in DOMAIN items : F(i) \in ListedItem
    BY <1>3
  <2>2. QED
    BY <1>1, <2>1, ListOf
<1>5. /\ DOMAIN list = DOMAIN items
      /\ \A i \in DOMAIN list : list[i].path = items[i].path
  BY <1>3
<1>6. IsLit(list, items, path, FALSE)
  <2>1. \A i \in 1 .. Len(items) : i \in DOMAIN items /\ list[i] = F(i)
    BY <1>1
  <2>2. Len(list) = Len(items)
    BY <1>1, <1>4, <1>5, SameLength
  <2> HIDE DEF list
  <2>3. QED
    BY <1>3, <2>1, <2>2 DEF IsLit
<1> HIDE DEF list
<1> DEFINE new == Filter([mod EXCEPT !.allItems = list])
<1> USE DEF items
<1>7. /\ new \in Good
      /\ Len(new.filtered) = Len(mod.filtered)
      /\ \A k \in 1 .. Len(mod.filtered) :
           new.filtered[k].path = mod.filtered[k].path
      /\ new.cursor = mod.cursor /\ new.end = mod.end
      /\ new.allItems = list /\ SamePreview(new, mod)
  BY <1>4, <1>5, FilterMarked
<1> HIDE DEF new, items
<1>8. IsLit(new.allItems, items, path, FALSE)
  BY <1>6, <1>7
<1>9. QED
  BY <1>2, <1>7, <1>8 DEF new, items

\* The clusters found in a context can be listed.
LEMMA ChildrenListed ==
  ASSUME NEW path \in Paths
  PROVE  Children(path) \in Seq(ListedItem)
<1>1. Clusters \in [Paths -> Seq(Paths)] /\ NoPath \notin Paths
  BY TuiAssumption
<1> DEFINE found == Clusters[path]
           F(i) == [TopLevel(found[i], DynamicID(path))
                      EXCEPT !.parentPath = path]
<1>2. found \in Seq(Paths)
  BY <1>1
<1>3. Children(path) = [i \in DOMAIN found |-> F(i)]
  BY DEF Children
<1>4. DynamicID(path) \in AnyID
  BY DEF AnyID
<1>5. ASSUME NEW i \in DOMAIN found PROVE F(i) \in ListedItem
  <2>1. found[i] \in Paths
    BY <1>2
  <2>2. <<DynamicID(path), found[i]>> \in Hosted
    <3>1. found[i] \in Range(found)
      BY <1>2 DEF Range
    <3>2. path \in DOMAIN Clusters
      BY <1>1
    <3>3. QED
      BY <3>1, <3>2 DEF Hosted
  <2> HIDE DEF found
  <2>3. F(i) \in Item /\ F(i).storeID = DynamicID(path) /\ F(i).path = found[i]
    BY <1>4, <2>1 DEF TopLevel, Item
  <2>4. QED
    BY <2>2, <2>3 DEF ListedItem
<1> HIDE DEF F, found
<1>6. DOMAIN found = 1 .. Len(found) /\ Len(found) \in Nat
  BY <1>2
<1>7. QED
  BY <1>3, <1>5, <1>6

\* Clusters are inserted into the list.
LEMMA InsertListed ==
  ASSUME NEW items \in Seq(ListedItem), NEW path \in Paths
  PROVE  Insert(items, path) \in Seq(ListedItem)
<1> DEFINE at == FirstAt(items, path)
<1>1. at \in 0 .. Len(items)
  BY FirstIsThere
<1>2. Insert(items, path)
        = IF at = 0 THEN items \o Children(path)
          ELSE SubSeq(items, 1, at - 1) \o Children(path)
               \o SubSeq(items, at, Len(items))
  BY DEF Insert
<1>3. Children(path) \in Seq(ListedItem)
  BY ChildrenListed
<1> HIDE DEF at
<1>4. ASSUME at # 0
      PROVE  /\ SubSeq(items, 1, at - 1) \in Seq(ListedItem)
             /\ SubSeq(items, at, Len(items)) \in Seq(ListedItem)
  <2>1. \A j \in 1 .. at - 1 : items[j] \in ListedItem
    BY <1>1
  <2>2. \A j \in at .. Len(items) : items[j] \in ListedItem
    BY <1>1, <1>4
  <2>3. QED
    BY <1>1, <1>4, <2>1, <2>2, SubSeqProperties
<1>5. QED
  BY <1>1, <1>2, <1>3, <1>4, ConcatProperties

\* Finding again and clamping the cursor makes any model good.
LEMMA ClampFilterIsGood ==
  ASSUME NEW mod \in RawModel
  PROVE  LET new == ClampCursor(Filter(mod))
         IN  /\ new \in Good /\ new.end = mod.end /\ SamePreview(new, mod)
             /\ new.allItems = mod.allItems
<1> DEFINE x == Filter(mod)
           new == ClampCursor(x)
<1>1. /\ x \in RawModel /\ Current(x) /\ x.end = mod.end
      /\ SamePreview(x, mod) /\ x.allItems = mod.allItems
  BY FilterLeaves
<1> HIDE DEF x
<1>2. new \in Good /\ Same(new, x)
  BY <1>1, ClampMakesGood
<1> HIDE DEF new
<1>3. /\ new \in Good /\ new.end = mod.end /\ SamePreview(new, mod)
      /\ new.allItems = mod.allItems
  BY <1>1, <1>2 DEF Same, SamePreview
<1>4. QED
  BY <1>3 DEF new, x

\* The loop of isDescendant ends for an item.
Ends(items, path, it) ==
  it.path = path \/ Walk(items, path, it) \in {path, NoPath}

\* A collapsed context is found again; its descendants are not.
LEMMA CollapseIsGood ==
  ASSUME NEW mod \in Good, mod.end = "no", NEW path
  PROVE  LET new == CollapseItem(mod, path)
             kept == ItemsAt(mod.allItems, Kept(mod.allItems, path))
         IN  /\ new \in Good /\ new.end \in {"no", "hangs"}
             /\ SamePreview(new, mod)
             /\ IF \A i \in DOMAIN mod.allItems :
                     Ends(mod.allItems, path, mod.allItems[i])
                THEN /\ new.end = "no"
                     /\ IsOpened(new.allItems, kept, path, FALSE)
                ELSE new.allItems = mod.allItems
<1> DEFINE ends == \A i \in DOMAIN mod.allItems :
                     Ends(mod.allItems, path, mod.allItems[i])
           kept == ItemsAt(mod.allItems, Kept(mod.allItems, path))
           F(i) == IF kept[i].path = path
                   THEN [kept[i] EXCEPT !.expanded = FALSE,
                                        !.isLoading = FALSE]
                   ELSE kept[i]
           list == [i \in DOMAIN kept |-> F(i)]
           x == [mod EXCEPT !.allItems = kept]
           y == [x EXCEPT !.allItems = list]
           hung == [mod EXCEPT !.end = "hangs"]
<1>0. mod \in RawModel /\ mod.allItems \in Seq(ListedItem)
  BY RawFields DEF Good
<1>1. kept \in Seq(ListedItem)
  <2>1. Kept(mod.allItems, path) \in SUBSET (DOMAIN mod.allItems)
    BY DEF Kept
  <2>2. QED
    BY <1>0, <2>1, ItemsAtAre
<1>2. CollapseItem(mod, path) = IF ends THEN ClampCursor(Filter(y)) ELSE hung
  <2>1. x.allItems = kept
    BY <1>0 DEF RawModel
  <2>2. Mark(x, path, LAMBDA it : [it EXCEPT !.expanded = FALSE,
                                             !.isLoading = FALSE]) = y
    BY <2>1 DEF Mark
  <2>3. QED
    BY <2>2 DEF CollapseItem, Ends
<1> HIDE DEF ends, kept
<1>3. ASSUME NEW i \in DOMAIN kept
      PROVE  /\ F(i) \in ListedItem
             /\ kept[i].path # path => F(i) = kept[i]
             /\ kept[i].path = path => /\ Stays(F(i), kept[i])
                                      /\ F(i).isLoading = FALSE
                                      /\ F(i).expanded = FALSE
  <2> DEFINE it == kept[i]
             u == [it EXCEPT !.expanded = FALSE]
             v == [u EXCEPT !.isLoading = FALSE]
  <2>1. it \in ListedItem
    BY <1>1
  <2>2. u \in ListedItem /\ Stays(u, it) /\ u.expanded = FALSE
    BY <2>1, MarkedItem
  <2>3. F(i) = IF it.path = path THEN v ELSE it
    OBVIOUS
  <2> HIDE DEF u, F
  <2>4. v \in ListedItem /\ Unmoved(v, u) /\ v.isLoading = FALSE
    BY <2>2, MarkedItem
  <2> HIDE DEF v
  <2>5. QED
    BY <2>1, <2>2, <2>3, <2>4 DEF Unmoved, Stays
<1> HIDE DEF F
<1>4. list \in Seq(ListedItem) /\ IsOpened(list, kept, path, FALSE)
  <2>1. \A i \in DOMAIN kept : F(i) \in ListedItem
    BY <1>3
  <2>2. list \in Seq(ListedItem) /\ DOMAIN list = DOMAIN kept
    BY <1>1, <2>1, ListOf
  <2>3. \A i \in 1 .. Len(kept) : i \in DOMAIN kept /\ list[i] = F(i)
    BY <1>1
  <2>4. Len(list) = Len(kept)
    BY <1>1, <2>2, SameLength
  <2> HIDE DEF list
  <2>5. QED
    BY <1>3, <2>2, <2>3, <2>4 DEF IsOpened
<1> HIDE DEF list
<1>5. x \in RawModel /\ x.end = mod.end /\ SamePreview(x, mod)
  BY <1>0, <1>1, WithItems
<1> HIDE DEF x
<1>6. /\ y \in RawModel /\ y.end = x.end /\ SamePreview(y, x)
      /\ y.allItems = list
  BY <1>4, <1>5, WithItems
<1> HIDE DEF y
<1> DEFINE c == ClampCursor(Filter(y))
<1>7. /\ c \in Good /\ c.end = "no" /\ SamePreview(c, mod)
      /\ IsOpened(c.allItems, kept, path, FALSE)
  <2>1. /\ c \in Good /\ c.end = y.end /\ SamePreview(c, y)
        /\ c.allItems = y.allItems
    BY <1>6, ClampFilterIsGood
  <2> HIDE DEF c
  <2>2. SamePreview(c, mod) /\ c.end = "no" /\ c.allItems = list
    BY <1>5, <1>6, <2>1 DEF SamePreview
  <2>3. QED
    BY <1>4, <2>1, <2>2
<1>8. /\ hung \in Good /\ hung.end = "hangs" /\ SamePreview(hung, mod)
      /\ hung.allItems = mod.allItems
  BY <1>0 DEF Good, RawModel, SamePreview, InRange, Current
<1> HIDE DEF hung, c
<1>9. CollapseItem(mod, path) = IF ends THEN c ELSE hung
  BY <1>2 DEF c
<1>10. QED
  BY <1>7, <1>8, <1>9 DEF ends, kept

\* The cursor is set to an item that is there.
LEMMA MoveToIsGood ==
  ASSUME NEW mod \in Good, NEW path
  PROVE  LET new == MoveTo(mod, path)
         IN  /\ new \in Good /\ new.end = mod.end /\ SamePreview(new, mod)
             /\ new.allItems = mod.allItems
<1> DEFINE at == FirstAt(mod.filtered, path)
           x == [mod EXCEPT !.cursor = at - 1]
<1>1. MoveTo(mod, path) = IF at = 0 THEN mod ELSE ScrollIntoView(x)
  BY DEF MoveTo
<1>2. mod \in RawModel /\ mod.filtered \in Seq(ListedItem)
  BY RawFields DEF Good
<1>3. at \in 0 .. Len(mod.filtered)
  BY <1>2, FirstIsThere
<1> HIDE DEF at
<1>4. CASE at = 0
  BY <1>1, <1>4 DEF SamePreview
<1>5. CASE at # 0
  <2>1. at - 1 \in Nat /\ at - 1 < Len(mod.filtered)
    BY <1>2, <1>3, <1>5
  <2>2. x \in RawModel /\ Same(x, mod) /\ x.cursor = at - 1
    BY <1>2, <2>1 DEF RawModel, Same
  <2> HIDE DEF x
  <2>3. x \in Good
    BY <2>1, <2>2 DEF Good, InRange, Current, Same
  <2>4. ScrollIntoView(x) \in Good /\ Same(ScrollIntoView(x), x)
    BY <2>3, ScrollKeepsGood
  <2>5. QED
    BY <1>1, <1>5, <2>2, <2>4 DEF Same, SamePreview
<1>6. QED
  BY <1>4, <1>5

\* Clusters are listed, and the cursor moves with them.
LEMMA ApplyChildrenIsGood ==
  ASSUME NEW mod \in Good, NEW path \in Paths
  PROVE  LET new == ApplyChildren(mod, path)
         IN  /\ new \in Good /\ new.end = mod.end /\ SamePreview(new, mod)
             /\ \E list \in Seq(ListedItem) :
                  /\ IsOpened(list, mod.allItems, path, TRUE)
                  /\ new.allItems = Insert(list, path)
<1> DEFINE items == mod.allItems
           F(i) == IF items[i].path = path
                   THEN [items[i] EXCEPT !.isLoading = FALSE,
                                         !.expanded = TRUE]
                   ELSE items[i]
           list == [i \in DOMAIN items |-> F(i)]
           more == Insert(list, path)
           at == FirstAt(items, path)
           c == at - 2 + Len(Clusters[path])
           x == [mod EXCEPT !.allItems = list]
           y == [x EXCEPT !.allItems = more]
           g == Filter(y)
           h == [g EXCEPT !.cursor = c]
<1>1. mod \in RawModel /\ items \in Seq(ListedItem)
  BY RawFields DEF Good
<1>2. ApplyChildren(mod, path)
        = IF at = 0 THEN ClampCursor(g) ELSE ScrollIntoView(ClampCursor(h))
  <2>1. Mark(mod, path, LAMBDA it : [it EXCEPT !.isLoading = FALSE,
                                               !.expanded = TRUE]) = x
    BY DEF Mark
  <2>2. x.allItems = list
    BY <1>1 DEF RawModel
  <2>3. [x EXCEPT !.allItems = Insert(@, path)] = y
    BY <2>2
  <2> HIDE DEF x, y
  <2>4. QED
    BY <2>1, <2>3 DEF ApplyChildren
<1>3. at \in 0 .. Len(items)
  BY <1>1, FirstIsThere
<1>4. c \in Int
  <2>1. Len(Clusters[path]) \in Nat
    BY TuiAssumption
  <2>2. QED
    BY <1>1, <1>3, <2>1
<1> HIDE DEF items, at, c
<1>5. ASSUME NEW i \in DOMAIN items
      PROVE  /\ F(i) \in ListedItem
             /\ items[i].path # path => F(i) = items[i]
             /\ items[i].path = path => /\ Stays(F(i), items[i])
                                       /\ F(i).isLoading = FALSE
                                       /\ F(i).expanded = TRUE
  <2> DEFINE it == items[i]
             u == [it EXCEPT !.isLoading = FALSE]
             v == [u EXCEPT !.expanded = TRUE]
  <2>1. it \in ListedItem
    BY <1>1
  <2>2. u \in ListedItem /\ Unmoved(u, it) /\ u.isLoading = FALSE
    BY <2>1, MarkedItem
  <2>3. F(i) = IF it.path = path THEN v ELSE it
    OBVIOUS
  <2> HIDE DEF u, F
  <2>4. /\ v \in ListedItem /\ Stays(v, u) /\ v.expanded = TRUE
        /\ v.isLoading = u.isLoading
    BY <2>2, MarkedItem
  <2> HIDE DEF v
  <2>5. QED
    BY <2>1, <2>2, <2>3, <2>4 DEF Unmoved, Stays
<1> HIDE DEF F
<1>6. list \in Seq(ListedItem) /\ IsOpened(list, items, path, TRUE)
  <2>1. \A i \in DOMAIN items : F(i) \in ListedItem
    BY <1>5
  <2>2. list \in Seq(ListedItem) /\ DOMAIN list = DOMAIN items
    BY <1>1, <2>1, ListOf
  <2>3. \A i \in 1 .. Len(items) : i \in DOMAIN items /\ list[i] = F(i)
    BY <1>1
  <2>4. Len(list) = Len(items)
    BY <1>1, <2>2, SameLength
  <2> HIDE DEF list
  <2>5. QED
    BY <1>5, <2>2, <2>3, <2>4 DEF IsOpened
<1> HIDE DEF list
<1>7. more \in Seq(ListedItem)
  BY <1>6, InsertListed
<1> HIDE DEF more
<1>8. x \in RawModel /\ x.end = mod.end /\ SamePreview(x, mod)
  BY <1>1, <1>6, WithItems
<1> HIDE DEF x
<1>9. /\ y \in RawModel /\ y.end = x.end /\ SamePreview(y, x)
      /\ y.allItems = more
  BY <1>7, <1>8, WithItems
<1> HIDE DEF y
<1> DEFINE d == ClampCursor(g)
<1>10. /\ d \in Good /\ d.end = y.end /\ SamePreview(d, y)
       /\ d.allItems = y.allItems
  BY <1>9, ClampFilterIsGood
<1> HIDE DEF d
<1>11. /\ g \in RawModel /\ Current(g) /\ g.end = y.end
       /\ SamePreview(g, y) /\ g.allItems = y.allItems
  BY <1>9, FilterLeaves
<1> HIDE DEF g
<1>12. /\ h \in RawModel /\ Current(h) /\ h.end = g.end
       /\ SamePreview(h, g) /\ h.allItems = g.allItems
  BY <1>4, <1>11 DEF RawModel, Current, SamePreview
<1> HIDE DEF h
<1> DEFINE k == ClampCursor(h)
<1>13. k \in Good /\ Same(k, h)
  BY <1>12, ClampMakesGood
<1> HIDE DEF k
<1>14. ScrollIntoView(k) \in Good /\ Same(ScrollIntoView(k), k)
  BY <1>13, ScrollKeepsGood
<1> DEFINE s == ScrollIntoView(k)
<1> HIDE DEF s
<1>15. /\ s \in Good /\ s.end = mod.end /\ SamePreview(s, mod)
       /\ s.allItems = more
  BY <1>8, <1>9, <1>11, <1>12, <1>13, <1>14 DEF Same, SamePreview, s
<1>16. /\ d \in Good /\ d.end = mod.end /\ SamePreview(d, mod)
       /\ d.allItems = more
  BY <1>8, <1>9, <1>10 DEF SamePreview
<1> DEFINE new == ApplyChildren(mod, path)
<1>17. new = IF at = 0 THEN d ELSE s
  BY <1>2 DEF d, s, k
<1>18. more = Insert(list, path)
  BY DEF more
<1> HIDE DEF new
<1>19. /\ new \in Good /\ new.end = mod.end /\ SamePreview(new, mod)
       /\ new.allItems = Insert(list, path)
  BY <1>15, <1>16, <1>17, <1>18
<1>20. /\ list \in Seq(ListedItem)
       /\ IsOpened(list, mod.allItems, path, TRUE)
  BY <1>6 DEF items
<1>21. QED
  BY <1>19, <1>20, Zenon DEF new

-----------------------------------------------------------------------------
(***************************************************************************)
(* The inductive invariant.  The cursor is in the list, the list is what   *)
(* the query finds, everything listed, awaited or shown is a context of a  *)
(* store or a cluster found in one, and the preview that is awaited is the *)
(* one of the selection: fetchPreviewCmd is called wherever it may change. *)
(***************************************************************************)
Listable == Discovered \cup Hosted

\* The content shown is the answer that is awaited.
AnswersAwaited(mod) ==
  mod.previewContent # NoPath =>
    /\ mod.previewContent \in Listable
    /\ mod.previewContent[2] = mod.previewForPath

\* The preview of the selection is awaited.
AwaitsSelection(mod) ==
  mod.filtered # <<>> => Selection(mod).path = mod.previewForPath

ModelInv(mod) ==
  /\ mod \in Good
  /\ mod.end # "panics"
  /\ AnswersAwaited(mod)
  /\ AwaitsSelection(mod)

UInv ==
  /\ ModelInv(m)
  /\ batches \in Seq(Seq(ListedItem))
  /\ previews \subseteq Listable
  /\ expansions \in [Paths -> 0 .. MaxAtWork]

\* What is discovered can be listed.
LEMMA BatchesListed ==
  /\ Batches \in Seq(Seq(ListedItem))
  /\ Listable \subseteq AnyID \X Paths
<1> DEFINE All == {TopLevel(p, s) : p \in Paths, s \in StoreIDs}
<1>1. Batches \in Seq(Seq(All)) /\ Clusters \in [Paths -> Seq(Paths)]
  BY TuiAssumption
<1>2. ASSUME NEW it \in All
      PROVE  it \in Item /\ it.path \in Paths /\ it.storeID \in AnyID
  <2>1. PICK p \in Paths, s \in StoreIDs : it = TopLevel(p, s)
    OBVIOUS
  <2>2. s \in AnyID
    BY DEF AnyID
  <2>3. QED
    BY <2>1, <2>2 DEF TopLevel, Item
<1> HIDE DEF All
<1>3. ASSUME NEW b \in Range(Batches), NEW it \in Range(b)
      PROVE  it \in ListedItem /\ <<it.storeID, it.path>> \in AnyID \X Paths
  <2>1. b \in Seq(All)
    BY <1>1 DEF Range
  <2>2. it \in All
    BY <2>1 DEF Range
  <2>3. <<it.storeID, it.path>> \in Discovered
    BY Zenon DEF Discovered
  <2>4. QED
    BY <1>2, <2>2, <2>3 DEF ListedItem
<1>4. Batches \in Seq(Seq(ListedItem))
  <2>1. ASSUME NEW k \in DOMAIN Batches
        PROVE  Batches[k] \in Seq(ListedItem)
    <3> DEFINE b == Batches[k]
    <3>1. b \in Range(Batches) /\ b \in Seq(All)
      BY <1>1 DEF Range
    <3> HIDE DEF b
    <3>2. \A j \in DOMAIN b : b[j] \in ListedItem
      BY <1>3, <3>1 DEF Range
    <3>3. b \in Seq(ListedItem)
      BY <3>1, <3>2
    <3>4. QED
      BY <3>3 DEF b
  <2>2. QED
    BY <1>1, <2>1
<1>5. Discovered \subseteq AnyID \X Paths
  BY <1>3 DEF Discovered
<1>6. Hosted \subseteq AnyID \X Paths
  <2>1. ASSUME NEW p \in DOMAIN Clusters, NEW q \in Range(Clusters[p])
        PROVE  <<DynamicID(p), q>> \in AnyID \X Paths
    <3>1. p \in Paths /\ Clusters[p] \in Seq(Paths)
      BY <1>1
    <3>2. q \in Paths
      BY <3>1 DEF Range
    <3>3. DynamicID(p) \in AnyID
      BY <3>1 DEF AnyID
    <3>4. QED
      BY <3>2, <3>3
  <2>2. QED
    BY <2>1 DEF Hosted
<1>7. QED
  BY <1>4, <1>5, <1>6 DEF Listable

\* The selection of a good model is an item that can be listed.
LEMMA SelectionListed ==
  ASSUME NEW mod \in Good, mod.filtered # <<>>
  PROVE  /\ mod.cursor < Len(mod.filtered)
         /\ mod.cursor + 1 \in 1 .. Len(mod.filtered)
         /\ Selection(mod) \in ListedItem
         /\ <<Selection(mod).storeID, Selection(mod).path>> \in Listable
         /\ Selection(mod).path \in Paths
<1>1. mod.filtered \in Seq(ListedItem) /\ mod.cursor \in Nat
  BY RawFields DEF Good
<1>2. mod.cursor < Len(mod.filtered)
  BY DEF Good, InRange
<1>3. Selection(mod) \in ListedItem
  BY <1>1, <1>2 DEF Selection
<1>4. QED
  BY <1>1, <1>2, <1>3 DEF ListedItem, Listable, Item

\* fetchPreviewCmd keeps the invariant, whatever the selection has become.
LEMMA ShowPreviewKeeps ==
  ASSUME UInv, NEW n \in Good, n.end \in {"no", "hangs"}, SamePreview(n, m),
         ShowPreview(n)
  PROVE  /\ ModelInv(m') /\ previews' \subseteq Listable
         /\ m'.allItems = n.allItems /\ m'.end = n.end
<1>1. AnswersAwaited(n)
  BY DEF UInv, ModelInv, AnswersAwaited, SamePreview
<1>2. previews \subseteq Listable
  BY DEF UInv
<1>3. CASE n.filtered = <<>>
  BY <1>1, <1>2, <1>3 DEF ShowPreview, ModelInv, AwaitsSelection
<1>4. CASE n.filtered # <<>>
  <2>1. /\ n.cursor < Len(n.filtered)
        /\ <<Selection(n).storeID, Selection(n).path>> \in Listable
        /\ Selection(n).path \in Paths
    BY <1>4, SelectionListed
  <2>2. n.cursor \in Nat /\ Len(n.filtered) \in Nat /\ n \in RawModel
    BY RawFields DEF Good
  <2>3. ~(n.cursor >= Len(n.filtered))
    BY <2>1, <2>2
  <2>4. CASE Selection(n).path = n.previewForPath
    BY <1>1, <1>2, <1>4, <2>3, <2>4
    DEF ShowPreview, ModelInv, AwaitsSelection
  <2>5. CASE Selection(n).path # n.previewForPath
    <3> DEFINE p == Selection(n).path
               x == [n EXCEPT !.previewForPath = p]
               y == [x EXCEPT !.previewContent = NoPath]
    <3>1. /\ m' = y
          /\ previews' = previews \cup {<<Selection(n).storeID, p>>}
      BY <1>4, <2>3, <2>5 DEF ShowPreview
    <3>2. /\ x \in RawModel /\ x.allItems = n.allItems
          /\ x.filtered = n.filtered /\ x.query = n.query
          /\ x.cursor = n.cursor /\ x.end = n.end /\ x.previewForPath = p
      BY <2>1, <2>2 DEF RawModel
    <3> HIDE DEF p, x
    <3>3. /\ y \in RawModel /\ y.allItems = x.allItems
          /\ y.filtered = x.filtered /\ y.query = x.query
          /\ y.cursor = x.cursor /\ y.end = x.end
          /\ y.previewForPath = p /\ y.previewContent = NoPath
      BY <3>2 DEF RawModel
    <3> HIDE DEF y
    <3>4. y \in Good
      BY <3>2, <3>3 DEF Good, InRange, Current
    <3>5. AwaitsSelection(y)
      BY <3>2, <3>3 DEF AwaitsSelection, Selection, p
    <3>6. AnswersAwaited(y)
      BY <3>3 DEF AnswersAwaited
    <3>7. ModelInv(y)
      BY <3>2, <3>3, <3>4, <3>5, <3>6 DEF ModelInv
    <3>8. QED
      BY <1>2, <2>1, <3>1, <3>2, <3>3, <3>7 DEF p
  <2>6. QED
    BY <2>4, <2>5
<1>5. QED
  BY <1>3, <1>4

\* An empty model.
LEMMA EmptyIsGood ==
  ASSUME NEW h \in Heights, NEW q \in Queries, FilterItems(q, <<>>) = <<>>,
         NEW mod,
         mod = [allItems |-> <<>>, filtered |-> <<>>, query |-> q,
                cursor |-> 0, viewOffset |-> 0, listHeight |-> h,
                previewForPath |-> NoPath, previewContent |-> NoPath,
                loading |-> TRUE, end |-> "no"]
  PROVE  ModelInv(mod) /\ mod.allItems = <<>> /\ mod.end = "no"
<1>1. <<>> \in Seq(ListedItem)
  OBVIOUS
<1>2. mod \in RawModel
  BY <1>1 DEF RawModel
<1>3. /\ mod.filtered = <<>> /\ mod.allItems = <<>>
      /\ mod.query = q /\ mod.cursor = 0
      /\ mod.previewContent = NoPath /\ mod.end = "no"
  OBVIOUS
<1>4. InRange(mod) /\ Current(mod)
  BY <1>3 DEF InRange, Current
<1>5. mod \in Good
  BY <1>2, <1>3, <1>4 DEF Good
<1>6. QED
  BY <1>3, <1>5 DEF ModelInv, AnswersAwaited, AwaitsSelection

\* The model is empty at first.
LEMMA InitKeeps == Init => UInv
<1> SUFFICES ASSUME Init PROVE UInv
  OBVIOUS
<1>1. ModelInv(m)
  <2>1. "" \in Queries /\ FilterItems("", <<>>) = <<>>
    BY Zenon DEF Queries, FilterItems
  <2>2. QED
    BY <2>1, EmptyIsGood, Zenon DEF Init
<1>2. /\ batches = Batches /\ previews = {}
      /\ expansions = [p \in Paths |-> 0]
  BY Zenon DEF Init
<1>3. expansions \in [Paths -> 0 .. MaxAtWork]
  <2>1. MaxAtWork \in Nat
    BY TuiAssumption
  <2>2. QED
    BY <1>2, <2>1
<1>4. QED
  BY <1>1, <1>2, <1>3, BatchesListed DEF UInv

-----------------------------------------------------------------------------
(***************************************************************************)
(* The messages keep the invariant.                                        *)
(***************************************************************************)
\* What the invariant says of each variable.
LEMMA Unfolded ==
  ASSUME UInv
  PROVE  /\ m \in Good /\ m \in RawModel /\ m.end # "panics"
         /\ AnswersAwaited(m) /\ AwaitsSelection(m) /\ ModelInv(m)
         /\ batches \in Seq(Seq(ListedItem))
         /\ previews \subseteq Listable
         /\ expansions \in [Paths -> 0 .. MaxAtWork]
BY DEF UInv, ModelInv, Good

\* The tree stays as it is.
SameTree ==
  /\ m'.allItems = m.allItems /\ (m'.end = "hangs" => m.end = "hangs")
  /\ UNCHANGED <<batches, expansions>>

\* The descendants of a path are removed, or the loop does not end.
Collapsed(path) ==
  LET items == m.allItems
      kept  == ItemsAt(items, Kept(items, path))
  IN  IF \A i \in DOMAIN items : Ends(items, path, items[i])
      THEN m'.end = "no" /\ IsOpened(m'.allItems, kept, path, FALSE)
      ELSE m'.allItems = items

\* Another window shows the same list.
LEMMA WindowKeeps ==
  ASSUME UInv, WindowSize PROVE UInv' /\ SameTree
<1>1. PICK h \in Heights : m' = [m EXCEPT !.listHeight = h]
  BY DEF WindowSize
<1> DEFINE x == [m EXCEPT !.listHeight = h]
<1>2. /\ x \in RawModel /\ x.allItems = m.allItems
      /\ x.filtered = m.filtered /\ x.query = m.query
      /\ x.cursor = m.cursor /\ x.end = m.end
      /\ x.previewForPath = m.previewForPath
      /\ x.previewContent = m.previewContent
  BY Unfolded DEF RawModel
<1> HIDE DEF x
<1>3. x \in Good
  BY <1>2, Unfolded DEF Good, InRange, Current
<1>4. ModelInv(x)
  BY <1>2, <1>3, Unfolded
  DEF ModelInv, AnswersAwaited, AwaitsSelection, Selection
<1>5. ModelInv(m')
  BY <1>1, <1>4 DEF x
<1>6. m'.allItems = m.allItems /\ m'.end = m.end
  BY <1>1, <1>2 DEF x
<1>7. QED
  BY <1>5, <1>6, Unfolded DEF UInv, WindowSize, SameTree

\* A batch is appended and found again.
LEMMA ItemsArriveKeeps ==
  ASSUME UInv, ItemsArrive
  PROVE  /\ UInv' /\ m'.end = "no"
         /\ m'.allItems = m.allItems \o Head(batches)
<1> DEFINE list == m.allItems \o Head(batches)
           x == [m EXCEPT !.allItems = list]
           n == ClampCursor(Filter(x))
<1>1. /\ batches # <<>> /\ m.end = "no" /\ batches' = Tail(batches)
      /\ UNCHANGED expansions /\ ShowPreview(n)
  BY DEF ItemsArrive, Running
<1>2. /\ Head(batches) \in Seq(ListedItem)
      /\ Tail(batches) \in Seq(Seq(ListedItem))
  BY <1>1, Unfolded
<1>3. list \in Seq(ListedItem)
  BY <1>2, RawFields, Unfolded, ConcatProperties
<1> HIDE DEF list
<1>4. /\ x \in RawModel /\ x.end = m.end /\ SamePreview(x, m)
      /\ x.allItems = list
  BY <1>3, Unfolded, WithItems
<1> HIDE DEF x
<1>5. /\ n \in Good /\ n.end = x.end /\ SamePreview(n, x)
      /\ n.allItems = x.allItems
  BY <1>4, ClampFilterIsGood
<1> HIDE DEF n
<1>6. n.end = "no" /\ SamePreview(n, m)
  BY <1>1, <1>4, <1>5 DEF SamePreview
<1>7. /\ ModelInv(m') /\ previews' \subseteq Listable
      /\ m'.allItems = n.allItems /\ m'.end = n.end
  BY <1>1, <1>5, <1>6, ShowPreviewKeeps
<1>8. QED
  BY <1>1, <1>2, <1>4, <1>5, <1>6, <1>7, Unfolded DEF UInv, list

\* The end of the discovery and of the program change one field.
LEMMA LastMessagesKeep ==
  ASSUME UInv, DiscoveryDone \/ Quit PROVE UInv' /\ SameTree
<1>1. CASE DiscoveryDone
  <2> DEFINE x == [m EXCEPT !.loading = FALSE]
  <2>1. /\ x \in RawModel /\ x.allItems = m.allItems
        /\ x.filtered = m.filtered /\ x.query = m.query
        /\ x.cursor = m.cursor /\ x.end = m.end
        /\ x.previewForPath = m.previewForPath
        /\ x.previewContent = m.previewContent
    BY Unfolded DEF RawModel
  <2> HIDE DEF x
  <2>2. x \in Good
    BY <2>1, Unfolded DEF Good, InRange, Current
  <2>3. ModelInv(x)
    BY <2>1, <2>2, Unfolded
    DEF ModelInv, AnswersAwaited, AwaitsSelection, Selection
  <2>4. ModelInv(m')
    BY <1>1, <2>3 DEF DiscoveryDone, x
  <2>5. m'.allItems = m.allItems /\ m'.end = m.end
    BY <1>1, <2>1 DEF DiscoveryDone, x
  <2>6. QED
    BY <1>1, <2>4, <2>5, Unfolded DEF UInv, DiscoveryDone, SameTree
<1>2. CASE Quit
  <2>1. PICK end \in {"selected", "aborted"} : m' = [m EXCEPT !.end = end]
    BY <1>2 DEF Quit
  <2> DEFINE x == [m EXCEPT !.end = end]
  <2>2. /\ x \in RawModel /\ x.allItems = m.allItems
        /\ x.filtered = m.filtered /\ x.query = m.query
        /\ x.cursor = m.cursor /\ x.end = end
        /\ x.previewForPath = m.previewForPath
        /\ x.previewContent = m.previewContent
    BY Unfolded DEF RawModel
  <2> HIDE DEF x
  <2>3. x \in Good
    BY <2>2, Unfolded DEF Good, InRange, Current
  <2>4. ModelInv(x)
    BY <2>2, <2>3, Unfolded
    DEF ModelInv, AnswersAwaited, AwaitsSelection, Selection
  <2>5. ModelInv(m')
    BY <2>1, <2>4 DEF x
  <2>6. m'.allItems = m.allItems /\ m'.end # "hangs"
    BY <2>1, <2>2 DEF x
  <2>7. QED
    BY <1>2, <2>5, <2>6, Unfolded DEF UInv, Quit, SameTree
<1>3. QED
  BY <1>1, <1>2

\* A preview is shown only if it is the one awaited.
LEMMA PreviewArrivesKeeps ==
  ASSUME UInv, PreviewArrives PROVE UInv' /\ SameTree
<1>1. PICK fetch \in previews :
        /\ previews' = previews \ {fetch}
        /\ m' = IF fetch[2] = m.previewForPath
                THEN [m EXCEPT !.previewContent = PreviewOf(fetch)]
                ELSE m
  BY DEF PreviewArrives
<1>2. fetch \in Listable /\ fetch \in AnyID \X Paths
  BY Unfolded, BatchesListed
<1> DEFINE c == PreviewOf(fetch)
           x == [m EXCEPT !.previewContent = c]
<1>3. c \in (StoreIDs \X Paths) \cup {NoPath} /\ (c # NoPath => c = fetch)
  BY <1>2 DEF PreviewOf
<1> HIDE DEF c
<1>4. /\ x \in RawModel /\ x.allItems = m.allItems
      /\ x.filtered = m.filtered /\ x.query = m.query
      /\ x.cursor = m.cursor /\ x.end = m.end
      /\ x.previewForPath = m.previewForPath
      /\ x.previewContent = c
  BY <1>3, Unfolded DEF RawModel
<1> HIDE DEF x
<1>5. x \in Good
  BY <1>4, Unfolded DEF Good, InRange, Current
<1>6. fetch[2] = m.previewForPath => ModelInv(x)
  BY <1>2, <1>3, <1>4, <1>5, Unfolded
  DEF ModelInv, AnswersAwaited, AwaitsSelection, Selection
<1>7. ModelInv(m')
  BY <1>1, <1>6, Unfolded DEF x, c
<1>8. m'.allItems = m.allItems /\ m'.end = m.end
  BY <1>1, <1>4 DEF x, c
<1>9. QED
  BY <1>1, <1>7, <1>8, Unfolded DEF UInv, PreviewArrives, SameTree

\* Clusters, or that there are none, are noted in the list.
LEMMA ExpansionArrivesKeeps ==
  ASSUME UInv, ExpansionArrives
  PROVE  /\ UInv' /\ UNCHANGED batches /\ m'.end = "no"
         /\ \E p \in Paths :
              /\ expansions[p] > 0
              /\ expansions' = [expansions EXCEPT ![p] = @ - 1]
              /\ \/ IsLit(m'.allItems, m.allItems, p, FALSE)
                 \/ /\ Clusters[p] # <<>>
                    /\ \E list \in Seq(ListedItem) :
                         /\ IsOpened(list, m.allItems, p, TRUE)
                         /\ m'.allItems = Insert(list, p)
<1>1. PICK p \in Paths :
        /\ expansions[p] > 0
        /\ expansions' = [expansions EXCEPT ![p] = @ - 1]
        /\ \/ Clusters[p] # <<>> /\ ShowPreview(ApplyChildren(m, p))
           \/ \E err \in BOOLEAN : ShowPreview(ApplyNone(m, p, err))
  BY DEF ExpansionArrives
<1>2. m.end = "no" /\ UNCHANGED batches
  BY DEF ExpansionArrives, Running
<1>3. expansions' \in [Paths -> 0 .. MaxAtWork]
  <2>1. expansions \in [Paths -> 0 .. MaxAtWork] /\ MaxAtWork \in Nat
    BY Unfolded, TuiAssumption
  <2>2. expansions[p] - 1 \in 0 .. MaxAtWork
    BY <1>1, <2>1
  <2>3. QED
    BY <1>1, <2>1, <2>2
<1> DEFINE opened == /\ Clusters[p] # <<>>
                     /\ \E list \in Seq(ListedItem) :
                          /\ IsOpened(list, m.allItems, p, TRUE)
                          /\ m'.allItems = Insert(list, p)
<1>4. /\ ModelInv(m') /\ previews' \subseteq Listable /\ m'.end = "no"
      /\ IsLit(m'.allItems, m.allItems, p, FALSE) \/ opened
  <2>1. CASE Clusters[p] # <<>> /\ ShowPreview(ApplyChildren(m, p))
    <3> DEFINE n == ApplyChildren(m, p)
    <3>1. /\ n \in Good /\ n.end = m.end /\ SamePreview(n, m)
          /\ \E list \in Seq(ListedItem) :
               /\ IsOpened(list, m.allItems, p, TRUE)
               /\ n.allItems = Insert(list, p)
      BY Unfolded, ApplyChildrenIsGood
    <3> HIDE DEF n
    <3>2. ShowPreview(n)
      BY <2>1 DEF n
    <3>3. /\ ModelInv(m') /\ previews' \subseteq Listable
          /\ m'.allItems = n.allItems /\ m'.end = n.end
      BY <1>2, <3>1, <3>2, ShowPreviewKeeps
    <3>4. QED
      BY <1>2, <2>1, <3>1, <3>3
  <2>2. ASSUME NEW err \in BOOLEAN, ShowPreview(ApplyNone(m, p, err))
        PROVE  /\ ModelInv(m') /\ previews' \subseteq Listable
               /\ m'.end = "no"
               /\ IsLit(m'.allItems, m.allItems, p, FALSE)
    <3> DEFINE n == ApplyNone(m, p, err)
    <3>1. /\ n \in Good /\ n.end = m.end /\ SamePreview(n, m)
          /\ IsLit(n.allItems, m.allItems, p, FALSE)
      BY Unfolded, ApplyNoneIsGood
    <3> HIDE DEF n
    <3>2. ShowPreview(n)
      BY <2>2 DEF n
    <3>3. /\ ModelInv(m') /\ previews' \subseteq Listable
          /\ m'.allItems = n.allItems /\ m'.end = n.end
      BY <1>2, <3>1, <3>2, ShowPreviewKeeps
    <3>4. QED
      BY <1>2, <3>1, <3>3
  <2>3. QED
    BY <1>1, <2>1, <2>2
<1>5. QED
  BY <1>1, <1>2, <1>3, <1>4, Unfolded DEF UInv

\* The list is found again for another query, from its first item.
LEMMA QueryKeeps ==
  ASSUME UInv, QueryChanges \/ ClearQuery PROVE UInv' /\ SameTree
<1>1. ASSUME NEW x \in RawModel, x.cursor = 0
      PROVE  /\ Filter(x) \in Good /\ Filter(x).end = x.end
             /\ SamePreview(Filter(x), x)
             /\ Filter(x).allItems = x.allItems
  <2>1. /\ Filter(x) \in RawModel /\ Current(Filter(x))
        /\ Filter(x).cursor = x.cursor /\ Filter(x).end = x.end
        /\ SamePreview(Filter(x), x) /\ Filter(x).allItems = x.allItems
    BY FilterLeaves
  <2>2. Filter(x).filtered \in Seq(ListedItem)
    BY <2>1, RawFields
  <2>3. InRange(Filter(x))
    BY <1>1, <2>1, <2>2 DEF InRange
  <2>4. QED
    BY <1>1, <2>1, <2>3 DEF Good
<1>2. ASSUME NEW x \in RawModel, x.cursor = 0, x.end = m.end,
             SamePreview(x, m), x.allItems = m.allItems, m.end = "no",
             ShowPreview(Filter(x)), UNCHANGED <<batches, expansions>>
      PROVE  UInv' /\ SameTree
  <2>1. /\ Filter(x) \in Good /\ Filter(x).end = "no"
        /\ SamePreview(Filter(x), m) /\ Filter(x).allItems = m.allItems
    BY <1>1, <1>2 DEF SamePreview
  <2>2. /\ ModelInv(m') /\ previews' \subseteq Listable
        /\ m'.allItems = Filter(x).allItems /\ m'.end = Filter(x).end
    BY <1>2, <2>1, ShowPreviewKeeps
  <2>3. QED
    BY <1>2, <2>1, <2>2, Unfolded DEF UInv, SameTree
<1>3. CASE QueryChanges
  <2>1. PICK q \in Queries : ShowPreview(Refilter([m EXCEPT !.query = q]))
    BY <1>3 DEF QueryChanges
  <2> DEFINE x == [m EXCEPT !.query = q]
             y == [x EXCEPT !.cursor = 0]
             z == [y EXCEPT !.viewOffset = 0]
  <2>2. m.end = "no" /\ UNCHANGED <<batches, expansions>>
    BY <1>3 DEF QueryChanges, Running
  <2>3. Refilter(x) = Filter(z)
    BY DEF Refilter
  <2>4. /\ x \in RawModel /\ x.end = m.end /\ SamePreview(x, m)
        /\ x.allItems = m.allItems
    BY Unfolded DEF RawModel, SamePreview
  <2>5. ShowPreview(Filter(z))
    BY <2>1, <2>3
  <2> HIDE DEF x
  <2>6. /\ y \in RawModel /\ y.end = x.end /\ SamePreview(y, x)
        /\ y.cursor = 0 /\ y.allItems = x.allItems
    BY <2>4 DEF RawModel, SamePreview
  <2> HIDE DEF y
  <2>7. /\ z \in RawModel /\ z.end = y.end /\ SamePreview(z, y)
        /\ z.cursor = 0 /\ z.allItems = y.allItems
    BY <2>6 DEF RawModel, SamePreview
  <2> HIDE DEF z
  <2>8. SamePreview(z, m) /\ z.end = m.end /\ z.allItems = m.allItems
    BY <2>4, <2>6, <2>7 DEF SamePreview
  <2>9. QED
    BY <1>2, <2>2, <2>5, <2>7, <2>8
<1>4. CASE ClearQuery
  <2>1. PICK q \in Queries :
          ShowPreview(Filter([m EXCEPT !.query = q, !.cursor = 0]))
    BY <1>4, Zenon DEF ClearQuery, Queries
  <2> DEFINE x == [m EXCEPT !.query = q]
             y == [x EXCEPT !.cursor = 0]
  <2>2. m.end = "no" /\ UNCHANGED <<batches, expansions>>
    BY <1>4, Zenon DEF ClearQuery, Running
  <2>3. [m EXCEPT !.query = q, !.cursor = 0] = y
    OBVIOUS
  <2>4. /\ x \in RawModel /\ x.end = m.end /\ SamePreview(x, m)
        /\ x.allItems = m.allItems
    BY Unfolded DEF RawModel, SamePreview
  <2>5. ShowPreview(Filter(y))
    BY <2>1, <2>3, Zenon
  <2> HIDE DEF x
  <2>6. /\ y \in RawModel /\ y.end = x.end /\ SamePreview(y, x)
        /\ y.cursor = 0 /\ y.allItems = x.allItems
    BY <2>4 DEF RawModel, SamePreview
  <2> HIDE DEF y
  <2>7. SamePreview(y, m) /\ y.end = m.end /\ y.allItems = m.allItems
    BY <2>4, <2>6 DEF SamePreview
  <2>8. QED
    BY <1>2, <2>2, <2>5, <2>6, <2>7
<1>5. QED
  BY <1>3, <1>4

\* The cursor moves and is clamped.
LEMMA MoveKeeps ==
  ASSUME UInv, Move PROVE UInv' /\ SameTree
<1>1. PICK delta \in {1, -1, m.listHeight, -m.listHeight} :
        ShowPreview(ScrollIntoView(ClampCursor(
                      [m EXCEPT !.cursor = @ + delta])))
  BY DEF Move
<1>2. m.end = "no" /\ UNCHANGED <<batches, expansions>>
  BY DEF Move, Running
<1> DEFINE c == m.cursor + delta
           x == [m EXCEPT !.cursor = c]
           k == ClampCursor(x)
           n == ScrollIntoView(k)
<1>3. c \in Int
  <2>1. m.cursor \in Int /\ m.listHeight \in Nat
    BY RawFields, Unfolded
  <2>2. QED
    BY <2>1
<1>4. ShowPreview(n)
  BY <1>1
<1> HIDE DEF c
<1>5. x \in RawModel /\ Current(x) /\ Same(x, m)
  BY <1>3, Unfolded DEF Good, RawModel, Current, Same
<1> HIDE DEF x
<1>6. k \in Good /\ Same(k, x)
  BY <1>5, ClampMakesGood
<1> HIDE DEF k
<1>7. n \in Good /\ Same(n, k)
  BY <1>6, ScrollKeepsGood
<1> HIDE DEF n
<1>8. SamePreview(n, m) /\ n.end = m.end /\ n.allItems = m.allItems
  BY <1>5, <1>6, <1>7 DEF Same, SamePreview
<1>9. /\ ModelInv(m') /\ previews' \subseteq Listable
      /\ m'.allItems = n.allItems /\ m'.end = n.end
  BY <1>2, <1>4, <1>7, <1>8, ShowPreviewKeeps
<1>10. QED
  BY <1>2, <1>8, <1>9, Unfolded DEF UInv, SameTree

\* The selection is marked, and stays selected.
LEMMA ExpandKeeps ==
  ASSUME UInv, Expand
  PROVE  /\ UInv' /\ m'.end = "no"
         /\ IsLit(m'.allItems, m.allItems, Selection(m).path, TRUE)
<1> DEFINE p == Selection(m).path
           n == MarkLoading(m, p)
<1>1. /\ m.filtered # <<>> /\ expansions[p] < MaxAtWork
      /\ m' = n /\ expansions' = [expansions EXCEPT ![p] = @ + 1]
      /\ UNCHANGED <<batches, previews>>
  BY DEF Expand, StartExpansion
<1>2. p \in Paths /\ m.cursor + 1 \in 1 .. Len(m.filtered)
  BY <1>1, Unfolded, SelectionListed
<1>3. /\ n \in Good /\ Len(n.filtered) = Len(m.filtered)
      /\ \A k \in 1 .. Len(m.filtered) :
           n.filtered[k].path = m.filtered[k].path
      /\ n.cursor = m.cursor /\ n.end = m.end /\ SamePreview(n, m)
      /\ IsLit(n.allItems, m.allItems, p, TRUE)
  BY Unfolded, MarkLoadingIsGood
<1>4. expansions' \in [Paths -> 0 .. MaxAtWork]
  <2>1. expansions \in [Paths -> 0 .. MaxAtWork] /\ MaxAtWork \in Nat
    BY Unfolded, TuiAssumption
  <2>2. expansions[p] + 1 \in 0 .. MaxAtWork
    BY <1>1, <1>2, <2>1
  <2> HIDE DEF p
  <2>3. QED
    BY <1>1, <1>2, <2>1, <2>2
<1> HIDE DEF n
<1>5. Selection(n).path = p
  BY <1>2, <1>3 DEF Selection
<1>6. AwaitsSelection(n)
  BY <1>1, <1>3, <1>5, Unfolded DEF AwaitsSelection, SamePreview
<1>7. AnswersAwaited(n)
  BY <1>3, Unfolded DEF AnswersAwaited, SamePreview
<1>8. ModelInv(m')
  BY <1>1, <1>3, <1>6, <1>7, Unfolded DEF ModelInv
<1>9. m.end = "no"
  BY DEF Expand, Running
<1>10. QED
  BY <1>1, <1>3, <1>4, <1>8, <1>9, Unfolded DEF UInv

\* A context is collapsed, and the cursor moves to it.
LEMMA CollapseKeeps ==
  ASSUME UInv, Collapse
  PROVE  /\ UInv' /\ UNCHANGED <<batches, expansions>> /\ m.filtered # <<>>
         /\ \/ /\ Selection(m).expanded
               /\ Collapsed(Selection(m).path)
            \/ /\ Selection(m).parentPath # NoPath
               /\ Collapsed(Selection(m).parentPath)
<1>1. m.end = "no" /\ UNCHANGED <<batches, expansions>> /\ m.filtered # <<>>
  BY DEF Collapse, Running
<1> DEFINE items == m.allItems
           kept(p) == ItemsAt(items, Kept(items, p))
           ends(p) == \A i \in DOMAIN items : Ends(items, p, items[i])
           Good2(k, p) ==
             /\ k \in Good /\ k.end \in {"no", "hangs"} /\ SamePreview(k, m)
             /\ IF ends(p) THEN /\ k.end = "no"
                                /\ IsOpened(k.allItems, kept(p), p, FALSE)
                ELSE k.allItems = items
<1>2. ASSUME NEW p, ShowPreview(CollapseItem(m, p))
      PROVE  ModelInv(m') /\ previews' \subseteq Listable /\ Collapsed(p)
  <2> DEFINE n == CollapseItem(m, p)
  <2>1. Good2(n, p)
    BY <1>1, Unfolded, CollapseIsGood
  <2> HIDE DEF n
  <2>2. ShowPreview(n)
    BY <1>2 DEF n
  <2>3. /\ ModelInv(m') /\ previews' \subseteq Listable
        /\ m'.allItems = n.allItems /\ m'.end = n.end
    BY <2>1, <2>2, ShowPreviewKeeps
  <2>4. QED
    BY <2>1, <2>3 DEF Collapsed
<1>3. ASSUME NEW p, ShowPreview(MoveTo(CollapseItem(m, p), p))
      PROVE  ModelInv(m') /\ previews' \subseteq Listable /\ Collapsed(p)
  <2> DEFINE k == CollapseItem(m, p)
             n == MoveTo(k, p)
  <2>1. Good2(k, p)
    BY <1>1, Unfolded, CollapseIsGood
  <2>2. ShowPreview(n)
    BY <1>3
  <2> HIDE DEF k
  <2>3. /\ n \in Good /\ n.end = k.end /\ SamePreview(n, k)
        /\ n.allItems = k.allItems
    BY <2>1, MoveToIsGood
  <2> HIDE DEF n
  <2>4. n.end \in {"no", "hangs"} /\ SamePreview(n, m)
    BY <2>1, <2>3 DEF SamePreview
  <2>5. /\ ModelInv(m') /\ previews' \subseteq Listable
        /\ m'.allItems = n.allItems /\ m'.end = n.end
    BY <2>2, <2>3, <2>4, ShowPreviewKeeps
  <2>6. QED
    BY <2>1, <2>3, <2>5 DEF Collapsed
<1>4. /\ ModelInv(m') /\ previews' \subseteq Listable
      /\ \/ Selection(m).expanded /\ Collapsed(Selection(m).path)
         \/ /\ Selection(m).parentPath # NoPath
            /\ Collapsed(Selection(m).parentPath)
  BY <1>2, <1>3, Zenon DEF Collapse
<1>5. QED
  BY <1>1, <1>4, Unfolded DEF UInv

\* Every message keeps the invariant.
LEMMA NextKeeps == UInv /\ [Next]_vars => UInv'
<1> SUFFICES ASSUME UInv, [Next]_vars PROVE UInv'
  OBVIOUS
<1>1. CASE Next
  BY <1>1, WindowKeeps, ItemsArriveKeeps, LastMessagesKeep,
     PreviewArrivesKeeps, ExpansionArrivesKeeps, QueryKeeps, MoveKeeps,
     ExpandKeeps, CollapseKeeps DEF Next, Ended, vars, UInv
<1>2. CASE UNCHANGED vars
  BY <1>2 DEF vars, UInv
<1>3. QED
  BY <1>1, <1>2

\* The invariant holds in all states.
LEMMA AlwaysUInv == Spec => []UInv
BY InitKeeps, NextKeeps, PTL DEF Spec

\* The model has its type in all states.
THEOREM TuiTypes == Spec => []TypeOK
<1>1. UInv => TypeOK
  <2> SUFFICES ASSUME UInv PROVE TypeOK
    OBVIOUS
  <2>1. m.cursor \in Nat
    BY Unfolded DEF Good
  <2>2. m.allItems \in Seq(Item) /\ m.filtered \in Seq(Item)
    <3>1. ListedItem \subseteq Item
      BY DEF ListedItem
    <3>2. m.allItems \in Seq(ListedItem) /\ m.filtered \in Seq(ListedItem)
      BY Unfolded, RawFields
    <3>3. QED
      BY <3>1, <3>2
  <2>3. m \in Model
    BY <2>1, <2>2, Unfolded DEF RawModel, Model
  <2>4. previews \subseteq AnyID \X Paths
    BY Unfolded, BatchesListed
  <2>5. QED
    BY <2>3, <2>4, Unfolded DEF TypeOK
<1>2. QED
  BY <1>1, AlwaysUInv, PTL

\* The cursor is never beyond the list and the list is never an old one,
\* whatever arrives while the user types, moves, expands and collapses.
THEOREM ListStaysCoherent == Spec => []ListIsCoherent
<1>1. UInv => ListIsCoherent
  <2> SUFFICES ASSUME UInv PROVE ListIsCoherent
    OBVIOUS
  <2>1. m.filtered # <<>> => m.cursor < Len(m.filtered)
    BY Unfolded DEF Good, InRange
  <2>2. m.filtered = FilterItems(m.query, m.allItems)
    BY Unfolded DEF Good, Current
  <2>3. QED
    BY <2>1, <2>2, Unfolded
    DEF ListIsCoherent, CursorInRange, FilteredIsCurrent
<1>2. QED
  BY <1>1, AlwaysUInv, PTL

\* If a path leads to one store only, no preview is ever shown beside a
\* context that it does not belong to, however late it comes.
THEOREM PreviewsBelong ==
  ASSUME PathsTellStores(Batches, Clusters)
  PROVE  Spec => []PreviewBelongsToSelection
<1>1. UInv => PreviewBelongsToSelection
  <2> SUFFICES ASSUME UInv, m.filtered # <<>>, m.previewContent # NoPath
               PROVE  m.previewContent
                        = <<Selection(m).storeID, Selection(m).path>>
    BY DEF PreviewBelongsToSelection
  <2> DEFINE shown == m.previewContent
             own == <<Selection(m).storeID, Selection(m).path>>
  <2>1. shown \in Listable /\ shown[2] = m.previewForPath
    BY Unfolded DEF AnswersAwaited
  <2>2. own \in Listable
    BY Unfolded, SelectionListed
  <2>3. own[2] = m.previewForPath
    BY Unfolded DEF AwaitsSelection
  <2>4. \A x, y \in Listable : x[2] = y[2] => x = y
    BY Zenon DEF PathsTellStores, Listable, Discovered, Hosted
  <2> HIDE DEF shown, own
  <2>5. shown = own
    BY <2>1, <2>2, <2>3, <2>4
  <2>6. QED
    BY <2>5 DEF shown, own
<1>2. QED
  BY <1>1, AlwaysUInv, PTL

-----------------------------------------------------------------------------
(***************************************************************************)
(* Trees of one level: contexts of the stores, any number of them with one *)
(* path, and the clusters found in them.                                   *)
(***************************************************************************)
TopPaths == {it.path : it \in UNION {Range(b) : b \in Range(Batches)}}

ClustersAreFlat ==
  \A p \in Paths : \A q \in Range(Clusters[p]) :
    q \notin TopPaths /\ Clusters[q] = <<>>

Size(p) == Len(Clusters[p])

IsTop(it) == it.parentPath = NoPath /\ it.path \in TopPaths

IsChild(it) ==
  /\ it.parentPath \in TopPaths
  /\ it.path \in Range(Clusters[it.parentPath])
  /\ it.expanded = FALSE

Kinds(x) == \A i \in 1 .. Len(x) : IsTop(x[i]) \/ IsChild(x[i])

\* A context with a path is listed, and is marked as expanded.
Listed(x, p) == \E i \in 1 .. Len(x) : x[i].path = p

Opened(x, p) ==
  \E i \in 1 .. Len(x) : x[i].path = p /\ x[i].expanded = TRUE

\* A cluster is listed as one of a path.
Holds(x, p, q) ==
  \E i \in 1 .. Len(x) : x[i].parentPath = p /\ x[i].path = q

\* No cluster outlives the mark of its contexts ...
Present(x) ==
  \A i \in 1 .. Len(x) :
    x[i].parentPath # NoPath => Opened(x, x[i].parentPath)

\* ... and none is missing while there is one.
Complete(x) ==
  \A p \in Paths :
    Opened(x, p) => \A q \in Range(Clusters[p]) : Holds(x, p, q)

Tree(x) == Kinds(x) /\ Present(x) /\ Complete(x)

\* Contexts are discovered with paths.
LEMMA TopPathsArePaths ==
  /\ TopPaths \subseteq Paths /\ NoPath \notin TopPaths
  /\ \A p \in Paths : Size(p) \in Nat
<1> DEFINE All == {TopLevel(p, s) : p \in Paths, s \in StoreIDs}
<1>1. /\ Batches \in Seq(Seq(All)) /\ Clusters \in [Paths -> Seq(Paths)]
      /\ NoPath \notin Paths
  BY TuiAssumption
<1>2. \A it \in All : it.path \in Paths
  BY DEF TopLevel
<1> HIDE DEF All
<1>3. ASSUME NEW b \in Range(Batches), NEW it \in Range(b)
      PROVE  it.path \in Paths
  <2>1. b \in Seq(All)
    BY <1>1 DEF Range
  <2>2. it \in All
    BY <2>1 DEF Range
  <2>3. QED
    BY <1>2, <2>2
<1>4. TopPaths \subseteq Paths
  BY <1>3 DEF TopPaths
<1>5. \A p \in Paths : Size(p) \in Nat
  BY <1>1 DEF Size
<1>6. QED
  BY <1>1, <1>4, <1>5

\* Contexts of the stores and clusters have different paths.
LEMMA TreeFacts ==
  ASSUME ClustersAreFlat, NEW x \in Seq(Item), Kinds(x),
         NEW i \in 1 .. Len(x)
  PROVE  /\ x[i].path \in Paths /\ x[i].expanded \in BOOLEAN
         /\ x[i].path \in TopPaths <=> x[i].parentPath = NoPath
         /\ x[i].expanded = TRUE => x[i].parentPath = NoPath
         /\ x[i].parentPath # NoPath => x[i].parentPath \in TopPaths
<1>1. x[i] \in Item
  OBVIOUS
<1>2. x[i].path \in Paths /\ x[i].expanded \in BOOLEAN
  BY <1>1 DEF Item
<1>3. CASE IsTop(x[i])
  BY <1>2, <1>3 DEF IsTop
<1>4. CASE IsChild(x[i])
  <2>1. x[i].parentPath \in TopPaths /\ x[i].parentPath \in Paths
    BY <1>4, TopPathsArePaths DEF IsChild
  <2>2. x[i].path \notin TopPaths
    BY <1>4, <2>1 DEF IsChild, ClustersAreFlat
  <2>3. x[i].parentPath # NoPath /\ x[i].expanded = FALSE
    BY <1>4, <2>1, TopPathsArePaths DEF IsChild
  <2>4. QED
    BY <1>2, <2>1, <2>2, <2>3
<1>5. QED
  BY <1>3, <1>4 DEF Kinds

\* What an item is depends on where it belongs only.
LEMMA KindStays ==
  ASSUME NEW x, NEW y, Stays(y, x)
  PROVE  /\ IsTop(x) => IsTop(y)
         /\ IsChild(x) /\ y.expanded = FALSE => IsChild(y)
BY DEF Stays, IsTop, IsChild

\* The clusters of a context as they are listed.
LEMMA ChildrenAre ==
  ASSUME NEW path \in Paths
  PROVE  /\ Len(Children(path)) = Size(path)
         /\ \A k \in 1 .. Size(path) :
              /\ k \in DOMAIN Clusters[path]
              /\ Children(path)[k].path = Clusters[path][k]
              /\ Children(path)[k].parentPath = path
              /\ Children(path)[k].expanded = FALSE
              /\ Children(path)[k].isLoading = FALSE
<1> DEFINE found == Clusters[path]
           F(i) == [TopLevel(found[i], DynamicID(path))
                      EXCEPT !.parentPath = path]
<1>1. found \in Seq(Paths)
  BY TuiAssumption
<1>2. Children(path) = [i \in DOMAIN found |-> F(i)]
  BY DEF Children
<1>3. \A i : /\ F(i).path = found[i] /\ F(i).parentPath = path
             /\ F(i).expanded = FALSE /\ F(i).isLoading = FALSE
  BY DEF TopLevel
<1> HIDE DEF F
<1>4. DOMAIN found = 1 .. Len(found) /\ Len(found) \in Nat
  BY <1>1
<1> HIDE DEF found
<1>5. /\ Len(Children(path)) = Len(found)
      /\ \A k \in 1 .. Len(found) :
           k \in DOMAIN found /\ Children(path)[k] = F(k)
  BY <1>2, <1>4
<1>6. QED
  BY <1>3, <1>5 DEF found, Size

\* Where clusters are inserted.
LEMMA InsertIs ==
  ASSUME NEW items \in Seq(ListedItem), NEW path \in Paths,
         NEW at, at = FirstAt(items, path), at # 0,
         NEW n, n = Size(path), NEW z, z = Insert(items, path)
  PROVE  /\ at \in 1 .. Len(items) /\ n \in Nat
         /\ z \in Seq(ListedItem) /\ Len(z) = Len(items) + n
         /\ \A k \in 1 .. at - 1 : z[k] = items[k]
         /\ \A k \in at .. at + n - 1 :
              k - at + 1 \in 1 .. n /\ z[k] = Children(path)[k - at + 1]
         /\ \A k \in at .. Len(items) : z[k + n] = items[k]
<1> DEFINE len == Len(items)
           a == SubSeq(items, 1, at - 1)
           b == Children(path)
           c == SubSeq(items, at, len)
           ab == a \o b
<1>1. at \in 1 .. len /\ len \in Nat
  BY FirstIsThere
<1>2. z = ab \o c /\ z \in Seq(ListedItem)
  BY InsertListed DEF Insert
<1>3. b \in Seq(ListedItem) /\ Len(b) = n /\ n \in Nat
  BY ChildrenListed, ChildrenAre, TopPathsArePaths
<1>4. /\ a \in Seq(ListedItem) /\ Len(a) = at - 1
      /\ \A k \in 1 .. at - 1 : a[k] = items[k]
  <2>1. \A j \in 1 .. at - 1 : items[j] \in ListedItem
    BY <1>1
  <2>2. QED
    BY <1>1, <2>1, SubSeqProperties
<1>5. /\ c \in Seq(ListedItem) /\ Len(c) = len - at + 1
      /\ \A k \in 1 .. len - at + 1 : c[k] = items[at + k - 1]
  <2>1. \A j \in at .. len : items[j] \in ListedItem
    BY <1>1
  <2>2. QED
    BY <1>1, <2>1, SubSeqProperties
<1> HIDE DEF a, b, c, len
<1>6. /\ ab \in Seq(ListedItem) /\ Len(ab) = at - 1 + n
      /\ \A k \in 1 .. at - 1 + n :
           ab[k] = IF k <= at - 1 THEN a[k] ELSE b[k - (at - 1)]
  <2>1. /\ ab \in Seq(ListedItem) /\ Len(ab) = Len(a) + Len(b)
        /\ \A k \in 1 .. Len(a) + Len(b) :
             ab[k] = IF k <= Len(a) THEN a[k] ELSE b[k - Len(a)]
    BY <1>3, <1>4, ConcatProperties
  <2> HIDE DEF ab
  <2>2. Len(a) = at - 1 /\ Len(b) = n /\ Len(a) + Len(b) = at - 1 + n
    BY <1>3, <1>4
  <2>3. QED
    BY <2>1, <2>2
<1> HIDE DEF ab
<1>7. /\ Len(z) = len + n
      /\ \A k \in 1 .. len + n :
           z[k] = IF k <= at - 1 + n THEN ab[k] ELSE c[k - (at - 1 + n)]
  <2>1. /\ Len(ab \o c) = Len(ab) + Len(c)
        /\ \A k \in 1 .. Len(ab) + Len(c) :
             (ab \o c)[k] = IF k <= Len(ab) THEN ab[k] ELSE c[k - Len(ab)]
    BY <1>5, <1>6, ConcatProperties
  <2>2. Len(ab) + Len(c) = len + n
    BY <1>1, <1>3, <1>5, <1>6
  <2>3. QED
    BY <1>2, <1>6, <2>1, <2>2
<1>8. ASSUME NEW k \in 1 .. at - 1 PROVE z[k] = items[k]
  <2>1. k \in 1 .. len + n /\ k <= at - 1 + n /\ k \in 1 .. at - 1 + n
    BY <1>1, <1>3
  <2>2. QED
    BY <1>4, <1>6, <1>7, <2>1
<1>9. ASSUME NEW k \in at .. at + n - 1
      PROVE  k - at + 1 \in 1 .. n /\ z[k] = b[k - at + 1]
  <2>1. /\ k \in 1 .. len + n /\ k <= at - 1 + n /\ k \in 1 .. at - 1 + n
        /\ ~(k <= at - 1) /\ k - (at - 1) = k - at + 1
        /\ k - at + 1 \in 1 .. n
    BY <1>1, <1>3
  <2>2. z[k] = ab[k] /\ ab[k] = b[k - (at - 1)]
    BY <1>6, <1>7, <2>1
  <2>3. QED
    BY <2>1, <2>2
<1>10. ASSUME NEW k \in at .. len PROVE z[k + n] = items[k]
  <2>1. /\ k + n \in 1 .. len + n /\ ~(k + n <= at - 1 + n)
        /\ (k + n) - (at - 1 + n) = k - at + 1
        /\ k - at + 1 \in 1 .. len - at + 1 /\ at + (k - at + 1) - 1 = k
    BY <1>1, <1>3
  <2>2. z[k + n] = c[k - at + 1]
    BY <1>7, <2>1
  <2>3. QED
    BY <1>5, <2>1, <2>2
<1>11. QED
  BY <1>1, <1>2, <1>3, <1>7, <1>8, <1>9, <1>10 DEF len, b

\* The way up from an item ends at the path to be collapsed if it is the
\* item's parent, and otherwise at the top.
LEMMA WalkEnds ==
  ASSUME NEW x \in Seq(Item), NEW path \in Paths, NEW it, Len(x) # 0,
         \/ it.parentPath \in {path, NoPath}
         \/ /\ FirstAt(x, it.parentPath) # 0
            /\ x[FirstAt(x, it.parentPath)].parentPath = NoPath
  PROVE  Walk(x, path, it) = IF it.parentPath = path THEN path ELSE NoPath
<1> DEFINE Up(p) == LET above == FirstAt(x, p)
                    IN  IF p \in {path, NoPath} \/ above = 0 THEN p
                        ELSE x[above].parentPath
           first == it.parentPath
           last == IF first = path THEN path ELSE NoPath
           step(f) == [n \in 0 .. Len(x) |->
                         IF n = 0 THEN first ELSE Up(f[n - 1])]
           at[n \in 0 .. Len(x)] == IF n = 0 THEN first ELSE Up(at[n - 1])
           h == [n \in 0 .. Len(x) |-> IF n = 0 THEN first ELSE last]
<1>1. Walk(x, path, it) = at[Len(x)]
  BY DEF Walk
<1>2. Up(first) = last /\ Up(last) = last
  OBVIOUS
<1>3. at = CHOOSE f : f = step(f)
  OBVIOUS
<1> HIDE DEF Up, first, last, at
<1>4. Len(x) \in Nat
  OBVIOUS
<1>5. h = step(h)
  <2>1. ASSUME NEW n \in 0 .. Len(x), n # 0 PROVE Up(h[n - 1]) = last
    <3>1. n - 1 \in 0 .. Len(x)
      BY <1>4, <2>1
    <3>2. QED
      BY <1>2, <3>1
  <2>2. QED
    BY <2>1
<1> HIDE DEF h, step
<1>6. at = step(at)
  BY <1>3, <1>5, Zenon
<1>7. /\ at[0] = first
      /\ \A n \in 1 .. Len(x) : at[n] = Up(at[n - 1])
  BY <1>4, <1>6 DEF step
<1> DEFINE S == {n \in Nat : n + 1 \in 1 .. Len(x) => at[n + 1] = last}
<1>8. 0 \in S
  BY <1>2, <1>7
<1>9. ASSUME NEW n \in Nat, n \in S PROVE n + 1 \in S
  <2>1. SUFFICES ASSUME (n + 1) + 1 \in 1 .. Len(x)
                 PROVE  at[(n + 1) + 1] = last
    OBVIOUS
  <2>2. n + 1 \in 1 .. Len(x) /\ ((n + 1) + 1) - 1 = n + 1
    BY <1>4, <2>1
  <2>3. at[n + 1] = last
    BY <1>9, <2>2
  <2>4. QED
    BY <1>2, <1>7, <2>1, <2>2, <2>3
<1> HIDE DEF S
<1>10. Nat \subseteq S
  BY <1>8, <1>9, SetInduction
<1>11. Len(x) - 1 \in S /\ (Len(x) - 1) + 1 = Len(x)
  BY <1>4, <1>10
<1>12. at[Len(x)] = last
  BY <1>4, <1>11 DEF S
<1>13. QED
  BY <1>1, <1>12 DEF last, first

\* Only a context of the stores hosts clusters.
LEMMA HostIsTop ==
  ASSUME ClustersAreFlat, NEW x \in Seq(Item), Kinds(x),
         NEW i \in 1 .. Len(x), Clusters[x[i].path] # <<>>
  PROVE  IsTop(x[i])
<1>1. IsChild(x[i]) => Clusters[x[i].path] = <<>>
  BY TopPathsArePaths DEF IsChild, ClustersAreFlat
<1>2. QED
  BY <1>1 DEF Kinds

\* The clusters of a path are found at its children.
LEMMA FoundIsChild ==
  ASSUME NEW path \in Paths, NEW q \in Range(Clusters[path])
  PROVE  \E k \in 1 .. Size(path) :
           Children(path)[k].path = q /\ Children(path)[k].parentPath = path
<1> DEFINE found == Clusters[path]
<1>1. found \in Seq(Paths)
  BY TuiAssumption
<1>2. PICK k \in DOMAIN found : q = found[k]
  BY DEF Range
<1> HIDE DEF found
<1>3. k \in 1 .. Len(found)
  BY <1>1, <1>2
<1>4. k \in 1 .. Size(path)
  BY <1>3 DEF found, Size
<1>5. Children(path)[k].path = Clusters[path][k]
      /\ Children(path)[k].parentPath = path
  BY <1>4, ChildrenAre
<1>6. QED
  BY <1>2, <1>4, <1>5 DEF found

\* The items of a list have a place in another one.
AllIn(x, z) ==
  \A i \in 1 .. Len(x) : \E k \in 1 .. Len(z) : z[k] = x[i]

\* After clusters are inserted, the old items and the clusters are there.
LEMMA InsertKeepsAll ==
  ASSUME NEW items \in Seq(ListedItem), NEW path \in Paths,
         FirstAt(items, path) # 0
  PROVE  /\ AllIn(items, Insert(items, path))
         /\ AllIn(Children(path), Insert(items, path))
<1> DEFINE at == FirstAt(items, path)
           n == Size(path)
           len == Len(items)
           z == Insert(items, path)
           b == Children(path)
<1>1. /\ at \in 1 .. len /\ n \in Nat /\ Len(z) = len + n
      /\ \A k \in 1 .. at - 1 : z[k] = items[k]
      /\ \A k \in at .. at + n - 1 :
           k - at + 1 \in 1 .. n /\ z[k] = b[k - at + 1]
      /\ \A k \in at .. len : z[k + n] = items[k]
  BY InsertIs
<1>2. Len(b) = n
  BY ChildrenAre
<1>3. len \in Nat
  OBVIOUS
<1> HIDE DEF at, n, len, z, b
<1>4. ASSUME NEW i \in 1 .. len PROVE \E k \in 1 .. Len(z) : z[k] = items[i]
  <2>1. CASE i < at
    <3>1. i \in 1 .. at - 1 /\ i \in 1 .. Len(z)
      BY <1>1, <1>3, <2>1
    <3>2. QED
      BY <1>1, <3>1
  <2>2. CASE ~(i < at)
    <3>1. i \in at .. len /\ i + n \in 1 .. Len(z)
      BY <1>1, <1>3, <2>2
    <3>2. QED
      BY <1>1, <3>1
  <2>3. QED
    BY <2>1, <2>2
<1>5. ASSUME NEW i \in 1 .. n PROVE \E k \in 1 .. Len(z) : z[k] = b[i]
  <2> DEFINE k == at + i - 1
  <2>1. k \in at .. at + n - 1 /\ k \in 1 .. Len(z) /\ k - at + 1 = i
    BY <1>1, <1>3
  <2> HIDE DEF k
  <2>2. QED
    BY <1>1, <2>1
<1>6. AllIn(items, z)
  BY <1>4 DEF AllIn, len
<1>7. AllIn(b, z)
  BY <1>2, <1>5 DEF AllIn
<1>8. QED
  BY <1>6, <1>7 DEF z, b

\* No item is lost between the positions that are kept.
LEMMA ItemsAtAll ==
  ASSUME NEW items, NEW n \in Nat, NEW S \in SUBSET (1 .. n), NEW i \in S
  PROVE  \E k \in 1 .. Len(ItemsAt(items, S)) :
           ItemsAt(items, S)[k] = items[i]
<1> DEFINE R(c) == {j \in S : j <= c}
           k == Cardinality(R(i))
<1>1. IsFiniteSet(S) /\ Cardinality(S) \in Nat
  BY RankIsThere DEF IsRanked
<1>2. \A c : /\ IsFiniteSet(R(c)) /\ Cardinality(R(c)) \in Nat
             /\ Cardinality(R(c)) <= Cardinality(S)
  <2> TAKE c
  <2>1. R(c) \in SUBSET S
    OBVIOUS
  <2> HIDE DEF R
  <2>2. QED
    BY <1>1, <2>1, FS_Subset, FS_CardinalityType
<1>3. ASSUME NEW c \in S, NEW d \in S, c < d
      PROVE  Cardinality(R(c)) # Cardinality(R(d))
  <2>1. R(c) \in SUBSET R(d) /\ d \in R(d) /\ d \notin R(c)
    <3>1. \A j \in S : j \in Nat
      OBVIOUS
    <3>2. c \in Nat /\ d \in Nat /\ ~(d <= c) /\ d <= d
      BY <1>3, <3>1
    <3>3. \A j \in S : j <= c => j <= d
      BY <1>3, <3>1
    <3>4. QED
      BY <3>2, <3>3
  <2> HIDE DEF R
  <2>2. QED
    BY <1>2, <2>1, FS_Subset
<1>4. k \in 1 .. Cardinality(S)
  <2>1. i \in R(i)
    OBVIOUS
  <2>2. R(i) # {}
    BY <2>1
  <2> HIDE DEF R
  <2>3. Cardinality(R(i)) # 0
    BY <1>2, <2>2, FS_EmptySet
  <2>4. QED
    BY <1>1, <1>2, <2>3
<1> DEFINE pos(l) == CHOOSE c \in S : Cardinality({j \in S : j <= c}) = l
<1>5. pos(k) = i
  <2>1. pos(k) \in S /\ Cardinality(R(pos(k))) = k
    <3>1. \E c \in S : Cardinality({j \in S : j <= c}) = k
      OBVIOUS
    <3> HIDE DEF k
    <3>2. QED
      BY <3>1, Zenon
  <2> HIDE DEF R, pos
  <2> DEFINE c == pos(k)
  <2>2. c \in S /\ Cardinality(R(c)) = Cardinality(R(i))
    BY <2>1
  <2> HIDE DEF c
  <2>3. ~(c < i) /\ ~(i < c)
    BY <1>3, <2>2
  <2>4. c \in Nat /\ i \in Nat
    BY <2>2
  <2>5. c = i
    BY <2>3, <2>4
  <2>6. QED
    BY <2>5 DEF c
<1>6. ItemsAt(items, S) = [l \in 1 .. Cardinality(S) |-> items[pos(l)]]
  BY DEF ItemsAt
<1> HIDE DEF k, pos, R
<1>7. /\ Len(ItemsAt(items, S)) = Cardinality(S)
      /\ ItemsAt(items, S)[k] = items[i]
  BY <1>1, <1>4, <1>5, <1>6
<1>8. QED
  BY <1>4, <1>7

\* If the same contexts are marked, and no cluster is lost or comes of
\* nothing, the tree stays one.
LEMMA SameMarks ==
  ASSUME NEW x, NEW z, Tree(x), Kinds(z),
         \A p : Opened(z, p) <=> Opened(x, p),
         \A p, q : Holds(x, p, q) => Holds(z, p, q),
         \A k \in 1 .. Len(z) : z[k].parentPath # NoPath =>
           \E c \in 1 .. Len(x) : x[c].parentPath = z[k].parentPath
  PROVE  Tree(z)
<1>1. Present(z)
  <2> SUFFICES ASSUME NEW k \in 1 .. Len(z), z[k].parentPath # NoPath
               PROVE  Opened(z, z[k].parentPath)
    BY DEF Present
  <2>1. PICK c \in 1 .. Len(x) : x[c].parentPath = z[k].parentPath
    OBVIOUS
  <2>2. Opened(x, x[c].parentPath)
    BY <2>1 DEF Tree, Present
  <2>3. QED
    BY <2>1, <2>2
<1>2. Complete(z)
  BY DEF Tree, Complete
<1>3. QED
  BY <1>1, <1>2 DEF Tree

-----------------------------------------------------------------------------
(***************************************************************************)
(* Spinners, in trees of any depth.                                        *)
(***************************************************************************)
FreshItem ==
  {it \in ListedItem :
     IsTop(it) /\ it.isLoading = FALSE /\ it.expanded = FALSE}

Spinners(x, exps) ==
  \A i \in 1 .. Len(x) : x[i].isLoading = TRUE => exps[x[i].path] > 0

SInv ==
  /\ UInv
  /\ batches \in Seq(Seq(FreshItem))
  /\ Spinners(m.allItems, expansions)

\* The items of a list.
LEMMA ListedAreItems ==
  ASSUME NEW x \in Seq(ListedItem)
  PROVE  /\ x \in Seq(Item) /\ DOMAIN x = 1 .. Len(x)
         /\ \A i \in 1 .. Len(x) :
              /\ x[i] \in ListedItem /\ x[i] \in Item /\ x[i].path \in Paths
<1>1. ListedItem \subseteq Item /\ \A it \in Item : it.path \in Paths
  BY DEF ListedItem, Item
<1> HIDE DEF ListedItem, Item
<1>2. QED
  BY <1>1

\* The list is empty at first.
LEMMA InitIsEmpty ==
  ASSUME Init
  PROVE  m.allItems = <<>> /\ m.end = "no" /\ batches = Batches
<1>1. m.allItems = <<>> /\ m.end = "no"
  <2>1. "" \in Queries /\ FilterItems("", <<>>) = <<>>
    BY Zenon DEF Queries, FilterItems
  <2>2. QED
    BY <2>1, EmptyIsGood, Zenon DEF Init
<1>2. QED
  BY <1>1, Zenon DEF Init

\* What is discovered is at the top and neither loading nor expanded.
LEMMA BatchesFresh == Batches \in Seq(Seq(FreshItem))
<1> DEFINE All == {TopLevel(p, s) : p \in Paths, s \in StoreIDs}
<1>1. Batches \in Seq(Seq(All)) /\ Batches \in Seq(Seq(ListedItem))
  BY TuiAssumption, BatchesListed
<1>2. \A it \in All : /\ it.parentPath = NoPath
                      /\ it.isLoading = FALSE /\ it.expanded = FALSE
  BY DEF TopLevel
<1> HIDE DEF All
<1>3. ASSUME NEW k \in DOMAIN Batches PROVE Batches[k] \in Seq(FreshItem)
  <2> DEFINE b == Batches[k]
  <2>1. b \in Range(Batches) /\ b \in Seq(All) /\ b \in Seq(ListedItem)
    BY <1>1 DEF Range
  <2> HIDE DEF b
  <2>2. ASSUME NEW j \in DOMAIN b PROVE b[j] \in FreshItem
    <3>1. b[j] \in All /\ b[j] \in ListedItem /\ b[j] \in Range(b)
      BY <2>1 DEF Range
    <3>2. b[j].path \in TopPaths
      BY <2>1, <3>1, Zenon DEF TopPaths
    <3>3. QED
      BY <1>2, <3>1, <3>2 DEF FreshItem, IsTop
  <2>3. b \in Seq(FreshItem)
    BY <2>1, <2>2
  <2>4. QED
    BY <2>3 DEF b
<1>4. QED
  BY <1>1, <1>3

\* The next batch, and those behind it.
LEMMA HeadIsFresh ==
  ASSUME batches \in Seq(Seq(FreshItem)), batches # <<>>
  PROVE  /\ Head(batches) \in Seq(FreshItem)
         /\ Tail(batches) \in Seq(Seq(FreshItem))
OBVIOUS

\* After clusters are inserted, all items are old ones or clusters.
LEMMA InsertedFrom ==
  ASSUME NEW items \in Seq(ListedItem), NEW path \in Paths,
         NEW z, z = Insert(items, path), NEW k \in 1 .. Len(z)
  PROVE  \/ \E c \in 1 .. Len(items) : z[k] = items[c]
         \/ \E c \in 1 .. Size(path) : z[k] = Children(path)[c]
<1> DEFINE at == FirstAt(items, path)
           n == Size(path)
           len == Len(items)
<1>0. /\ len \in Nat /\ n \in Nat /\ Len(Children(path)) = n
      /\ Children(path) \in Seq(ListedItem)
  <2>1. len \in Nat
    OBVIOUS
  <2>2. n \in Nat
    BY TopPathsArePaths
  <2>3. Len(Children(path)) = n
    BY ChildrenAre
  <2>4. Children(path) \in Seq(ListedItem)
    BY ChildrenListed
  <2>5. QED
    BY <2>1, <2>2, <2>3, <2>4
<1>1. CASE at = 0
  <2>1. z = items \o Children(path)
    BY <1>1 DEF Insert
  <2>2. /\ Len(z) = len + n
        /\ z[k] = IF k <= len THEN items[k] ELSE Children(path)[k - len]
    <3> DEFINE b == Children(path)
    <3>1. /\ Len(items \o b) = Len(items) + Len(b)
          /\ \A j \in 1 .. Len(items) + Len(b) :
               (items \o b)[j] = IF j <= Len(items) THEN items[j]
                                 ELSE b[j - Len(items)]
      BY <1>0, ConcatProperties
    <3> HIDE DEF b, n
    <3>2. Len(b) = n /\ z = items \o b
      BY <1>0, <2>1 DEF b
    <3>3. Len(z) = len + n
      BY <3>1, <3>2
    <3>4. QED
      BY <3>1, <3>2, <3>3 DEF b
  <2> HIDE DEF len, n
  <2>3. CASE k <= len
    <3>1. k \in 1 .. len
      BY <1>0, <2>2, <2>3
    <3>2. QED
      BY <2>2, <2>3, <3>1 DEF len
  <2>4. CASE ~(k <= len)
    <3>1. k - len \in 1 .. n
      BY <1>0, <2>2, <2>4
    <3>2. QED
      BY <2>2, <2>4, <3>1 DEF n
  <2>5. QED
    BY <2>3, <2>4
<1>2. CASE at # 0
  <2>1. /\ at \in 1 .. len /\ Len(z) = len + n
        /\ \A j \in 1 .. at - 1 : z[j] = items[j]
        /\ \A j \in at .. at + n - 1 :
             j - at + 1 \in 1 .. n /\ z[j] = Children(path)[j - at + 1]
        /\ \A j \in at .. len : z[j + n] = items[j]
    BY <1>2, InsertIs
  <2> HIDE DEF at, len, n
  <2>2. CASE k < at
    <3>1. k \in 1 .. at - 1 /\ k \in 1 .. len
      BY <1>0, <2>1, <2>2
    <3>2. QED
      BY <2>1, <3>1 DEF len
  <2>3. CASE at <= k /\ k < at + n
    <3>1. k \in at .. at + n - 1
      BY <1>0, <2>1, <2>3
    <3>2. QED
      BY <2>1, <3>1 DEF n
  <2>4. CASE at + n <= k
    <3>1. k - n \in at .. len /\ (k - n) + n = k /\ k - n \in 1 .. len
      BY <1>0, <2>1, <2>4
    <3>2. z[k] = items[k - n]
      BY <2>1, <3>1
    <3>3. QED
      BY <3>1, <3>2 DEF len
  <2>5. QED
    BY <1>0, <2>1, <2>2, <2>3, <2>4
<1>3. QED
  BY <1>1, <1>2

\* A message that leaves the tree alone leaves the spinners alone.
LEMMA SameSpinners == SInv /\ SameTree => Spinners(m.allItems, expansions)'
BY DEF SInv, SameTree, Spinners

\* New contexts have no spinners.
LEMMA ItemsArriveSpinners ==
  ASSUME SInv, ItemsArrive
  PROVE  Spinners(m.allItems, expansions)'
<1>1. /\ m'.allItems = m.allItems \o Head(batches)
      /\ expansions' = expansions /\ batches # <<>>
  BY ItemsArriveKeeps DEF SInv, ItemsArrive
<1> DEFINE x == m.allItems
           b == Head(batches)
<1>2. x \in Seq(ListedItem) /\ b \in Seq(FreshItem)
  BY <1>1, Unfolded, RawFields, HeadIsFresh DEF SInv
<1>3. Spinners(x, expansions)
  BY DEF SInv
<1> HIDE DEF x, b
<1>4. /\ Len(x \o b) = Len(x) + Len(b) /\ Len(x) \in Nat /\ Len(b) \in Nat
      /\ \A k \in 1 .. Len(x) + Len(b) :
           (x \o b)[k] = IF k <= Len(x) THEN x[k] ELSE b[k - Len(x)]
  BY <1>2, ConcatProperties
<1>5. ASSUME NEW k \in 1 .. Len(x) + Len(b), (x \o b)[k].isLoading = TRUE
      PROVE  expansions[(x \o b)[k].path] > 0
  <2>1. CASE k <= Len(x)
    BY <1>3, <1>4, <1>5, <2>1 DEF Spinners
  <2>2. CASE ~(k <= Len(x))
    <3>1. k - Len(x) \in 1 .. Len(b)
      BY <1>4, <2>2
    <3>2. b[k - Len(x)] \in FreshItem
      BY <1>2, <3>1
    <3>3. QED
      BY <1>4, <1>5, <2>2, <3>2 DEF FreshItem
  <2>3. QED
    BY <2>1, <2>2
<1>6. Spinners(x \o b, expansions)
  BY <1>4, <1>5 DEF Spinners
<1>7. QED
  BY <1>1, <1>6 DEF x, b, Spinners

\* An answer takes the spinners of its path away.
LEMMA ExpansionArrivesSpinners ==
  ASSUME SInv, ExpansionArrives
  PROVE  Spinners(m.allItems, expansions)'
<1>1. PICK p \in Paths :
        /\ expansions[p] > 0
        /\ expansions' = [expansions EXCEPT ![p] = @ - 1]
        /\ \/ IsLit(m'.allItems, m.allItems, p, FALSE)
           \/ /\ Clusters[p] # <<>>
              /\ \E list \in Seq(ListedItem) :
                   /\ IsOpened(list, m.allItems, p, TRUE)
                   /\ m'.allItems = Insert(list, p)
  BY ExpansionArrivesKeeps DEF SInv
<1> DEFINE x == m.allItems
           z == m'.allItems
<1>2. /\ x \in Seq(ListedItem) /\ Spinners(x, expansions)
      /\ expansions \in [Paths -> 0 .. MaxAtWork]
  BY Unfolded, RawFields DEF SInv
<1>3. \A q : q # p => expansions'[q] = expansions[q] \/ q \notin Paths
  BY <1>1, <1>2
<1>4. \A i \in 1 .. Len(x) : x[i].path \in Paths
  BY <1>2, ListedAreItems
<1> HIDE DEF x
<1>5. ASSUME NEW c \in 1 .. Len(x), x[c].path # p, x[c].isLoading = TRUE
      PROVE  expansions'[x[c].path] > 0
  BY <1>2, <1>3, <1>4, <1>5 DEF Spinners
<1>6. CASE IsLit(z, x, p, FALSE)
  <2> HIDE DEF z
  <2> SUFFICES ASSUME NEW k \in 1 .. Len(z), z[k].isLoading = TRUE
               PROVE  expansions'[z[k].path] > 0
    BY DEF Spinners, z
  <2>1. k \in 1 .. Len(x) /\ x[k].path # p /\ z[k] = x[k]
    BY <1>6 DEF IsLit
  <2>2. QED
    BY <1>5, <2>1
<1>7. CASE ~IsLit(z, x, p, FALSE)
  <2>1. PICK list \in Seq(ListedItem) :
          IsOpened(list, x, p, TRUE) /\ z = Insert(list, p)
    BY <1>1, <1>7 DEF x
  <2> HIDE DEF z
  <2> SUFFICES ASSUME NEW k \in 1 .. Len(z), z[k].isLoading = TRUE
               PROVE  expansions'[z[k].path] > 0
    BY DEF Spinners, z
  <2>2. \A c \in 1 .. Size(p) : Children(p)[c].isLoading = FALSE
    BY ChildrenAre
  <2>3. PICK c \in 1 .. Len(list) : z[k] = list[c]
    BY <2>1, <2>2, InsertedFrom
  <2>4. c \in 1 .. Len(x) /\ x[c].path # p /\ list[c] = x[c]
    BY <2>1, <2>3 DEF IsOpened
  <2>5. QED
    BY <1>5, <2>3, <2>4
<1>8. QED
  BY <1>6, <1>7

\* The spinner of the selection is switched on with its expansion.
LEMMA ExpandSpinners ==
  ASSUME SInv, Expand
  PROVE  Spinners(m.allItems, expansions)'
<1> DEFINE p == Selection(m).path
           x == m.allItems
           z == m'.allItems
<1>1. /\ expansions' = [expansions EXCEPT ![p] = @ + 1]
      /\ m.filtered # <<>>
  BY DEF Expand, StartExpansion
<1>2. /\ x \in Seq(ListedItem) /\ Spinners(x, expansions)
      /\ expansions \in [Paths -> 0 .. MaxAtWork] /\ p \in Paths
  BY <1>1, Unfolded, RawFields, SelectionListed DEF SInv
<1>3. IsLit(z, x, p, TRUE)
  BY ExpandKeeps DEF SInv
<1> HIDE DEF p, x, z
<1>4. \A i \in 1 .. Len(x) : x[i].path \in Paths
  BY <1>2, ListedAreItems
<1>5. /\ \A q \in Paths : q # p => expansions'[q] = expansions[q]
      /\ expansions'[p] > 0
  <2>1. expansions[p] \in Nat /\ expansions'[p] = expansions[p] + 1
    BY <1>1, <1>2, TuiAssumption
  <2>2. QED
    BY <1>1, <1>2, <2>1
<1>6. ASSUME NEW k \in 1 .. Len(z), z[k].isLoading = TRUE
      PROVE  expansions'[z[k].path] > 0
  <2>1. k \in 1 .. Len(x)
    BY <1>3 DEF IsLit
  <2>2. CASE x[k].path = p
    BY <1>3, <1>5, <2>1, <2>2 DEF IsLit, Unmoved, Stays
  <2>3. CASE x[k].path # p
    BY <1>2, <1>3, <1>4, <1>5, <1>6, <2>1, <2>3 DEF IsLit, Spinners
  <2>4. QED
    BY <2>2, <2>3
<1>7. QED
  BY <1>6 DEF Spinners, z

\* Collapsing lights no spinner.
LEMMA CollapseSpinners ==
  ASSUME SInv, Collapse
  PROVE  Spinners(m.allItems, expansions)'
<1>1. PICK p : Collapsed(p)
  BY CollapseKeeps DEF SInv
<1>2. expansions' = expansions
  BY DEF Collapse
<1> DEFINE x == m.allItems
           z == m'.allItems
           kept == ItemsAt(x, Kept(x, p))
<1>3. x \in Seq(ListedItem) /\ Spinners(x, expansions)
  BY Unfolded, RawFields DEF SInv
<1>4. \A k \in DOMAIN kept : \E i \in 1 .. Len(x) : kept[k] = x[i]
  <2>1. Kept(x, p) \in SUBSET (DOMAIN x) /\ DOMAIN x = 1 .. Len(x)
    BY <1>3 DEF Kept
  <2>2. QED
    BY <1>3, <2>1, ItemsAtAre
<1>5. kept \in Seq(ListedItem)
  <2>1. Kept(x, p) \in SUBSET (DOMAIN x)
    BY DEF Kept
  <2>2. QED
    BY <1>3, <2>1, ItemsAtAre
<1>6. z = x \/ IsOpened(z, kept, p, FALSE)
  BY <1>1 DEF Collapsed
<1> HIDE DEF x, z, kept
<1>7. CASE z = x
  BY <1>2, <1>3, <1>7 DEF Spinners, x, z
<1>8. CASE IsOpened(z, kept, p, FALSE)
  <2>1. ASSUME NEW k \in 1 .. Len(z), z[k].isLoading = TRUE
        PROVE  expansions[z[k].path] > 0
    <3>1. k \in 1 .. Len(kept) /\ kept[k].path # p /\ z[k] = kept[k]
      BY <1>8, <2>1 DEF IsOpened
    <3>2. PICK i \in 1 .. Len(x) : kept[k] = x[i]
      BY <1>4, <1>5, <3>1
    <3>3. QED
      BY <1>3, <2>1, <3>1, <3>2 DEF Spinners
  <2>2. Spinners(z, expansions)
    BY <2>1 DEF Spinners
  <2>3. QED
    BY <1>2, <2>2 DEF Spinners, z
<1>9. QED
  BY <1>6, <1>7, <1>8

\* Every message keeps the spinners in order.
LEMMA NextKeepsSpinners == SInv /\ [Next]_vars => SInv'
<1> SUFFICES ASSUME SInv, [Next]_vars PROVE SInv'
  OBVIOUS
<1>1. UInv /\ UInv'
  BY NextKeeps DEF SInv
<1>2. (batches \in Seq(Seq(FreshItem)))'
  <2>1. \/ batches' = batches
        \/ batches # <<>> /\ batches' = Tail(batches)
    BY DEF Next, WindowSize, ItemsArrive, DiscoveryDone, PreviewArrives,
           ExpansionArrives, QueryChanges, ClearQuery, Move, Expand,
           StartExpansion, Collapse, Quit, Ended, vars
  <2>2. QED
    BY <2>1, HeadIsFresh DEF SInv
<1>3. SameTree \/ ItemsArrive \/ ExpansionArrives \/ Expand \/ Collapse
  BY <1>1, WindowKeeps, LastMessagesKeep, PreviewArrivesKeeps, QueryKeeps,
     MoveKeeps DEF Next, Ended, vars, SameTree
<1>4. Spinners(m.allItems, expansions)'
  BY <1>3, SameSpinners, ItemsArriveSpinners, ExpansionArrivesSpinners,
     ExpandSpinners, CollapseSpinners
<1>5. QED
  BY <1>1, <1>2, <1>4 DEF SInv

\* At first there are no spinners.
LEMMA InitSpinners == Init => SInv
<1> SUFFICES ASSUME Init PROVE SInv
  OBVIOUS
<1>1. UInv
  BY InitKeeps
<1>2. m.allItems = <<>> /\ batches = Batches
  BY InitIsEmpty
<1>3. QED
  BY <1>1, <1>2, BatchesFresh DEF SInv, Spinners

\* In all states, a spinner waits for an expansion.
LEMMA AlwaysSInv == Spec => []SInv
BY InitSpinners, NextKeepsSpinners, PTL DEF Spec

\* However deep the tree and however late the answers: a spinner that is
\* shown stops, as an expansion of its context is still at work.
THEOREM SpinnersWaitForAnswers == Spec => []LoadingIsPending
<1>1. SInv => LoadingIsPending
  <2> SUFFICES ASSUME SInv, NEW i \in DOMAIN m.allItems,
                      m.allItems[i].isLoading
               PROVE  expansions[m.allItems[i].path] > 0
    BY DEF LoadingIsPending
  <2>1. m.allItems \in Seq(ListedItem)
    BY Unfolded, RawFields DEF SInv
  <2>2. i \in 1 .. Len(m.allItems) /\ m.allItems[i] \in Item
    BY <2>1, ListedAreItems
  <2>3. m.allItems[i].isLoading = TRUE
    BY <2>2 DEF Item
  <2>4. QED
    BY <2>2, <2>3 DEF SInv, Spinners
<1>2. QED
  BY <1>1, AlwaysSInv, PTL

-----------------------------------------------------------------------------
(***************************************************************************)
(* The inductive invariant for trees of one level: a path has clusters     *)
(* below it exactly while a context with that path is marked, however many *)
(* there are, and an answer with clusters finds a context to put them at.  *)
(***************************************************************************)
Awaited(x, exps) ==
  \A p \in Paths : Clusters[p] # <<>> /\ exps[p] > 0 => Listed(x, p)

FInv ==
  /\ SInv
  /\ Tree(m.allItems)
  /\ Awaited(m.allItems, expansions)
  /\ m.end # "hangs"

\* What the invariant says of the list.
LEMMA FlatUnfolded ==
  ASSUME FInv
  PROVE  /\ m.allItems \in Seq(ListedItem) /\ m.allItems \in Seq(Item)
         /\ UInv /\ SInv /\ Tree(m.allItems) /\ Kinds(m.allItems)
         /\ Present(m.allItems) /\ Complete(m.allItems)
         /\ batches \in Seq(Seq(FreshItem))
         /\ expansions \in [Paths -> 0 .. MaxAtWork]
         /\ Awaited(m.allItems, expansions)
<1>1. /\ SInv /\ UInv /\ batches \in Seq(Seq(FreshItem))
      /\ Tree(m.allItems) /\ Kinds(m.allItems)
      /\ Present(m.allItems) /\ Complete(m.allItems)
      /\ Awaited(m.allItems, expansions)
  BY DEF FInv, SInv, Tree
<1>2. /\ m.allItems \in Seq(ListedItem)
      /\ expansions \in [Paths -> 0 .. MaxAtWork]
  BY <1>1, Unfolded, RawFields
<1>3. QED
  BY <1>1, <1>2, ListedAreItems

\* What a step has to keep, besides what holds in trees of any depth.
FlatPart ==
  /\ Tree(m.allItems)
  /\ Awaited(m.allItems, expansions)
  /\ m.end # "hangs"

\* A path that is expanded is one of a context of the stores.
LEMMA OpenedIsTop ==
  ASSUME ClustersAreFlat, NEW x \in Seq(Item), Kinds(x),
         NEW p, Opened(x, p)
  PROVE  p \in TopPaths /\ p \in Paths /\ p # NoPath
<1>1. PICK i \in 1 .. Len(x) : x[i].path = p /\ x[i].expanded = TRUE
  BY DEF Opened
<1>2. QED
  BY <1>1, TreeFacts, TopPathsArePaths

\* Contexts discovered later are appended, whether or not their path is
\* listed already.
LEMMA ItemsArriveFlat ==
  ASSUME ClustersAreFlat, FInv, ItemsArrive PROVE FlatPart'
<1>1. /\ m'.allItems = m.allItems \o Head(batches) /\ m'.end = "no"
      /\ expansions' = expansions
      /\ batches # <<>>
  BY FlatUnfolded, ItemsArriveKeeps DEF ItemsArrive
<1> DEFINE x == m.allItems
           b == Head(batches)
           z == x \o b
<1>2. /\ x \in Seq(ListedItem) /\ Tree(x) /\ Kinds(x)
      /\ Awaited(x, expansions) /\ b \in Seq(FreshItem)
  BY <1>1, FlatUnfolded, HeadIsFresh
<1> HIDE DEF x, b
<1>3. /\ Len(z) = Len(x) + Len(b) /\ Len(x) \in Nat /\ Len(b) \in Nat
      /\ \A k \in 1 .. Len(x) + Len(b) :
           z[k] = IF k <= Len(x) THEN x[k] ELSE b[k - Len(x)]
  BY <1>2, ConcatProperties
<1> HIDE DEF z
<1>4. \A k \in 1 .. Len(x) : k \in 1 .. Len(z) /\ z[k] = x[k]
  BY <1>3
<1>5. ASSUME NEW k \in 1 .. Len(z), ~(k <= Len(x))
      PROVE  IsTop(z[k]) /\ z[k].expanded = FALSE
  <2>1. k - Len(x) \in 1 .. Len(b) /\ z[k] = b[k - Len(x)]
    BY <1>3, <1>5
  <2>2. z[k] \in FreshItem
    BY <1>2, <2>1
  <2>3. QED
    BY <2>2 DEF FreshItem
<1>6. \A k \in 1 .. Len(z) : k <= Len(x) => k \in 1 .. Len(x)
  BY <1>3
<1>7. Kinds(z)
  BY <1>2, <1>4, <1>5, <1>6 DEF Kinds
<1>8. Tree(z)
  <2>1. \A p : Opened(z, p) <=> Opened(x, p)
    BY <1>4, <1>5, <1>6 DEF Opened
  <2>2. \A p, q : Holds(x, p, q) => Holds(z, p, q)
    BY <1>4 DEF Holds
  <2>3. \A k \in 1 .. Len(z) : z[k].parentPath # NoPath =>
          \E c \in 1 .. Len(x) : x[c].parentPath = z[k].parentPath
    BY <1>4, <1>5, <1>6 DEF IsTop
  <2>4. QED
    BY <1>2, <1>7, <2>1, <2>2, <2>3, SameMarks
<1>9. Awaited(z, expansions)
  BY <1>2, <1>4 DEF Awaited, Listed
<1>10. m'.allItems = z /\ expansions' = expansions /\ m'.end # "hangs"
  BY <1>1 DEF x, b, z
<1>11. QED
  BY <1>8, <1>9, <1>10 DEF FlatPart

\* A tree stays one while its spinners go on and off.
LEMMA LitTree ==
  ASSUME NEW x, NEW z, NEW path, NEW l, Tree(x), IsLit(z, x, path, l)
  PROVE  Tree(z) /\ \A p : Listed(x, p) => Listed(z, p)
<1>1. /\ Len(z) = Len(x)
      /\ \A i \in 1 .. Len(x) :
           Stays(z[i], x[i]) /\ z[i].expanded = x[i].expanded
  BY DEF IsLit, Unmoved, Stays
<1>2. Kinds(z)
  <2> SUFFICES ASSUME NEW i \in 1 .. Len(z) PROVE IsTop(z[i]) \/ IsChild(z[i])
    BY DEF Kinds
  <2>1. IsTop(x[i]) \/ IsChild(x[i])
    BY <1>1 DEF Tree, Kinds
  <2>2. QED
    BY <1>1, <2>1, KindStays DEF IsChild
<1>3. \A p : Opened(z, p) <=> Opened(x, p)
  BY <1>1 DEF Opened, Stays
<1>4. \A p, q : Holds(x, p, q) => Holds(z, p, q)
  BY <1>1 DEF Holds, Stays
<1>5. \A k \in 1 .. Len(z) : z[k].parentPath # NoPath =>
        \E c \in 1 .. Len(x) : x[c].parentPath = z[k].parentPath
  BY <1>1 DEF Stays
<1>6. Tree(z)
  BY <1>2, <1>3, <1>4, <1>5, SameMarks
<1>7. QED
  BY <1>1, <1>6 DEF Listed, Stays

\* An answer with clusters: they are inserted before the first context that
\* has the path, and all contexts that have it are marked.
LEMMA ClustersArriveFlat ==
  ASSUME ClustersAreFlat, FInv, NEW p \in Paths, expansions[p] > 0,
         Clusters[p] # <<>>, NEW list \in Seq(ListedItem),
         IsOpened(list, m.allItems, p, TRUE),
         m'.allItems = Insert(list, p)
  PROVE  /\ Tree(m'.allItems)
         /\ \A q : Listed(m.allItems, q) => Listed(m'.allItems, q)
<1> DEFINE x == m.allItems
           z == m'.allItems
           b == Children(p)
<1>1. /\ x \in Seq(Item) /\ Tree(x) /\ Kinds(x) /\ Listed(x, p)
      /\ Present(x) /\ Complete(x)
  BY FlatUnfolded DEF Awaited
<1>2. /\ Len(list) = Len(x)
      /\ \A i \in 1 .. Len(x) :
           /\ Stays(list[i], x[i])
           /\ x[i].path = p => list[i].expanded = TRUE
           /\ x[i].path # p => list[i] = x[i]
  BY DEF IsOpened, Stays, x
<1>3. FirstAt(list, p) # 0
  BY <1>1, <1>2, FirstIsThere DEF Listed, Stays
<1>4. AllIn(list, z) /\ AllIn(b, z)
  BY <1>3, InsertKeepsAll
<1>5. \A k \in 1 .. Len(z) :
        \/ \E c \in 1 .. Len(list) : z[k] = list[c]
        \/ \E c \in 1 .. Size(p) : z[k] = b[c]
  BY InsertedFrom
<1>6. \A c \in 1 .. Size(p) :
        /\ c \in DOMAIN Clusters[p] /\ b[c].path = Clusters[p][c]
        /\ b[c].parentPath = p /\ b[c].expanded = FALSE
  BY ChildrenAre
<1>7. Len(b) = Size(p)
  BY ChildrenAre
<1>8. \A q \in Range(Clusters[p]) : \E k \in 1 .. Size(p) :
        b[k].path = q /\ b[k].parentPath = p
  BY FoundIsChild
<1> HIDE DEF x, z, b
<1>9. p \in TopPaths
  <2>1. PICK i \in 1 .. Len(x) : x[i].path = p
    BY <1>1 DEF Listed
  <2>2. IsTop(x[i])
    BY <1>1, <2>1, HostIsTop
  <2>3. QED
    BY <2>1, <2>2 DEF IsTop
<1>10. ASSUME NEW c \in 1 .. Len(list)
       PROVE  IsTop(list[c]) \/ IsChild(list[c])
  <2>1. c \in 1 .. Len(x) /\ Stays(list[c], x[c])
    BY <1>2
  <2>2. IsTop(x[c]) \/ IsChild(x[c])
    BY <1>1, <2>1 DEF Kinds
  <2>3. CASE x[c].path = p
    <3>1. IsTop(x[c])
      BY <1>1, <2>1, <2>3, HostIsTop
    <3>2. QED
      BY <2>1, <3>1, KindStays
  <2>4. CASE x[c].path # p
    BY <1>2, <2>1, <2>2, <2>4
  <2>5. QED
    BY <2>3, <2>4
<1>11. Kinds(z)
  <2> SUFFICES ASSUME NEW k \in 1 .. Len(z) PROVE IsTop(z[k]) \/ IsChild(z[k])
    BY DEF Kinds
  <2>1. CASE \E c \in 1 .. Len(list) : z[k] = list[c]
    BY <1>10, <2>1
  <2>2. CASE \E c \in 1 .. Size(p) : z[k] = b[c]
    <3>1. PICK c \in 1 .. Size(p) : z[k] = b[c]
      BY <2>2
    <3>2. Clusters[p][c] \in Range(Clusters[p])
      BY <1>6 DEF Range
    <3>3. QED
      BY <1>6, <1>9, <3>1, <3>2 DEF IsChild
  <2>3. QED
    BY <1>5, <2>1, <2>2
<1>12. Opened(z, p)
  <2>1. PICK i \in 1 .. Len(x) : x[i].path = p
    BY <1>1 DEF Listed
  <2>2. /\ i \in 1 .. Len(list) /\ list[i].path = p
        /\ list[i].expanded = TRUE
    BY <1>2, <2>1 DEF Stays
  <2>3. PICK k \in 1 .. Len(z) : z[k] = list[i]
    BY <1>4, <2>2 DEF AllIn
  <2>4. QED
    BY <2>2, <2>3 DEF Opened
<1>13. ASSUME NEW q, q # p PROVE Opened(z, q) <=> Opened(x, q)
  <2>1. ASSUME Opened(x, q) PROVE Opened(z, q)
    <3>1. PICK i \in 1 .. Len(x) : x[i].path = q /\ x[i].expanded = TRUE
      BY <2>1 DEF Opened
    <3>2. i \in 1 .. Len(list) /\ list[i] = x[i]
      BY <1>2, <1>13, <3>1
    <3>3. PICK k \in 1 .. Len(z) : z[k] = list[i]
      BY <1>4, <3>2 DEF AllIn
    <3>4. QED
      BY <3>1, <3>2, <3>3 DEF Opened
  <2>2. ASSUME Opened(z, q) PROVE Opened(x, q)
    <3>1. PICK k \in 1 .. Len(z) : z[k].path = q /\ z[k].expanded = TRUE
      BY <2>2 DEF Opened
    <3>2. PICK c \in 1 .. Len(list) : z[k] = list[c]
      BY <1>5, <1>6, <3>1
    <3>3. c \in 1 .. Len(x) /\ x[c].path = q /\ list[c] = x[c]
      BY <1>2, <1>13, <3>1, <3>2 DEF Stays
    <3>4. QED
      BY <3>1, <3>2, <3>3 DEF Opened
  <2>3. QED
    BY <2>1, <2>2
<1>14. Present(z)
  <2> SUFFICES ASSUME NEW k \in 1 .. Len(z), z[k].parentPath # NoPath,
                      z[k].parentPath # p
               PROVE  Opened(z, z[k].parentPath)
    BY <1>12 DEF Present
  <2>1. PICK c \in 1 .. Len(list) : z[k] = list[c]
    BY <1>5, <1>6
  <2>2. c \in 1 .. Len(x) /\ x[c].parentPath = z[k].parentPath
    BY <1>2, <2>1 DEF Stays
  <2>3. Opened(x, z[k].parentPath)
    BY <1>1, <2>2 DEF Present
  <2>4. QED
    BY <1>13, <2>3
<1>15. Complete(z)
  <2> SUFFICES ASSUME NEW q \in Paths, Opened(z, q),
                      NEW r \in Range(Clusters[q])
               PROVE  Holds(z, q, r)
    BY DEF Complete
  <2>1. CASE q = p
    <3>1. PICK k \in 1 .. Len(b) : b[k].path = r /\ b[k].parentPath = p
      BY <1>7, <1>8, <2>1
    <3>2. PICK j \in 1 .. Len(z) : z[j] = b[k]
      BY <1>4 DEF AllIn
    <3>3. QED
      BY <2>1, <3>1, <3>2 DEF Holds
  <2>2. CASE q # p
    <3>1. Holds(x, q, r)
      BY <1>1, <1>13, <2>2 DEF Complete
    <3>2. PICK i \in 1 .. Len(x) : x[i].parentPath = q /\ x[i].path = r
      BY <3>1 DEF Holds
    <3>3. /\ i \in 1 .. Len(list) /\ list[i].parentPath = q
          /\ list[i].path = r
      BY <1>2, <3>2 DEF Stays
    <3>4. PICK k \in 1 .. Len(z) : z[k] = list[i]
      BY <1>4, <3>3 DEF AllIn
    <3>5. QED
      BY <3>3, <3>4 DEF Holds
  <2>3. QED
    BY <2>1, <2>2
<1>16. ASSUME NEW q, Listed(x, q) PROVE Listed(z, q)
  <2>1. PICK i \in 1 .. Len(x) : x[i].path = q
    BY <1>16 DEF Listed
  <2>2. i \in 1 .. Len(list) /\ list[i].path = q
    BY <1>2, <2>1 DEF Stays
  <2>3. PICK k \in 1 .. Len(z) : z[k] = list[i]
    BY <1>4, <2>2 DEF AllIn
  <2>4. QED
    BY <2>2, <2>3 DEF Listed
<1>17. QED
  BY <1>11, <1>14, <1>15, <1>16 DEF Tree, x, z

\* The answers to expansions.
LEMMA ExpansionArrivesFlat ==
  ASSUME ClustersAreFlat, FInv, ExpansionArrives PROVE FlatPart'
<1>1. /\ m'.end = "no"
      /\ \E p \in Paths :
           /\ expansions[p] > 0
           /\ expansions' = [expansions EXCEPT ![p] = @ - 1]
           /\ \/ IsLit(m'.allItems, m.allItems, p, FALSE)
              \/ /\ Clusters[p] # <<>>
                 /\ \E list \in Seq(ListedItem) :
                      /\ IsOpened(list, m.allItems, p, TRUE)
                      /\ m'.allItems = Insert(list, p)
  BY FlatUnfolded, ExpansionArrivesKeeps
<1>2. PICK p \in Paths :
        /\ expansions[p] > 0
        /\ expansions' = [expansions EXCEPT ![p] = @ - 1]
        /\ \/ IsLit(m'.allItems, m.allItems, p, FALSE)
           \/ /\ Clusters[p] # <<>>
              /\ \E list \in Seq(ListedItem) :
                   /\ IsOpened(list, m.allItems, p, TRUE)
                   /\ m'.allItems = Insert(list, p)
  BY <1>1
<1> DEFINE x == m.allItems
           z == m'.allItems
<1>3. /\ Tree(x) /\ Awaited(x, expansions)
      /\ expansions \in [Paths -> 0 .. MaxAtWork]
  BY FlatUnfolded
<1>4. Tree(z) /\ \A q : Listed(x, q) => Listed(z, q)
  <2>1. CASE IsLit(z, x, p, FALSE)
    <3> HIDE DEF x, z
    <3>1. QED
      BY <1>3, <2>1, LitTree
  <2>2. CASE ~IsLit(z, x, p, FALSE)
    BY <1>2, <2>2, ClustersArriveFlat
  <2>3. QED
    BY <2>1, <2>2
<1>5. \A q \in Paths : expansions'[q] > 0 => expansions[q] > 0
  BY <1>2, <1>3, TuiAssumption
<1> HIDE DEF x, z
<1>6. \A q \in Paths : Clusters[q] # <<>> /\ expansions'[q] > 0 => Listed(z, q)
  BY <1>3, <1>4, <1>5 DEF Awaited
<1>7. QED
  BY <1>1, <1>4, <1>6 DEF FlatPart, Awaited, z

\* The selection is an item of the list.
LEMMA SelectionIsItem ==
  ASSUME UInv, m.filtered # <<>>
  PROVE  \E c \in 1 .. Len(m.allItems) : Selection(m) = m.allItems[c]
<1> DEFINE x == m.allItems
           T == {x[c] : c \in 1 .. Len(x)}
<1>1. x \in Seq(Item) /\ x \in Seq(ListedItem)
  BY Unfolded, RawFields, ListedAreItems
<1>2. T \subseteq Item /\ x \in Seq(T)
  BY <1>1
<1>3. m.filtered = FilterItems(m.query, x)
  BY Unfolded DEF Good, Current
<1>4. m.filtered \in Seq(T)
  <2> HIDE DEF T
  <2>1. QED
    BY <1>2, <1>3, FilterTyped
<1>5. m.cursor + 1 \in 1 .. Len(m.filtered)
  BY Unfolded, SelectionListed
<1>6. Selection(m) \in T
  <2> HIDE DEF T
  <2>1. QED
    BY <1>4, <1>5 DEF Selection
<1>7. QED
  BY <1>6

\* The context of an expansion is listed.
LEMMA ExpandFlat ==
  ASSUME ClustersAreFlat, FInv, Expand PROVE FlatPart'
<1> DEFINE p == Selection(m).path
           x == m.allItems
           z == m'.allItems
<1>1. m.filtered # <<>> /\ expansions' = [expansions EXCEPT ![p] = @ + 1]
  BY DEF Expand, StartExpansion
<1>2. m'.end = "no" /\ IsLit(z, x, p, TRUE)
  BY ExpandKeeps, FlatUnfolded
<1>3. /\ Tree(x) /\ Awaited(x, expansions)
      /\ expansions \in [Paths -> 0 .. MaxAtWork]
  BY FlatUnfolded
<1>4. Listed(x, p)
  <2>1. PICK s \in 1 .. Len(x) : Selection(m) = x[s]
    BY <1>1, FlatUnfolded, SelectionIsItem
  <2>2. p = x[s].path
    BY <2>1
  <2> HIDE DEF p, x
  <2>3. QED
    BY <2>2 DEF Listed
<1> HIDE DEF p, x, z
<1>5. Tree(z) /\ \A q : Listed(x, q) => Listed(z, q)
  BY <1>2, <1>3, LitTree
<1>6. \A q \in Paths : q # p => expansions'[q] = expansions[q]
  BY <1>1, <1>3
<1>7. \A q \in Paths : Clusters[q] # <<>> /\ expansions'[q] > 0 => Listed(z, q)
  BY <1>3, <1>4, <1>5, <1>6 DEF Awaited
<1>8. QED
  BY <1>2, <1>5, <1>7 DEF FlatPart, Awaited, z

\* A path is collapsed only if a context that has it is expanded.
LEMMA CollapseOfExpanded ==
  ASSUME FInv, Collapse
  PROVE  \E p : Opened(m.allItems, p) /\ Collapsed(p)
<1> DEFINE x == m.allItems
<1>1. /\ m.filtered # <<>>
      /\ \/ Selection(m).expanded /\ Collapsed(Selection(m).path)
         \/ /\ Selection(m).parentPath # NoPath
            /\ Collapsed(Selection(m).parentPath)
  BY FlatUnfolded, CollapseKeeps
<1>2. PICK c \in 1 .. Len(x) : Selection(m) = x[c]
  BY <1>1, FlatUnfolded, SelectionIsItem
<1>3. x \in Seq(Item) /\ Present(x)
  BY FlatUnfolded
<1>4. CASE Selection(m).expanded /\ Collapsed(Selection(m).path)
  <2>1. x[c].expanded \in BOOLEAN
    <3>1. x[c] \in Item
      BY <1>3
    <3>2. QED
      BY <3>1 DEF Item
  <2>2. x[c].expanded /\ Collapsed(x[c].path)
    BY <1>2, <1>4, Zenon
  <2>3. x[c].expanded = TRUE
    BY <2>1, <2>2, Zenon
  <2>4. Opened(x, x[c].path)
    BY <2>3, Zenon DEF Opened
  <2>5. QED
    BY <2>2, <2>4, Zenon
<1>5. CASE /\ Selection(m).parentPath # NoPath
           /\ Collapsed(Selection(m).parentPath)
  <2>1. x[c].parentPath # NoPath /\ Collapsed(x[c].parentPath)
    BY <1>2, <1>5, Zenon
  <2>2. Opened(x, x[c].parentPath)
    BY <1>3, <2>1, Zenon DEF Present
  <2>3. QED
    BY <2>1, <2>2, Zenon
<1>6. QED
  BY <1>1, <1>4, <1>5

\* In a tree of one level the way up from an item ends, at the path that is
\* collapsed for its clusters and at the top for all others.
LEMMA WalkInTree ==
  ASSUME ClustersAreFlat, NEW x \in Seq(Item), Kinds(x), Present(x),
         NEW p \in Paths, NEW i \in 1 .. Len(x)
  PROVE  Walk(x, p, x[i]) = IF x[i].parentPath = p THEN p ELSE NoPath
<1> DEFINE q == x[i].parentPath
           at == FirstAt(x, q)
<1>1. CASE q = NoPath
  BY <1>1, WalkEnds
<1>2. CASE q # NoPath
  <2>1. PICK j \in 1 .. Len(x) : x[j].path = q
    BY <1>2 DEF Present, Opened
  <2>2. q \in TopPaths
    BY <1>2, TreeFacts
  <2> HIDE DEF q
  <2>3. at \in 1 .. Len(x) /\ at # 0 /\ x[at].path = q
    BY <2>1, FirstIsThere
  <2> HIDE DEF at
  <2>4. x[at].parentPath = NoPath
    BY <2>2, <2>3, TreeFacts
  <2>5. QED
    BY <2>3, <2>4, WalkEnds DEF q, at
<1>3. QED
  BY <1>1, <1>2

\* What is left of a tree of one level when the clusters of a path are
\* removed: it is one again.
LEMMA CollapsedTree ==
  ASSUME ClustersAreFlat, NEW x \in Seq(Item), Tree(x),
         NEW p \in TopPaths, NEW S, S = {i \in DOMAIN x : x[i].parentPath # p},
         NEW z \in Seq(Item), IsOpened(z, ItemsAt(x, S), p, FALSE)
  PROVE  /\ Tree(z)
         /\ \A q \in Paths : Clusters[q] # <<>> /\ Listed(x, q) => Listed(z, q)
<1> DEFINE y == ItemsAt(x, S)
<1>1. /\ DOMAIN x = 1 .. Len(x) /\ Len(x) \in Nat
      /\ S \in SUBSET (1 .. Len(x)) /\ S \in SUBSET (DOMAIN x)
      /\ \A i : i \in S <=> i \in 1 .. Len(x) /\ x[i].parentPath # p
  OBVIOUS
<1>2. y \in Seq(Item) /\ \A k \in DOMAIN y : \E i \in S : y[k] = x[i]
  <2>1. x \in Seq(Item) /\ S \in SUBSET (DOMAIN x)
    BY <1>1
  <2>2. QED
    BY ONLY <2>1, ItemsAtAre, Zenon
<1>3. \A i \in S : \E k \in 1 .. Len(y) : y[k] = x[i]
  BY <1>1, ItemsAtAll
<1>4. /\ Len(z) = Len(y)
      /\ \A k \in 1 .. Len(y) :
           /\ Stays(z[k], y[k])
           /\ y[k].path = p => z[k].expanded = FALSE
           /\ y[k].path # p => z[k] = y[k]
  BY DEF IsOpened, Stays
<1>5. Kinds(x) /\ Present(x) /\ Complete(x)
  BY DEF Tree
<1> HIDE DEF y
<1>6. \A k \in 1 .. Len(z) : \E i \in 1 .. Len(x) :
        /\ x[i].parentPath # p /\ Stays(z[k], x[i])
        /\ x[i].path = p => z[k].expanded = FALSE
        /\ x[i].path # p => z[k] = x[i]
  <2> SUFFICES ASSUME NEW k \in 1 .. Len(z)
               PROVE  \E i \in 1 .. Len(x) :
                        /\ x[i].parentPath # p /\ Stays(z[k], x[i])
                        /\ x[i].path = p => z[k].expanded = FALSE
                        /\ x[i].path # p => z[k] = x[i]
    OBVIOUS
  <2>1. k \in DOMAIN y /\ k \in 1 .. Len(y)
    BY <1>2, <1>4
  <2>2. PICK i \in S : y[k] = x[i]
    BY <1>2, <2>1
  <2>3. QED
    BY <1>1, <1>4, <2>1, <2>2
<1>7. \A i \in 1 .. Len(x) : x[i].parentPath # p =>
        \E k \in 1 .. Len(z) :
          Stays(z[k], x[i]) /\ (x[i].path # p => z[k] = x[i])
  <2> SUFFICES ASSUME NEW i \in 1 .. Len(x), x[i].parentPath # p
               PROVE  \E k \in 1 .. Len(z) :
                        Stays(z[k], x[i]) /\ (x[i].path # p => z[k] = x[i])
    OBVIOUS
  <2>1. PICK k \in 1 .. Len(y) : y[k] = x[i]
    BY <1>1, <1>3
  <2>2. QED
    BY <1>4, <2>1
<1>8. ~Opened(z, p)
  <2> SUFFICES ASSUME NEW k \in 1 .. Len(z), z[k].path = p,
                      z[k].expanded = TRUE
               PROVE  FALSE
    BY DEF Opened
  <2>1. QED
    BY <1>6 DEF Stays
<1>9. ASSUME NEW q PROVE Opened(z, q) <=> q # p /\ Opened(x, q)
  <2>1. ASSUME Opened(z, q) PROVE q # p /\ Opened(x, q)
    <3>1. PICK k \in 1 .. Len(z) : z[k].path = q /\ z[k].expanded = TRUE
      BY <2>1 DEF Opened
    <3>2. PICK i \in 1 .. Len(x) :
            Stays(z[k], x[i]) /\ (x[i].path # p => z[k] = x[i])
      BY <1>6
    <3>3. q # p
      BY <1>8, <2>1
    <3>4. QED
      BY <3>1, <3>2, <3>3 DEF Opened, Stays
  <2>2. ASSUME q # p, Opened(x, q) PROVE Opened(z, q)
    <3>1. PICK i \in 1 .. Len(x) : x[i].path = q /\ x[i].expanded = TRUE
      BY <2>2 DEF Opened
    <3>2. x[i].parentPath # p
      BY <1>5, <3>1, TreeFacts, TopPathsArePaths
    <3>3. PICK k \in 1 .. Len(z) : z[k] = x[i]
      BY <1>7, <2>2, <3>1, <3>2
    <3>4. QED
      BY <3>1, <3>3 DEF Opened
  <2>3. QED
    BY <2>1, <2>2
<1>10. Kinds(z)
  <2> SUFFICES ASSUME NEW k \in 1 .. Len(z) PROVE IsTop(z[k]) \/ IsChild(z[k])
    BY DEF Kinds
  <2>1. PICK i \in 1 .. Len(x) :
          /\ Stays(z[k], x[i])
          /\ x[i].path = p => z[k].expanded = FALSE
          /\ x[i].path # p => z[k] = x[i]
    BY <1>6
  <2>2. IsTop(x[i]) \/ IsChild(x[i])
    BY <1>5 DEF Kinds
  <2>3. QED
    BY <2>1, <2>2, KindStays
<1>11. Present(z)
  <2> SUFFICES ASSUME NEW k \in 1 .. Len(z), z[k].parentPath # NoPath
               PROVE  Opened(z, z[k].parentPath)
    BY DEF Present
  <2>1. PICK i \in 1 .. Len(x) : x[i].parentPath # p /\ Stays(z[k], x[i])
    BY <1>6
  <2>2. x[i].parentPath = z[k].parentPath
    BY <2>1 DEF Stays
  <2>3. Opened(x, z[k].parentPath)
    BY <1>5, <2>2 DEF Present
  <2>4. QED
    BY <1>9, <2>1, <2>2, <2>3
<1>12. Complete(z)
  <2> SUFFICES ASSUME NEW q \in Paths, Opened(z, q),
                      NEW r \in Range(Clusters[q])
               PROVE  Holds(z, q, r)
    BY DEF Complete
  <2>1. q # p /\ Holds(x, q, r)
    BY <1>5, <1>9 DEF Complete
  <2>2. PICK i \in 1 .. Len(x) : x[i].parentPath = q /\ x[i].path = r
    BY <2>1 DEF Holds
  <2>3. PICK k \in 1 .. Len(z) : Stays(z[k], x[i])
    BY <1>7, <2>1, <2>2
  <2>4. QED
    BY <2>2, <2>3 DEF Holds, Stays
<1>13. ASSUME NEW q \in Paths, Clusters[q] # <<>>, Listed(x, q)
       PROVE  Listed(z, q)
  <2>1. PICK i \in 1 .. Len(x) : x[i].path = q
    BY <1>13 DEF Listed
  <2>2. IsTop(x[i])
    BY <1>5, <1>13, <2>1, HostIsTop
  <2>3. x[i].parentPath # p
    BY <2>2, TopPathsArePaths DEF IsTop
  <2>4. PICK k \in 1 .. Len(z) : Stays(z[k], x[i])
    BY <1>7, <2>3
  <2>5. QED
    BY <2>1, <2>4 DEF Listed, Stays
<1>14. QED
  BY <1>10, <1>11, <1>12, <1>13 DEF Tree

\* The clusters of the collapsed path are removed, and nothing hangs.
LEMMA CollapseFlat ==
  ASSUME ClustersAreFlat, FInv, Collapse PROVE FlatPart'
<1> DEFINE x == m.allItems
           z == m'.allItems
<1>1. UInv' /\ expansions' = expansions
  BY FlatUnfolded, CollapseKeeps
<1>2. /\ x \in Seq(Item) /\ Tree(x) /\ Kinds(x) /\ Present(x)
      /\ Awaited(x, expansions)
  BY FlatUnfolded
<1>3. z \in Seq(Item)
  BY <1>1, RawFields, ListedAreItems DEF UInv, ModelInv, Good
<1>4. PICK p : Opened(x, p) /\ Collapsed(p)
  BY CollapseOfExpanded
<1>5. p \in TopPaths /\ p \in Paths /\ p # NoPath
  BY <1>2, <1>4, OpenedIsTop
<1> DEFINE S == {i \in DOMAIN x : x[i].parentPath # p}
<1>6. DOMAIN x = 1 .. Len(x)
  BY <1>2
<1>7. ASSUME NEW i \in DOMAIN x
      PROVE  /\ Walk(x, p, x[i]) = IF x[i].parentPath = p THEN p ELSE NoPath
             /\ x[i].path = p => x[i].parentPath # p
  BY <1>2, <1>5, <1>6, WalkInTree, TreeFacts
<1>8. \A i \in DOMAIN x : Ends(x, p, x[i])
  BY <1>7 DEF Ends
<1>9. Kept(x, p) = S
  BY <1>5, <1>7 DEF Kept
<1>10. m'.end = "no" /\ IsOpened(z, ItemsAt(x, S), p, FALSE)
  <2> HIDE DEF S
  <2>1. m'.end = "no" /\ IsOpened(z, ItemsAt(x, Kept(x, p)), p, FALSE)
    BY <1>4, <1>8 DEF Collapsed
  <2>2. QED
    BY <1>9, <2>1
<1> HIDE DEF x, z
<1>11. /\ Tree(z)
       /\ \A q \in Paths :
            Clusters[q] # <<>> /\ Listed(x, q) => Listed(z, q)
  BY <1>2, <1>3, <1>5, <1>10, CollapsedTree
<1>12. Awaited(z, expansions)
  BY <1>2, <1>11 DEF Awaited
<1>13. QED
  BY <1>1, <1>10, <1>11, <1>12 DEF FlatPart, z

\* Every message keeps a tree of one level in order.
LEMMA NextKeepsFlat ==
  ASSUME ClustersAreFlat PROVE FInv /\ [Next]_vars => FInv'
<1> SUFFICES ASSUME FInv, [Next]_vars PROVE FInv'
  OBVIOUS
<1>1. SInv /\ UInv /\ SInv'
  BY NextKeepsSpinners, FlatUnfolded
<1>2. SameTree \/ ItemsArrive \/ ExpansionArrives \/ Expand \/ Collapse
  BY <1>1, WindowKeeps, LastMessagesKeep, PreviewArrivesKeeps, QueryKeeps,
     MoveKeeps DEF Next, Ended, vars, SameTree
<1>3. SameTree => FlatPart'
  BY DEF SameTree, FInv, FlatPart
<1>4. FlatPart'
  BY <1>2, <1>3, ItemsArriveFlat, ExpansionArrivesFlat, ExpandFlat,
     CollapseFlat
<1>5. QED
  BY <1>1, <1>4 DEF FInv, FlatPart

\* What is asked of the contexts and clusters to form a tree of one level.
LEMMA FlatHypothesis == IsFlat(Batches, Clusters) => ClustersAreFlat
<1>1. DOMAIN Clusters = Paths
  BY TuiAssumption
<1>2. QED
  BY <1>1, Zenon DEF IsFlat, ClustersAreFlat, TopPaths

\* An empty list is a tree of one level.
LEMMA InitFlat == Init => FInv
<1> SUFFICES ASSUME Init PROVE FInv
  OBVIOUS
<1>1. SInv /\ m.allItems = <<>> /\ m.end # "hangs"
  BY InitSpinners, InitIsEmpty
<1>2. expansions = [p \in Paths |-> 0]
  BY Zenon DEF Init
<1>3. Tree(m.allItems)
  BY <1>1 DEF Tree, Kinds, Present, Complete, Opened
<1>4. Awaited(m.allItems, expansions)
  BY <1>2 DEF Awaited
<1>5. QED
  BY <1>1, <1>3, <1>4 DEF FInv

\* In all states the list is a tree of one level.
LEMMA AlwaysFlat ==
  ASSUME IsFlat(Batches, Clusters) PROVE Spec => []FInv
<1>1. Init => FInv
  BY InitFlat
<1>2. FInv /\ [Next]_vars => FInv'
  BY FlatHypothesis, NextKeepsFlat
<1>3. QED
  BY <1>1, <1>2, PTL DEF Spec

\* In a tree of one level, the children of a path are all its clusters if it
\* is expanded, and none if it is not.
LEMMA ChildrenOfTree ==
  ASSUME NEW x \in Seq(Item), Tree(x), NEW p \in Paths
  PROVE  ChildPaths(x, p) = IF Opened(x, p) THEN Range(Clusters[p]) ELSE {}
<1>1. DOMAIN x = 1 .. Len(x) /\ p # NoPath
  BY TuiAssumption
<1>2. \A q : q \in ChildPaths(x, p) <=> Holds(x, p, q)
  BY <1>1 DEF ChildPaths, Holds
<1>3. ASSUME NEW q, Holds(x, p, q)
      PROVE  Opened(x, p) /\ q \in Range(Clusters[p])
  <2>1. PICK i \in 1 .. Len(x) : x[i].parentPath = p /\ x[i].path = q
    BY <1>3 DEF Holds
  <2>2. Opened(x, p)
    BY <1>1, <2>1 DEF Tree, Present
  <2>3. IsChild(x[i])
    BY <1>1, <2>1 DEF Tree, Kinds, IsTop
  <2>4. QED
    BY <2>1, <2>2, <2>3 DEF IsChild
<1>4. Opened(x, p) => \A q \in Range(Clusters[p]) : Holds(x, p, q)
  BY DEF Tree, Complete
<1>5. QED
  BY <1>2, <1>3, <1>4

\* If the clusters found host no clusters and are not discovered themselves,
\* then however answers and keys overlap, and although several contexts can
\* have one path: all clusters of a path are listed while one of its contexts
\* is expanded and none otherwise, and a spinner only while it waits.
THEOREM ExpansionsStaySettled ==
  ASSUME IsFlat(Batches, Clusters) PROVE Spec => []ExpansionsSettle
<1>1. FInv => ChildrenIfExpanded
  <2> SUFFICES ASSUME FInv, NEW p \in Paths
               PROVE  ChildPaths(m.allItems, p) =
                        IF \E i \in DOMAIN m.allItems :
                             m.allItems[i].path = p /\ m.allItems[i].expanded
                        THEN Range(Clusters[p]) ELSE {}
    BY DEF ChildrenIfExpanded
  <2> DEFINE x == m.allItems
  <2>1. x \in Seq(Item) /\ Tree(x) /\ DOMAIN x = 1 .. Len(x)
    BY FlatUnfolded, ListedAreItems
  <2> HIDE DEF x
  <2>2. \A i \in 1 .. Len(x) : x[i].expanded \in BOOLEAN
    <3>1. \A i \in 1 .. Len(x) : x[i] \in Item
      BY <2>1
    <3>2. QED
      BY <3>1 DEF Item
  <2>3. (\E i \in DOMAIN x : x[i].path = p /\ x[i].expanded) <=> Opened(x, p)
    BY <2>1, <2>2, Zenon DEF Opened
  <2>4. ChildPaths(x, p) = IF Opened(x, p) THEN Range(Clusters[p]) ELSE {}
    BY <2>1, ChildrenOfTree
  <2>5. QED
    BY <2>3, <2>4, Zenon DEF x
<1>2. Spec => []ChildrenIfExpanded
  BY <1>1, AlwaysFlat, PTL
<1>3. QED
  BY <1>2, SpinnersWaitForAnswers, PTL DEF ExpansionsSettle

\* Where the clusters found host no clusters, the loop of isDescendant always
\* ends, late answers and paths shared by several contexts included.
THEOREM FlatTreesNeverHang ==
  ASSUME IsFlat(Batches, Clusters) PROVE Spec => []NeverHangs
<1>1. FInv => NeverHangs
  BY DEF FInv, NeverHangs
<1>2. QED
  BY <1>1, AlwaysFlat, PTL
=============================================================================
