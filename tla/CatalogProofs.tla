--------------------------- MODULE CatalogProofs ---------------------------
(***************************************************************************)
(* Theorems about Catalog: for any number of products, categories and      *)
(* edits, and any limits of Meta's.                                        *)
(***************************************************************************)
EXTENDS Catalog, FiniteSums, SequenceTheorems

-----------------------------------------------------------------------------
(* The order of the list.                                                  *)

LEMMA ConstantFacts ==
  /\ ProductCount \in Nat /\ MaxEdits \in Nat
  /\ MaxRows \in Nat /\ MaxRows >= 2
  /\ MaxNative \in Nat /\ MaxSections \in Nat
BY CatalogAssumption

LEMMA ProductsFacts ==
  /\ IsFiniteSet(Products) /\ Products \subseteq Nat
  /\ IsFiniteSet(Active) /\ Active \subseteq Products
<1>1. IsFiniteSet(Products)
  BY ConstantFacts, FS_Interval DEF Products
<1>2. Active \subseteq Products
  BY DEF Active
<1>3. IsFiniteSet(Active)
  BY <1>1, <1>2, FS_Subset
<1>4. Products \subseteq Nat
  BY ConstantFacts DEF Products
<1>5. QED
  BY <1>1, <1>2, <1>3, <1>4

(* The first product of a category is one of it.                           *)
LEMMA FirstFacts ==
  ASSUME NEW p \in Active
  PROVE  First(p) \in InCategoryOf(p) /\ First(p) \in Nat
<1> DEFINE S == InCategoryOf(p)
<1>1. S \subseteq Active /\ p \in S
  BY DEF InCategoryOf
<1>2. IsFiniteSet(S) /\ S \subseteq Nat
  BY <1>1, ProductsFacts, FS_Subset
<1> HIDE DEF S
<1>3. \E m \in S : \A n \in S : m <= n
  <2>1. S # {} /\ S \subseteq Int
    BY <1>1, <1>2
  <2>2. S # {} /\ S \subseteq Int => \E m \in S : \A n \in S : m <= n
    BY <1>2, HasLeast, Zenon
  <2>3. QED
    BY <2>1, <2>2
<1>4. Min(S) \in S
  BY <1>3 DEF Min
<1>5. QED
  BY <1>2, <1>4 DEF First, S

(* Two categories with the same first product are one.                     *)
LEMMA SameFirst ==
  ASSUME NEW p \in Active, NEW q \in Active
  PROVE  First(p) = First(q) <=> catalog[p].category = catalog[q].category
<1>1. CASE catalog[p].category = catalog[q].category
  <2>1. InCategoryOf(p) = InCategoryOf(q)
    BY <1>1 DEF InCategoryOf
  <2>2. QED
    BY <1>1, <2>1 DEF First
<1>2. CASE First(p) = First(q)
  BY <1>2, FirstFacts DEF InCategoryOf
<1>3. QED
  BY <1>1, <1>2

(* Before orders the active products strictly and totally.                 *)
LEMMA BeforeIsOrder ==
  /\ \A p \in Active : ~Before(p, p)
  /\ \A p, q \in Active : p # q => Before(p, q) \/ Before(q, p)
  /\ \A p, q, r \in Active : Before(p, q) /\ Before(q, r) => Before(p, r)
<1>1. \A p \in Active : p \in Nat /\ First(p) \in Nat
  BY FirstFacts, ProductsFacts
<1>2. QED
  BY <1>1 DEF Before

LEMMA PlaceGrows ==
  ASSUME NEW S \in SUBSET Active, NEW p \in S, NEW q \in S, Before(p, q)
  PROVE  Place(p, S) \in Nat /\ Place(q, S) \in Nat /\ Place(p, S) < Place(q, S)
<1> DEFINE A == {r \in S : Before(r, p)}
           B == {r \in S : Before(r, q)}
<1>1. A \subseteq B /\ p \in B /\ p \notin A
  BY BeforeIsOrder
<1>2. IsFiniteSet(B)
  <2>1. B \subseteq Active
    OBVIOUS
  <2> HIDE DEF B
  <2>2. QED
    BY <2>1, ProductsFacts, FS_Subset
<1> HIDE DEF A, B
<1>3. /\ IsFiniteSet(A) /\ Cardinality(A) <= Cardinality(B)
      /\ Cardinality(A) # Cardinality(B)
  BY <1>1, <1>2, FS_Subset
<1>4. Cardinality(A) \in Nat /\ Cardinality(B) \in Nat
  BY <1>2, <1>3, FS_CardinalityType
<1>5. QED
  BY <1>3, <1>4 DEF Place, A, B

(* Every place is taken, once.                                             *)
LEMMA PlacesTaken ==
  ASSUME NEW S \in SUBSET Active
  PROVE  /\ IsFiniteSet(S) /\ Cardinality(S) \in Nat
         /\ \A p \in S : Place(p, S) \in 0 .. Cardinality(S) - 1
         /\ \A p, q \in S : Place(p, S) = Place(q, S) => p = q
         /\ \A i \in 0 .. Cardinality(S) - 1 : \E p \in S : Place(p, S) = i
<1> DEFINE n == Cardinality(S)
           f == [p \in S |-> Place(p, S)]
<1>1. IsFiniteSet(S) /\ n \in Nat
  BY ProductsFacts, FS_Subset, FS_CardinalityType
<1>2. ASSUME NEW p \in S
      PROVE  Place(p, S) \in 0 .. n - 1
  <2> DEFINE A == {r \in S : Before(r, p)}
  <2>1. A \subseteq S /\ p \notin A
    BY BeforeIsOrder
  <2> HIDE DEF A
  <2>2. /\ IsFiniteSet(A) /\ Cardinality(A) <= n
        /\ Cardinality(A) # n /\ Cardinality(A) \in Nat
    BY <1>1, <2>1, FS_Subset, FS_CardinalityType
  <2>3. QED
    BY <1>1, <2>2 DEF Place, A
<1>3. ASSUME NEW p \in S, NEW q \in S, Place(p, S) = Place(q, S)
      PROVE  p = q
  <2>1. CASE Before(p, q)
    BY <1>3, <2>1, PlaceGrows
  <2>2. CASE Before(q, p)
    BY <1>3, <2>2, PlaceGrows
  <2>3. QED
    BY <2>1, <2>2, BeforeIsOrder
<1>4. f \in Injection(S, 0 .. n - 1)
  BY <1>2, <1>3 DEF Injection, IsInjective
<1>5. IsFiniteSet(0 .. n - 1) /\ Cardinality(0 .. n - 1) = n
  <2> HIDE DEF n
  <2>1. 0 \in Int /\ n - 1 \in Int
    BY <1>1
  <2>2. QED
    BY <1>1, <2>1, FS_Interval
<1>6. f \in Surjection(S, 0 .. n - 1)
  BY <1>4, <1>5, FS_Injection
<1>7. \A i \in 0 .. n - 1 : \E p \in S : Place(p, S) = i
  BY <1>6 DEF Surjection
<1>8. QED
  BY <1>1, <1>2, <1>3, <1>7

(* The products of S in a sequence, each once, in the order of Before.     *)
LEMMA InOrderFacts ==
  ASSUME NEW S \in SUBSET Active
  PROVE  /\ InOrder(S) \in Seq(Products) /\ Len(InOrder(S)) = Cardinality(S)
         /\ \A i \in 1 .. Cardinality(S) : InOrder(S)[i] \in S
         /\ \A p \in S : \E i \in 1 .. Cardinality(S) : InOrder(S)[i] = p
         /\ \A i, j \in 1 .. Cardinality(S) :
              i < j => Before(InOrder(S)[i], InOrder(S)[j]) /\ InOrder(S)[i] # InOrder(S)[j]
<1> DEFINE n == Cardinality(S)
           s == InOrder(S)
<1>1. n \in Nat
  BY PlacesTaken
<1>2. ASSUME NEW i \in 1 .. n
      PROVE  s[i] \in S /\ Place(s[i], S) = i - 1
  <2>1. i - 1 \in 0 .. n - 1
    <3> HIDE DEF n
    <3>1. QED
      BY <1>1
  <2>2. \E p \in S : Place(p, S) = i - 1
    BY <2>1, PlacesTaken
  <2>3. s[i] = CHOOSE p \in S : Place(p, S) = i - 1
    BY DEF InOrder
  <2>4. QED
    BY <2>2, <2>3
<1>3. s \in [1 .. n -> Products]
  <2>1. s = [i \in 1 .. n |-> s[i]]
    BY DEF InOrder
  <2>2. \A i \in 1 .. n : s[i] \in Products
    BY <1>2, ProductsFacts
  <2> HIDE DEF s, n
  <2>3. QED
    BY <2>1, <2>2
<1>4. s \in Seq(Products) /\ Len(s) = n
  <2> HIDE DEF s, n
  <2>1. QED
    BY <1>1, <1>3
<1>5. ASSUME NEW p \in S
      PROVE  \E i \in 1 .. n : s[i] = p
  <2>1. Place(p, S) \in 0 .. n - 1
    BY PlacesTaken
  <2>2. Place(p, S) + 1 \in 1 .. n /\ (Place(p, S) + 1) - 1 = Place(p, S)
    <3> HIDE DEF n
    <3>1. QED
      BY <1>1, <2>1
  <2>3. s[Place(p, S) + 1] \in S /\ Place(s[Place(p, S) + 1], S) = Place(p, S)
    BY <1>2, <2>2
  <2>4. s[Place(p, S) + 1] = p
    BY <2>3, PlacesTaken
  <2>5. QED
    BY <2>2, <2>4
<1>6. ASSUME NEW i \in 1 .. n, NEW j \in 1 .. n, i < j
      PROVE  Before(s[i], s[j]) /\ s[i] # s[j]
  <2>1. s[i] \in S /\ s[j] \in S /\ Place(s[i], S) = i - 1 /\ Place(s[j], S) = j - 1
    BY <1>2
  <2>2. i \in Int /\ j \in Int
    <3> HIDE DEF n
    <3>1. QED
      BY <1>1
  <2> HIDE DEF s, n
  <2>3. s[i] # s[j]
    BY <1>6, <2>1, <2>2
  <2>4. ~Before(s[j], s[i])
    BY <1>6, <2>1, <2>2, PlaceGrows
  <2>5. QED
    BY <2>1, <2>3, <2>4, BeforeIsOrder
<1>7. QED
  BY <1>2, <1>4, <1>5, <1>6

-----------------------------------------------------------------------------
(* What a message shows.                                                   *)

(* A sequence without repetition is as long as it has elements.            *)
LEMMA DistinctRange ==
  ASSUME NEW s \in Seq(Products), \A i, j \in 1 .. Len(s) : i < j => s[i] # s[j]
  PROVE  Cardinality(Range(s)) = Len(s)
<1>1. Len(s) \in Nat /\ DOMAIN s = 1 .. Len(s) /\ s \in [1 .. Len(s) -> Range(s)]
  BY DEF Range
<1>2. \A i, j \in 1 .. Len(s) : s[i] = s[j] => i = j
  BY <1>1
<1>3. s \in Bijection(1 .. Len(s), Range(s))
  BY <1>1, <1>2 DEF Bijection, Injection, IsInjective, Surjection, Range
<1>4. ExistsBijection(1 .. Len(s), Range(s))
  BY <1>3 DEF ExistsBijection
<1>5. QED
  BY <1>1, <1>4, FS_CountingElements

LEMMA SectionsFacts ==
  /\ Sections(<<>>) = 0
  /\ \A s \in Seq(Products) : Sections(s) \in Nat
<1>1. Sections(<<>>) = 0
  <2>1. {catalog[p].category : p \in Range(<<>>)} = {}
    BY DEF Range
  <2>2. QED
    BY <2>1, FS_EmptySet DEF Sections
<1>2. ASSUME NEW s \in Seq(Products)
      PROVE  Sections(s) \in Nat
  <2> DEFINE T == {catalog[p].category : p \in Range(s)}
             f == [i \in 1 .. Len(s) |-> catalog[s[i]].category]
  <2>1. Len(s) \in Nat /\ DOMAIN s = 1 .. Len(s)
    OBVIOUS
  <2>2. IsFiniteSet(1 .. Len(s))
    BY <2>1, FS_Interval
  <2>3. f \in Surjection(1 .. Len(s), T)
    BY <2>1 DEF Surjection, Range
  <2> HIDE DEF f, T
  <2>4. IsFiniteSet(T)
    BY <2>2, <2>3, FS_Surjection
  <2>5. Cardinality(T) \in Nat
    BY <2>4, FS_CardinalityType
  <2>6. QED
    BY <2>5 DEF Sections, T
<1>3. QED
  BY <1>1, <1>2

(* A part of an ordered list.                                              *)
LEMMA PartFacts ==
  ASSUME NEW S \in SUBSET Active, NEW m \in Nat, NEW k \in Nat, k <= Cardinality(S)
  PROVE  LET part == SubSeq(InOrder(S), m + 1, k)
         IN  /\ part \in Seq(Products)
             /\ Len(part) = IF m < k THEN k - m ELSE 0
             /\ Cardinality(Range(part)) = Len(part)
<1> DEFINE s == InOrder(S)
           n == Cardinality(S)
           part == SubSeq(s, m + 1, k)
<1>1. n \in Nat /\ \A i \in 1 .. n : s[i] \in Products
  BY PlacesTaken, InOrderFacts, ProductsFacts
<1>2. \A i, j \in 1 .. n : i < j => s[i] # s[j]
  BY InOrderFacts
<1>3. k <= n
  OBVIOUS
<1> HIDE DEF s, n
<1>4. \A i \in m + 1 .. k : i \in 1 .. n
  BY <1>1, <1>3
<1>5. /\ part \in Seq(Products)
      /\ Len(part) = IF m + 1 <= k THEN k - (m + 1) + 1 ELSE 0
      /\ \A i \in 1 .. k - (m + 1) + 1 : part[i] = s[(m + 1) + i - 1]
  <2>1. \A i \in m + 1 .. k : s[i] \in Products
    BY <1>1, <1>4
  <2>2. m + 1 \in Int /\ k \in Int
    OBVIOUS
  <2>3. QED
    BY <2>1, <2>2, SubSeqProperties
<1> HIDE DEF part
<1>6. Len(part) = IF m < k THEN k - m ELSE 0
  BY <1>5
<1>7. \A i \in 1 .. Len(part) : part[i] = s[m + i] /\ m + i \in 1 .. n
  BY <1>1, <1>3, <1>5, <1>6
<1>8. ASSUME NEW i \in 1 .. Len(part), NEW j \in 1 .. Len(part), i < j
      PROVE  part[i] # part[j]
  <2>1. i \in Int /\ j \in Int /\ m + i < m + j
    BY <1>5, <1>8
  <2>2. QED
    BY <1>2, <1>7, <2>1
<1>9. Cardinality(Range(part)) = Len(part)
  BY <1>5, <1>8, DistinctRange
<1>10. QED
  BY <1>5, <1>6, <1>9 DEF part, s

(* Where the page at offset o ends.                                        *)
End(o) == Shorter(o + Limit(o), Len(Flat))

LEMMA EndFacts ==
  ASSUME NEW o \in Nat
  PROVE  /\ Cardinality(Active) \in Nat /\ Len(Flat) = Cardinality(Active)
         /\ Flat \in Seq(Products)
         /\ Limit(o) \in Nat /\ Limit(o) >= 1
         /\ Limit(o) + (IF HasMore(o) THEN 1 ELSE 0) = MaxRows
         /\ End(o) \in Nat /\ End(o) <= Cardinality(Active) /\ End(o) <= o + Limit(o)
<1> DEFINE n == Cardinality(Active)
<1>1. n \in Nat
  BY PlacesTaken
<1>2. Len(Flat) = n /\ Flat \in Seq(Products)
  BY InOrderFacts DEF Flat
<1>3. Limit(o) \in Nat /\ Limit(o) >= 1 /\ Limit(o) + (IF HasMore(o) THEN 1 ELSE 0) = MaxRows
  BY ConstantFacts DEF Limit
<1> HIDE DEF n
<1>4. End(o) \in Nat /\ End(o) <= n /\ End(o) <= o + Limit(o)
  BY <1>1, <1>2, <1>3 DEF End, Shorter
<1>5. QED
  BY <1>1, <1>2, <1>3, <1>4 DEF n

LEMMA ListPageFacts ==
  ASSUME NEW o \in Nat
  PROVE  /\ ListPage(o).kind = "list" /\ ListPage(o).more = HasMore(o)
         /\ ListPage(o).rows = SubSeq(Flat, o + 1, End(o))
         /\ ListPage(o) \in Pages
         /\ Len(ListPage(o).rows) + (IF ListPage(o).more THEN 1 ELSE 0) <= MaxRows
         /\ Cardinality(Range(ListPage(o).rows)) = Len(ListPage(o).rows)
         /\ o < Cardinality(Active) => ListPage(o).rows # <<>>
<1> DEFINE rows == SubSeq(Flat, o + 1, End(o))
<1>1. ListPage(o) = [kind |-> "list", rows |-> rows, more |-> HasMore(o), sections |-> Sections(rows)]
  BY DEF ListPage, End
<1>2. /\ rows \in Seq(Products) /\ Cardinality(Range(rows)) = Len(rows)
      /\ Len(rows) = IF o < End(o) THEN End(o) - o ELSE 0
  BY EndFacts, PartFacts DEF Flat
<1>3. Sections(rows) \in Nat
  BY <1>2, SectionsFacts
<1> HIDE DEF rows
<1>4. Len(rows) <= Limit(o) /\ Len(rows) \in Nat
  BY <1>2, EndFacts
<1>5. Len(rows) + (IF HasMore(o) THEN 1 ELSE 0) <= MaxRows
  <2>1. Limit(o) \in Nat /\ Limit(o) + (IF HasMore(o) THEN 1 ELSE 0) = MaxRows
    BY EndFacts
  <2>2. QED
    BY <1>4, <2>1
<1>6. HasMore(o) \in BOOLEAN
  BY DEF HasMore
<1>7. o < Cardinality(Active) => rows # <<>>
  <2>1. o < Cardinality(Active) => o < End(o)
    BY EndFacts DEF End, Shorter
  <2>2. o < Cardinality(Active) => Len(rows) > 0
    BY <1>2, <2>1, EndFacts
  <2>3. QED
    BY <2>2
<1>8. ListPage(o) \in Pages
  BY <1>1, <1>2, <1>3, <1>6 DEF Pages
<1>9. QED
  BY <1>1, <1>2, <1>5, <1>7, <1>8 DEF rows

LEMMA NativePageFacts ==
  /\ NativePage.kind = "native" /\ NativePage.more = FALSE
  /\ NativePage.rows = NativeRows /\ NativePage \in Pages
  /\ Len(NativeRows) <= MaxNative /\ NativePage.sections <= MaxSections
  /\ Cardinality(Range(NativeRows)) = Len(NativeRows)
<1> DEFINE S == {p \in Active : catalog[p].tagged}
           n == Cardinality(S)
           Fits(k) == k <= MaxNative /\ Sections(SubSeq(Tagged, 1, k)) <= MaxSections
           A == {k \in 0 .. Len(Tagged) : Fits(k)}
           m == Max(A)
<1>1. n \in Nat /\ Len(Tagged) = n
  BY PlacesTaken, InOrderFacts DEF Tagged
<1>2. 0 \in A
  <2>1. SubSeq(Tagged, 1, 0) = <<>>
    BY SubSeqEmpty
  <2>2. Fits(0)
    <3>1. Sections(SubSeq(Tagged, 1, 0)) = 0
      BY <2>1, SectionsFacts
    <3>2. 0 <= MaxNative /\ 0 <= MaxSections
      BY ConstantFacts
    <3>3. QED
      BY <3>1, <3>2
  <2> HIDE DEF n, Fits
  <2>3. QED
    BY <1>1, <2>2
<1>3. m \in A
  <2>1. IsFiniteSet(A)
    <3>1. IsFiniteSet(0 .. Len(Tagged))
      BY <1>1, FS_Interval
    <3>2. A \subseteq 0 .. Len(Tagged)
      OBVIOUS
    <3> HIDE DEF A
    <3>3. QED
      BY <3>1, <3>2, FS_Subset
  <2>2. A \subseteq Int
    BY <1>1
  <2> HIDE DEF A
  <2>3. A # {} /\ A \subseteq Int => \E k \in A : \A j \in A : k >= j
    BY <2>1, HasGreatest, Zenon
  <2>4. \E k \in A : \A j \in A : k >= j
    BY <1>2, <2>2, <2>3
  <2>5. QED
    BY <2>4 DEF Max
<1>4. NativeRows = SubSeq(Tagged, 1, m)
  BY DEF NativeRows
<1>5. m \in 0 .. n /\ m <= MaxNative /\ Sections(NativeRows) <= MaxSections
  <2>1. m \in 0 .. Len(Tagged) /\ Fits(m)
    BY <1>3
  <2> HIDE DEF n, m
  <2>2. QED
    BY <1>1, <1>4, <2>1
<1> HIDE DEF A, m
<1>6. /\ NativeRows \in Seq(Products) /\ Cardinality(Range(NativeRows)) = Len(NativeRows)
      /\ Len(NativeRows) = IF 0 < m THEN m - 0 ELSE 0
  <2>1. m \in Nat /\ m <= n /\ 0 \in Nat /\ S \in SUBSET Active
    <3>1. S \in SUBSET Active
      OBVIOUS
    <3> HIDE DEF n, S
    <3>2. QED
      BY <1>1, <1>5, <3>1
  <2>2. Tagged = InOrder(S) /\ 0 + 1 = 1
    BY DEF Tagged
  <2> HIDE DEF S
  <2>3. QED
    BY <1>4, <2>1, <2>2, PartFacts
<1>7. Len(NativeRows) <= MaxNative
  <2> HIDE DEF n
  <2>1. QED
    BY <1>1, <1>5, <1>6
<1>8. Sections(NativeRows) \in Nat
  BY <1>6, SectionsFacts
<1>9. NativePage \in Pages
  BY <1>6, <1>8 DEF NativePage, Pages
<1>10. QED
  BY <1>5, <1>6, <1>7, <1>9 DEF NativePage

-----------------------------------------------------------------------------
(* The invariant.                                                          *)

PageHonest == page.more => page.kind = "list"

(* A walk nobody broke has got exactly as far as the page at the offset,   *)
(* and the page on the screen, if it is one of the list, is that page.     *)
WalkRight ==
  intact => /\ Active # {}
            /\ page.kind = "list" => page.more = HasMore(offset)
            /\ walk = SubSeq(Flat, 1, End(offset))

IInv == TypeOK /\ PageFits /\ PageHonest /\ WalkRight

(* The list is a function of the catalog.                                  *)
LEMMA SameCatalog ==
  ASSUME UNCHANGED catalog
  PROVE  /\ Active' = Active /\ Flat' = Flat
         /\ \A o : HasMore(o)' = HasMore(o) /\ End(o)' = End(o)
<1>1. Active' = Active
  BY DEF Active
<1>2. Flat' = Flat
  BY <1>1 DEF Flat, InOrder, Place, Before, First, InCategoryOf
<1>3. \A o : HasMore(o)' = HasMore(o)
  BY <1>1 DEF HasMore
<1>4. \A o : End(o)' = End(o)
  BY <1>2, <1>3 DEF End, Limit
<1>5. QED
  BY <1>1, <1>2, <1>3, <1>4

(* What _send_product_list leaves on the customer's screen.                *)
LEMMA ShowFacts ==
  ASSUME IInv, NEW o \in Nat, Show(o)
  PROVE  /\ page' \in Pages /\ seeMore' \in BOOLEAN /\ PageFits' /\ PageHonest'
         /\ Active # {} => page' = ListPage(o) \/ (page' = NativePage /\ NativeRows # <<>>)
         /\ Active = {} => page' = page
<1>0. page \in Pages /\ seeMore \in BOOLEAN /\ PageFits /\ PageHonest
  BY DEF IInv, TypeOK
<1>1. CASE Active = {}
  BY <1>0, <1>1 DEF Show, PageFits, PageHonest
<1>2. CASE Active # {}
  <2>1. PICK pg \in PagesAt(o) : page' = pg /\ seeMore' = (seeMore \/ pg.more)
    BY <1>2 DEF Show
  <2>2. pg = ListPage(o) \/ (pg = NativePage /\ NativeRows # <<>>)
    BY <2>1 DEF PagesAt
  <2>3. pg \in Pages
    BY <2>2, ListPageFacts, NativePageFacts
  <2>4. seeMore' \in BOOLEAN
    BY <1>0, <2>1, <2>3 DEF Pages
  <2>5. PageFits' /\ PageHonest'
    <3>1. CASE pg = ListPage(o)
      BY <2>1, <3>1, ListPageFacts DEF PageFits, PageHonest
    <3>2. CASE pg = NativePage
      BY <2>1, <3>2, NativePageFacts DEF PageFits, PageHonest
    <3>3. QED
      BY <2>2, <3>1, <3>2
  <2>6. QED
    BY <1>2, <2>1, <2>2, <2>3, <2>4, <2>5
<1>3. QED
  BY <1>1, <1>2

LEMMA NextOffsetFacts ==
  ASSUME IInv
  PROVE  /\ NextOffset \in Nat
         /\ Active # {} => NextOffset < Cardinality(Active)
<1>1. offset \in Nat
  BY DEF IInv, TypeOK
<1>2. Cardinality(Active) \in Nat /\ (Active # {} => Cardinality(Active) > 0)
  BY PlacesTaken, FS_EmptySet, ProductsFacts
<1>3. QED
  BY <1>1, <1>2, ConstantFacts DEF NextOffset

LEMMA WalkBreaks ==
  ASSUME BreakWalk
  PROVE  walk' \in Seq(Products) /\ intact' \in BOOLEAN /\ WalkRight'
<1>1. walk' = <<>> /\ intact' = FALSE
  BY DEF BreakWalk
<1>2. WalkRight'
  BY <1>1, Zenon DEF WalkRight
<1>3. walk' \in Seq(Products)
  BY <1>1
<1>4. QED
  BY <1>1, <1>2, <1>3

(* A walk begins.                                                          *)
LEMMA WalkBegins ==
  ASSUME IInv, UNCHANGED catalog, Show(0), offset' = 0, Walk(<<>>, Active # {})
  PROVE  walk' \in Seq(Products) /\ intact' \in BOOLEAN /\ WalkRight'
<1>1. CASE Active # {} /\ page'.kind = "list"
  <2>1. page' = ListPage(0)
    BY <1>1, ShowFacts, NativePageFacts
  <2>2. page'.more = HasMore(0) /\ page'.rows = SubSeq(Flat, 1, End(0))
    <3>1. 0 \in Nat /\ 0 + 1 = 1
      OBVIOUS
    <3>2. page'.more = HasMore(0) /\ page'.rows = SubSeq(Flat, 0 + 1, End(0))
      BY <2>1, <3>1, ListPageFacts
    <3>3. QED
      BY <3>1, <3>2
  <2>3. walk' = <<>> \o page'.rows /\ intact' = TRUE
    BY <1>1 DEF Walk
  <2>4. page'.rows \in Seq(Products)
    BY ShowFacts DEF Pages
  <2>5. walk' = page'.rows
    BY <2>3, <2>4, ConcatEmptySeq
  <2>6. QED
    BY <1>1, <2>2, <2>3, <2>4, <2>5, SameCatalog DEF WalkRight
<1>2. CASE ~(Active # {} /\ page'.kind = "list")
  BY <1>2, WalkBreaks DEF Walk
<1>3. QED
  BY <1>1, <1>2

(* A walk goes on where the last page ended.                               *)
LEMMA WalkGoesOn ==
  ASSUME IInv, UNCHANGED catalog, NextOffset # 0, Show(NextOffset),
         offset' = NextOffset, Walk(walk, intact /\ page.more)
  PROVE  walk' \in Seq(Products) /\ intact' \in BOOLEAN /\ WalkRight'
<1> DEFINE o == NextOffset
<1>0. offset \in Nat /\ o \in Nat /\ walk \in Seq(Products)
  BY NextOffsetFacts DEF IInv, TypeOK
<1>1. CASE intact /\ page.more /\ page'.kind = "list"
  <2>1. Active # {} /\ HasMore(offset) /\ walk = SubSeq(Flat, 1, End(offset))
    BY <1>1 DEF IInv, WalkRight, PageHonest
  <2>2. page' = ListPage(o)
    BY <1>0, <1>1, <2>1, ShowFacts, NativePageFacts
  <2>3. page'.more = HasMore(o) /\ page'.rows = SubSeq(Flat, o + 1, End(o))
    BY <1>0, <2>2, ListPageFacts
  <2>4. o = offset + MaxRows - 1 /\ End(offset) = o /\ o < Cardinality(Active)
    <3>1. Cardinality(Active) \in Nat /\ Len(Flat) = Cardinality(Active)
      BY <1>0, EndFacts
    <3>2. o = offset + MaxRows - 1 /\ o < Cardinality(Active)
      BY <1>0, <3>1, ConstantFacts DEF NextOffset
    <3>3. End(offset) = o
      BY <1>0, <2>1, <3>1, <3>2, ConstantFacts DEF End, Limit, Shorter
    <3>4. QED
      BY <3>2, <3>3
  <2>5. /\ Flat \in Seq(Products) /\ Len(Flat) \in Nat /\ o < Len(Flat)
        /\ End(o) \in Nat /\ End(o) <= Len(Flat) /\ o <= End(o)
    <3>1. /\ Flat \in Seq(Products) /\ Len(Flat) = Cardinality(Active)
          /\ Len(Flat) \in Nat /\ Limit(o) \in Nat
          /\ End(o) \in Nat /\ End(o) <= Len(Flat)
      BY <1>0, EndFacts
    <3>2. o <= End(o)
      BY <1>0, <2>4, <3>1 DEF End, Shorter
    <3>3. QED
      BY <2>4, <3>1, <3>2
  <2> HIDE DEF o
  <2>6. SubSeq(Flat, 1, o) \o SubSeq(Flat, o + 1, End(o)) = SubSeq(Flat, 1, End(o))
    <3>1. /\ 1 \in 1 .. Len(Flat) + 1 /\ o \in 1 - 1 .. Len(Flat)
          /\ End(o) \in o .. Len(Flat)
      BY <1>0, <2>5
    <3>2. QED
      BY <2>5, <3>1, ConcatAdjacentSubSeq
  <2>7. walk' = walk \o page'.rows /\ intact' = TRUE
    BY <1>1 DEF Walk
  <2>8. walk' = SubSeq(Flat, 1, End(o))
    BY <2>1, <2>3, <2>4, <2>6, <2>7
  <2>9. page'.rows \in Seq(Products)
    BY <1>0, ShowFacts DEF Pages, o
  <2>10. walk' \in Seq(Products)
    BY <1>0, <2>7, <2>9, ConcatProperties
  <2>11. QED
    BY <2>1, <2>3, <2>7, <2>8, <2>10, SameCatalog DEF WalkRight, o
<1>2. CASE ~(intact /\ page.more /\ page'.kind = "list")
  BY <1>2, WalkBreaks DEF Walk
<1>3. QED
  BY <1>1, <1>2

(* The page at the offset again.                                           *)
LEMMA WalkStays ==
  ASSUME IInv, UNCHANGED <<catalog, offset, walk, intact>>, Show(offset)
  PROVE  WalkRight'
<1>1. SUFFICES ASSUME intact
               PROVE  WalkRight'
  BY DEF WalkRight
<1>2. offset \in Nat /\ Active # {} /\ walk = SubSeq(Flat, 1, End(offset))
  BY <1>1 DEF IInv, TypeOK, WalkRight
<1>3. page'.kind = "list" => page'.more = HasMore(offset)
  BY <1>2, ShowFacts, ListPageFacts, NativePageFacts
<1>4. QED
  BY <1>2, <1>3, SameCatalog DEF WalkRight

LEMMA InitIInv == Init => IInv
<1> SUFFICES ASSUME Init
             PROVE  IInv
  OBVIOUS
<1>1. page = NoPage /\ walk = <<>> /\ intact = FALSE
  BY DEF Init
<1>2. NoPage \in Pages /\ NoPage.kind = "none" /\ NoPage.rows = <<>> /\ NoPage.more = FALSE
  BY DEF NoPage, Pages
<1>3. TypeOK
  <2>1. walk \in Seq(Products) /\ edits \in 0 .. MaxEdits
    BY <1>1, ConstantFacts DEF Init
  <2>2. QED
    BY <1>1, <1>2, <2>1 DEF Init, TypeOK
<1>4. PageFits
  <2>1. <<>> \in Seq(Products) /\ Len(<<>>) = 0
    OBVIOUS
  <2>2. Cardinality(Range(<<>>)) = Len(<<>>)
    <3>1. Range(<<>>) = {}
      BY DEF Range
    <3>2. QED
      BY <2>1, <3>1, FS_EmptySet
  <2>3. QED
    BY <1>1, <1>2, <2>2 DEF PageFits
<1>5. PageHonest /\ WalkRight
  BY <1>1, <1>2, Zenon DEF PageHonest, WalkRight
<1>6. QED
  BY <1>3, <1>4, <1>5 DEF IInv

(* The customer.                                                           *)
LEMMA CustomerIInv ==
  ASSUME IInv,
         \/ StartShop \/ SeeMore \/ Refresh \/ ReturnToList \/ Leave
         \/ \E p \in Products : ChooseProduct(p)
  PROVE  IInv'
<1>0. TypeOK /\ PageFits /\ PageHonest /\ 0 \in Nat /\ offset \in Nat /\ NextOffset \in Nat
  BY NextOffsetFacts DEF IInv, TypeOK
<1>1. ASSUME NEW o \in Nat, Show(o), UNCHANGED <<catalog, linked, edits>>,
             state' \in {"IDLE", "SHOP_LIST", "AWAY"}, offset' \in Nat,
             walk' \in Seq(Products), intact' \in BOOLEAN, WalkRight'
      PROVE  IInv'
  <2>1. page' \in Pages /\ seeMore' \in BOOLEAN /\ PageFits' /\ PageHonest'
    BY <1>1, ShowFacts
  <2>2. TypeOK'
    BY <1>0, <1>1, <2>1 DEF TypeOK
  <2>3. QED
    BY <1>1, <2>1, <2>2 DEF IInv
<1>2. CASE StartShop
  <2>1. walk' \in Seq(Products) /\ intact' \in BOOLEAN /\ WalkRight'
    BY <1>2, WalkBegins DEF StartShop
  <2>2. QED
    BY <1>0, <1>1, <1>2, <2>1 DEF StartShop
<1>3. CASE SeeMore
  <2>1. walk' \in Seq(Products) /\ intact' \in BOOLEAN /\ WalkRight'
    <3>1. CASE NextOffset = 0
      BY <1>3, <3>1, WalkBegins DEF SeeMore
    <3>2. CASE NextOffset # 0
      BY <1>3, <3>2, WalkGoesOn DEF SeeMore
    <3>3. QED
      BY <3>1, <3>2
  <2>2. Show(NextOffset) /\ UNCHANGED <<catalog, linked, edits>> /\ state' = state /\ offset' = NextOffset
    BY <1>3 DEF SeeMore
  <2>3. QED
    BY <1>0, <1>1, <2>1, <2>2 DEF TypeOK
<1>4. ASSUME Show(offset), UNCHANGED <<catalog, linked, offset, walk, intact, edits>>,
             state' \in {"IDLE", "SHOP_LIST", "AWAY"}
      PROVE  IInv'
  <2>1. WalkRight'
    BY <1>4, WalkStays
  <2>2. walk' \in Seq(Products) /\ intact' \in BOOLEAN /\ offset' \in Nat
    BY <1>0, <1>4 DEF TypeOK
  <2>3. QED
    BY <1>0, <1>1, <1>4, <2>1, <2>2
<1>5. CASE Refresh \/ ReturnToList
  BY <1>0, <1>4, <1>5 DEF Refresh, ReturnToList, TypeOK
<1>6. ASSUME NEW p \in Products, ChooseProduct(p)
      PROVE  IInv'
  <2>1. CASE p \in Active
    <3>1. UNCHANGED <<catalog, linked, offset, page, seeMore, walk, intact, edits>> /\ state' = "AWAY"
      BY <1>6, <2>1 DEF ChooseProduct
    <3>2. TypeOK' /\ PageFits' /\ PageHonest'
      BY <1>0, <3>1 DEF TypeOK, PageFits, PageHonest
    <3>3. WalkRight'
      BY <3>1, SameCatalog DEF IInv, WalkRight
    <3>4. QED
      BY <3>2, <3>3 DEF IInv
  <2>2. CASE p \notin Active
    BY <1>0, <1>4, <1>6, <2>2 DEF ChooseProduct, TypeOK
  <2>3. QED
    BY <2>1, <2>2
<1>7. CASE Leave
  <2>1. UNCHANGED <<catalog, linked, page, seeMore, edits>> /\ state' = "IDLE" /\ offset' = 0
    BY <1>7 DEF Leave
  <2>2. walk' \in Seq(Products) /\ intact' \in BOOLEAN /\ WalkRight'
    BY <1>7, WalkBreaks DEF Leave
  <2>3. TypeOK' /\ PageFits' /\ PageHonest'
    BY <1>0, <2>1, <2>2 DEF TypeOK, PageFits, PageHonest
  <2>4. QED
    BY <2>2, <2>3 DEF IInv
<1>8. QED
  BY <1>2, <1>3, <1>5, <1>6, <1>7

(* The merchant.                                                           *)
LEMMA EditIInv ==
  ASSUME IInv, NEW p \in Products, NEW row \in Rows, Edit(p, row)
  PROVE  IInv'
<1>0. TypeOK /\ PageFits /\ PageHonest
  BY DEF IInv
<1>1. UNCHANGED <<linked, state, offset, page, seeMore>>
  BY DEF Edit
<1>2. catalog' \in [Products -> Rows]
  BY <1>0 DEF Edit, TypeOK
<1>3. edits' \in 0 .. MaxEdits
  <2>1. edits \in 0 .. MaxEdits /\ edits < MaxEdits /\ edits' = edits + 1 /\ MaxEdits \in Nat
    BY <1>0, ConstantFacts DEF Edit, TypeOK
  <2>2. QED
    BY <2>1
<1>4. walk' \in Seq(Products) /\ intact' \in BOOLEAN /\ WalkRight'
  BY WalkBreaks DEF Edit
<1>5. TypeOK' /\ PageFits' /\ PageHonest'
  BY <1>0, <1>1, <1>2, <1>3, <1>4 DEF TypeOK, PageFits, PageHonest
<1>6. QED
  BY <1>4, <1>5 DEF IInv

LEMMA NextIInv == IInv /\ [Next]_vars => IInv'
<1> SUFFICES ASSUME IInv, [Next]_vars
             PROVE  IInv'
  OBVIOUS
<1>0. catalog \in [Products -> Rows]
  BY DEF IInv, TypeOK
<1>1. CASE UNCHANGED vars
  <2>1. UNCHANGED <<catalog, linked, state, offset, page, seeMore, walk, intact, edits>>
    BY <1>1 DEF vars
  <2>2. WalkRight'
    BY <2>1, SameCatalog DEF IInv, WalkRight
  <2>3. QED
    BY <2>1, <2>2 DEF IInv, TypeOK, PageFits, PageHonest
<1>2. CASE \/ StartShop \/ SeeMore \/ Refresh \/ ReturnToList \/ Leave
           \/ \E p \in Products : ChooseProduct(p)
  BY <1>2, CustomerIInv
<1>3. ASSUME NEW p \in Products, ToggleActive(p)
      PROVE  IInv'
  <2>1. [catalog[p] EXCEPT !.status = Toggled(@)] \in Rows
    BY <1>0 DEF Toggled, Rows
  <2>2. QED
    BY <1>3, <2>1, EditIInv DEF ToggleActive
<1>4. ASSUME NEW p \in Products, NEW c \in Categories, Recategorise(p, c)
      PROVE  IInv'
  <2>1. [catalog[p] EXCEPT !.category = c] \in Rows
    BY <1>0 DEF Rows
  <2>2. QED
    BY <1>4, <2>1, EditIInv DEF Recategorise
<1>5. ASSUME NEW p \in Products, NEW c \in Categories, NEW tagged \in BOOLEAN,
             AddProduct(p, c, tagged)
      PROVE  IInv'
  <2>1. [status |-> "active", category |-> c, tagged |-> tagged] \in Rows
    BY DEF Rows
  <2>2. QED
    BY <1>5, <2>1, EditIInv DEF AddProduct
<1>6. QED
  BY <1>1, <1>2, <1>3, <1>4, <1>5 DEF Next

-----------------------------------------------------------------------------
(* Every variable keeps its type.                                          *)
THEOREM TypeCorrect == Spec => []TypeOK
<1>1. IInv => TypeOK
  BY DEF IInv
<1>2. QED
  BY <1>1, InitIInv, NextIInv, PTL DEF Spec

(* No message exceeds Meta's limits or lists a product twice, whatever     *)
(* became of the catalog under the offset.                                 *)
THEOREM PageFitsAlways == Spec => []PageFits
<1>1. IInv => PageFits
  BY DEF IInv
<1>2. QED
  BY <1>1, InitIInv, NextIInv, PTL DEF Spec

(* Whoever turns the pages to the last one has seen every active product   *)
(* once.                                                                   *)
THEOREM EveryProductReachableAlways == Spec => []EveryProductReachable
<1>1. ASSUME IInv, intact, page.kind = "list", ~page.more
      PROVE  Range(walk) = Active /\ Len(walk) = Cardinality(Active)
  <2> DEFINE n == Cardinality(Active)
  <2>1. offset \in Nat /\ ~HasMore(offset) /\ walk = SubSeq(Flat, 1, End(offset))
    BY <1>1 DEF IInv, TypeOK, WalkRight
  <2>2. Flat \in Seq(Products) /\ Len(Flat) = n /\ n \in Nat
    BY <2>1, EndFacts
  <2>3. End(offset) = n
    <3> HIDE DEF n
    <3>1. offset + MaxRows >= n
      BY <2>1, <2>2, ConstantFacts DEF HasMore, n
    <3>2. QED
      BY <2>1, <2>2, <3>1, ConstantFacts DEF End, Limit, Shorter
  <2>4. walk = Flat
    BY <2>1, <2>2, <2>3, SubSeqFull
  <2>5. Range(Flat) = Active
    BY <2>2, InOrderFacts DEF Flat, Range
  <2>6. QED
    BY <2>2, <2>4, <2>5
<1>2. IInv => EveryProductReachable
  BY <1>1 DEF EveryProductReachable
<1>3. QED
  BY <1>2, InitIInv, NextIInv, PTL DEF Spec

(* A category's products follow one another with none of another category  *)
(* in between, also from one page to the next when a page end splits them. *)
THEOREM CategoriesStayTogetherAlways == Spec => []CategoriesStayTogether
<1>1. ASSUME IInv, intact, NEW i \in DOMAIN walk, NEW j \in DOMAIN walk, NEW k \in DOMAIN walk,
             i < j, j < k, catalog[walk[i]].category = catalog[walk[k]].category
      PROVE  catalog[walk[j]].category = catalog[walk[i]].category
  <2>1. offset \in Nat /\ walk = SubSeq(Flat, 1, End(offset))
    BY <1>1 DEF IInv, TypeOK, WalkRight
  <2>2. /\ Flat \in Seq(Products) /\ Len(Flat) = Cardinality(Active)
        /\ Cardinality(Active) \in Nat /\ End(offset) \in Nat /\ End(offset) <= Len(Flat)
    BY <2>1, EndFacts
  <2>3. \A m \in DOMAIN walk : m \in 1 .. Len(Flat) /\ walk[m] = Flat[m]
    <3>1. \A m \in 1 .. End(offset) : Flat[m] \in Products
      BY <2>2
    <3>2. /\ walk \in Seq(Products) /\ Len(walk) = End(offset)
          /\ \A m \in 1 .. End(offset) - 1 + 1 : walk[m] = Flat[1 + m - 1]
      BY <2>1, <2>2, <3>1, SubSeqProperties
    <3>3. QED
      BY <2>2, <3>2
  <2>4. /\ walk[i] \in Active /\ walk[j] \in Active /\ walk[k] \in Active
        /\ Before(walk[i], walk[j]) /\ Before(walk[j], walk[k])
    BY <1>1, <2>2, <2>3, InOrderFacts DEF Flat
  <2>5. First(walk[i]) = First(walk[k])
    BY <1>1, <2>4, SameFirst
  <2>6. First(walk[i]) \in Nat /\ First(walk[j]) \in Nat /\ First(walk[k]) \in Nat
    BY <2>4, FirstFacts
  <2>7. First(walk[j]) = First(walk[i])
    BY <2>4, <2>5, <2>6 DEF Before
  <2>8. QED
    BY <2>4, <2>7, SameFirst
<1>2. IInv => CategoriesStayTogether
  BY <1>1 DEF CategoriesStayTogether
<1>3. QED
  BY <1>2, InitIInv, NextIInv, PTL DEF Spec

(* "See more" leads to a page with products on it as long as there are     *)
(* any, however the catalog changed since the last one.                    *)
THEOREM MoreIsNeverEmptyAlways == Spec => MoreIsNeverEmpty
<1>1. ASSUME IInv, SeeMore, Active # {}
      PROVE  page'.rows # <<>>
  <2>1. NextOffset \in Nat /\ NextOffset < Cardinality(Active) /\ Show(NextOffset)
    BY <1>1, NextOffsetFacts DEF SeeMore
  <2>2. page' = ListPage(NextOffset) \/ (page' = NativePage /\ NativeRows # <<>>)
    BY <1>1, <2>1, ShowFacts
  <2>3. QED
    BY <2>1, <2>2, ListPageFacts, NativePageFacts
<1>2. IInv /\ [Next]_vars => [SeeMore /\ Active # {} => page'.rows # <<>>]_vars
  BY <1>1
<1>3. QED
  BY <1>2, InitIInv, NextIInv, PTL DEF Spec, MoreIsNeverEmpty
=============================================================================
