---------------------------- MODULE ListingProofs ----------------------------
(***************************************************************************)
(* Theorems of Listing: in the default order the pages of a list neither   *)
(* repeat nor skip a product, save at an end cut short between the two     *)
(* statements of its last page, for any products, page size and number of  *)
(* changes of the table between the requests and the statements.           *)
(***************************************************************************)
EXTENDS Listing, FiniteSetTheorems, TLAPS

-----------------------------------------------------------------------------
(* One page *)

LEMMA MatchingProducts == \A f : Matching(f) \subseteq Products
  BY DEF Matching

\* What the ids selected at a cursor are.
LEMMA IdsType ==
  ASSUME NEW S \in SUBSET Products, NEW f, NEW ids \in FirstIds(S, f, Limit + 1)
  PROVE  ids \subseteq S /\ IsFiniteSet(ids) /\ Cardinality(ids) \in 0..(Limit + 1)
  <1>1. IsFiniteSet(S) /\ Cardinality(S) \in Nat
    BY FS_Subset, FS_CardinalityType, ListingAssumption
  <1>2. ids \subseteq S /\ Cardinality(ids) = IF Cardinality(S) > Limit + 1 THEN Limit + 1 ELSE Cardinality(S)
    BY DEF FirstIds
  <1>3. Cardinality(ids) \in 0..(Limit + 1)
    BY <1>1, <1>2, ListingAssumption
  <1> QED BY <1>1, <1>2, <1>3, FS_Subset

\* In the default order they are everything in S, or the largest Limit + 1.
LEMMA IdsComplete ==
  ASSUME NEW S \in SUBSET Products, NEW f, ById(f), NEW ids \in FirstIds(S, f, Limit + 1)
  PROVE  \A p \in S : p \in ids \/ (HasNextPage(ids) /\ \A q \in ids : p < q)
  <1>1. IsFiniteSet(S) /\ Cardinality(S) \in Nat /\ S \subseteq Nat
    BY FS_Subset, FS_CardinalityType, ListingAssumption
  <1>2. /\ ids \subseteq S
        /\ Cardinality(ids) = IF Cardinality(S) > Limit + 1 THEN Limit + 1 ELSE Cardinality(S)
        /\ \A q \in ids, p \in S \ ids : q >= p
    BY DEF FirstIds, Before, ById
  <1>3. CASE Cardinality(S) > Limit + 1
    <2>1. HasNextPage(ids)
      BY <1>2, <1>3, ListingAssumption DEF HasNextPage
    <2>2. ASSUME NEW p \in S \ ids, NEW q \in ids
          PROVE  p < q
      BY <1>1, <1>2
    <2> QED BY <2>1, <2>2
  <1>4. CASE ~(Cardinality(S) > Limit + 1)
    <2>1. ids = S
      BY <1>1, <1>2, <1>4, FS_Subset
    <2> QED BY <2>1
  <1> QED BY <1>3, <1>4

\* What a page is, in any order.
LEMMA PageType ==
  ASSUME NEW f, NEW ids \in SUBSET Products, NEW r \in GetProducts(f, ids)
  PROVE  /\ r \in Page
         /\ r.items \subseteq ids
         /\ r.next # None => r.next \in r.items
         /\ r.cut => r.next = None
         /\ Cardinality(r.items) <= Limit
  <1> DEFINE R == { p \in ids : Matches(f, p) }
  <1>1. /\ r \in [items : SUBSET R, next : R \cup {None}, cut : {Cut(ids, R)}]
        /\ PageOf(R, f, r.items, r.next)
    BY DEF GetProducts
  <1>2. R \subseteq ids /\ R \subseteq Products /\ Cut(ids, R) \in BOOLEAN
    BY DEF Cut
  <1>3. r \in Page
    BY <1>1, <1>2 DEF Page
  <1>4. r.next # None => r.next \in r.items
    BY <1>1 DEF PageOf, CursorRows
  <1>5. r.cut => r.next = None
    BY <1>1 DEF PageOf, Cut
  <1>6. Cardinality(r.items) <= Limit
    <2>1. Cardinality(r.items) = Returned(R)
      BY <1>1 DEF PageOf
    <2>2. Cardinality(R) \in Nat
      BY <1>2, FS_Subset, FS_CardinalityType, ListingAssumption
    <2> QED BY <2>1, <2>2, ListingAssumption DEF Returned, HasNextPage
  <1> QED BY <1>1, <1>2, <1>3, <1>4, <1>5, <1>6

\* In the default order a page holds every one of the ids that matches when
\* the rows are read, down to its cursor; its extra row lies below.
LEMMA PageComplete ==
  ASSUME NEW f, ById(f), NEW ids \in SUBSET Products, NEW r \in GetProducts(f, ids)
  PROVE  /\ r.next # None => \A p \in r.items : p >= r.next
         /\ \A p \in ids : Matches(f, p) => p \in r.items \/ (r.next # None /\ p < r.next)
         /\ HasNextPage(ids) => r.next # None \/ r.cut
  <1> DEFINE R == { p \in ids : Matches(f, p) }
  <1>1. /\ r.items \subseteq R /\ r.cut = Cut(ids, R)
        /\ PageOf(R, f, r.items, r.next)
    BY DEF GetProducts
  <1>2. R \subseteq Products /\ R \subseteq Nat /\ r.items \subseteq Nat
    BY <1>1, ListingAssumption
  <1>3. \A p, q : Before(f, p, q) <=> p >= q
    BY DEF Before, ById
  <1>4. r.next # None => \A p \in r.items : p >= r.next
    BY <1>1, <1>3 DEF PageOf, CursorRows
  <1>5. CASE HasNextPage(R)
    <2>1. r.next \in r.items
      BY <1>1, <1>5 DEF PageOf, CursorRows
    <2>2. r.next # None
      BY <2>1, <1>1, <1>2, ListingAssumption
    <2>3. ASSUME NEW p \in R \ r.items
          PROVE  p < r.next
      <3>1. r.next >= p
        BY <2>1, <1>1, <1>3 DEF PageOf
      <3> QED BY <3>1, <2>1, <2>3, <1>2
    <2> QED BY <2>2, <2>3, <1>4
  <1>6. CASE ~HasNextPage(R)
    <2>1. IsFiniteSet(R)
      BY <1>2, FS_Subset, ListingAssumption
    <2>2. Cardinality(r.items) = Cardinality(R)
      BY <1>1, <1>6 DEF PageOf, Returned
    <2>3. r.items = R
      BY <2>1, <2>2, <1>1, FS_Subset
    <2> QED BY <2>3, <1>1, <1>4, <1>6 DEF Cut
  <1> QED BY <1>5, <1>6

-----------------------------------------------------------------------------
(* A list of pages *)

\* The pages go down from cursor to cursor, and only the last may have none.
Chain(pages) ==
  /\ \A i \in 1..Len(pages) : pages[i].next # None =>
       pages[i].next \in pages[i].items /\ \A p \in pages[i].items : p >= pages[i].next
  /\ \A i \in 1..Len(pages) : i < Len(pages) => pages[i].next # None
  /\ \A i \in 1..Len(pages) : pages[i].cut => pages[i].next = None
  /\ \A i, j \in 1..Len(pages) : i < j => \A p \in pages[j].items : p < pages[i].next

\* What stood is shown, still to come, or below an end that was cut short.
Covered(pages, stood) ==
  \A p \in stood :
    \/ p \in Shown(pages)
    \/ Cursor(pages) # None /\ p < Cursor(pages)
    \/ CutAbove(pages, p)

\* The ids selected at a cursor: whatever stood below it is among them, or
\* below them all and they are more than a page.
Picked(cursor, ids, stood) ==
  /\ \A p \in ids : BelowCursor(p, cursor)
  /\ \A p \in stood : BelowCursor(p, cursor) =>
       p \in ids \/ (HasNextPage(ids) /\ \A q \in ids : p < q)

LEMMA PageAt ==
  ASSUME NEW pages \in Seq(Page), NEW i \in 1..Len(pages)
  PROVE  /\ pages[i] \in Page
         /\ pages[i].items \subseteq Products /\ pages[i].items \subseteq Nat
         /\ pages[i].next \in Products \cup {None}
  <1>1. pages[i] \in Page
    OBVIOUS
  <1> QED BY <1>1, ListingAssumption DEF Page

LEMMA CursorType ==
  ASSUME NEW pages \in Seq(Page)
  PROVE  Cursor(pages) \in Products \cup {None}
  <1>1. CASE pages = <<>>
    BY <1>1 DEF Cursor
  <1>2. CASE pages # <<>>
    <2>1. Len(pages) \in 1..Len(pages)
      BY <1>2
    <2> QED BY <1>2, <2>1, PageAt DEF Cursor
  <1> QED BY <1>1, <1>2

LEMMA AppendPage ==
  ASSUME NEW pages \in Seq(Page), NEW r \in Page
  PROVE  /\ Append(pages, r) \in Seq(Page)
         /\ Append(pages, r) # <<>>
         /\ Len(Append(pages, r)) = Len(pages) + 1
         /\ \A i \in 1..Len(pages) : Append(pages, r)[i] = pages[i]
         /\ Append(pages, r)[Len(pages) + 1] = r
         /\ Cursor(Append(pages, r)) = r.next
         /\ \A p : CutAbove(Append(pages, r), p) <=>
                   r.cut /\ \A q \in Shown(pages) \cup r.items : p < q
         /\ Shown(Append(pages, r)) = Shown(pages) \cup r.items
  <1> DEFINE more == Append(pages, r)
  <1>1. /\ more \in Seq(Page)
        /\ more # <<>>
        /\ Len(more) = Len(pages) + 1
        /\ \A i \in 1..Len(pages) : more[i] = pages[i]
        /\ more[Len(pages) + 1] = r
    OBVIOUS
  <1>2. Cursor(more) = r.next
    BY <1>1 DEF Cursor
  <1>3. \A p : p \in Shown(more) <=> p \in Shown(pages) \/ p \in r.items
    <2>1. 1..Len(more) = 1..Len(pages) \cup {Len(pages) + 1}
      BY <1>1
    <2>2. ASSUME NEW p, p \in Shown(more)
          PROVE  p \in Shown(pages) \/ p \in r.items
      BY <2>1, <2>2, <1>1 DEF Shown
    <2>3. ASSUME NEW p, p \in Shown(pages)
          PROVE  p \in Shown(more)
      BY <2>1, <2>3, <1>1 DEF Shown
    <2>4. ASSUME NEW p, p \in r.items
          PROVE  p \in Shown(more)
      BY <2>1, <2>4, <1>1 DEF Shown
    <2> QED BY <2>2, <2>3, <2>4
  <1>4. Shown(more) = Shown(pages) \cup r.items
    BY <1>3
  <1>5. \A p : CutAbove(more, p) <=> r.cut /\ \A q \in Shown(pages) \cup r.items : p < q
    BY <1>1, <1>4 DEF CutAbove
  <1> QED BY <1>1, <1>2, <1>4, <1>5

\* Nothing a chain shows lies below its cursor.
LEMMA ShownAbove ==
  ASSUME NEW pages \in Seq(Page), Chain(pages), Cursor(pages) # None
  PROVE  \A q \in Shown(pages) : q \in Nat /\ q >= Cursor(pages)
  <1>1. pages # <<>> /\ Len(pages) \in Nat \ {0} /\ Cursor(pages) = pages[Len(pages)].next
    BY DEF Cursor
  <1>2. \A i \in 1..Len(pages) :
          pages[i].items \subseteq Nat /\ pages[i].next \in Products \cup {None}
    BY PageAt
  <1>3. Cursor(pages) \in Nat
    BY <1>1, <1>2, ListingAssumption
  <1>4. ASSUME NEW i \in 1..Len(pages), NEW q \in pages[i].items
        PROVE  q \in Nat /\ q >= Cursor(pages)
    <2>1. CASE i = Len(pages)
      BY <2>1, <1>1, <1>2, <1>4 DEF Chain
    <2>2. CASE i < Len(pages)
      <3>1. Cursor(pages) \in pages[Len(pages)].items
        BY <1>1 DEF Chain
      <3>2. Cursor(pages) < pages[i].next /\ pages[i].next # None /\ q >= pages[i].next
        BY <2>2, <3>1, <1>1, <1>4 DEF Chain
      <3>3. pages[i].next \in Nat /\ q \in Nat
        BY <3>2, <1>2, <1>4, ListingAssumption
      <3> QED BY <3>2, <3>3, <1>3
    <2> QED BY <2>1, <2>2, <1>1
  <1> QED BY <1>4 DEF Shown

\* A page read at the cursor of a chain prolongs it, and whatever stood since
\* before its ids were selected, and matches now, stays covered.
LEMMA ReadPage ==
  ASSUME NEW f, ById(f), NEW pages \in Seq(Page), Chain(pages),
         pages = <<>> \/ Cursor(pages) # None,
         NEW stood \in SUBSET Matching(f), NEW ids \in SUBSET Products,
         Picked(Cursor(pages), ids, stood),
         NEW r \in GetProducts(f, ids),
         pages = <<>> \/ Covered(pages, stood)
  PROVE  /\ Chain(Append(pages, r))
         /\ Covered(Append(pages, r), stood)
  <1> DEFINE more == Append(pages, r)
             cursor == Cursor(pages)
  <1>1. /\ r \in Page /\ r.items \subseteq ids
        /\ r.next # None => r.next \in r.items
        /\ r.cut => r.next = None
    BY PageType
  <1>2. cursor \in Products \cup {None}
    BY CursorType
  <1>3. /\ \A p \in r.items : cursor # None => p < cursor
        /\ r.next # None => \A p \in r.items : p >= r.next
        /\ \A p \in ids : Matches(f, p) => p \in r.items \/ (r.next # None /\ p < r.next)
        /\ HasNextPage(ids) => r.next # None \/ r.cut
    BY <1>1, PageComplete DEF Picked, BelowCursor
  <1>4. /\ Len(more) = Len(pages) + 1
        /\ \A i \in 1..Len(pages) : more[i] = pages[i]
        /\ more[Len(pages) + 1] = r
        /\ Cursor(more) = r.next
        /\ Shown(more) = Shown(pages) \cup r.items
        /\ \A p : CutAbove(more, p) <=> r.cut /\ \A q \in Shown(pages) \cup r.items : p < q
    BY <1>1, AppendPage
  <1>5. pages # <<>> => /\ Len(pages) \in Nat \ {0}
                        /\ cursor = pages[Len(pages)].next
    BY DEF Cursor
  <1>6. Chain(more)
    <2>1. \A i \in 1..Len(pages) :
            pages[i].items \subseteq Nat /\ pages[i].next \in Products \cup {None}
      BY PageAt
    <2>2. ASSUME NEW i \in 1..Len(more), more[i].next # None
          PROVE  more[i].next \in more[i].items /\ \A p \in more[i].items : p >= more[i].next
      BY <2>2, <1>1, <1>3, <1>4 DEF Chain
    <2>3. \A i \in 1..Len(pages) : pages[i].next # None
      BY <1>5 DEF Chain
    <2>4. ASSUME NEW i \in 1..Len(more), i < Len(more)
          PROVE  more[i].next # None
      BY <2>3, <2>4, <1>4
    <2>7. ASSUME NEW i \in 1..Len(more), more[i].cut
          PROVE  more[i].next = None
      BY <2>7, <1>1, <1>4 DEF Chain
    <2>5. ASSUME NEW i \in 1..Len(pages), NEW p \in r.items
          PROVE  p < pages[i].next
      <3>1. p < cursor /\ pages # <<>> /\ cursor # None
        BY <1>3, <1>5
      <3>2. CASE i = Len(pages)
        BY <3>1, <3>2, <1>5
      <3>3. CASE i < Len(pages)
        <4>1. cursor \in pages[Len(pages)].items
          BY <3>1, <1>5 DEF Chain
        <4>2. cursor < pages[i].next
          BY <3>3, <3>1, <4>1, <1>5 DEF Chain
        <4>3. pages[i].next \in Nat /\ cursor \in Nat /\ p \in Nat
          BY <2>1, <2>3, <1>1, <1>2, <3>1, ListingAssumption DEF Page
        <4> QED BY <3>1, <4>2, <4>3
      <3> QED BY <3>2, <3>3
    <2>6. ASSUME NEW i \in 1..Len(more), NEW j \in 1..Len(more), i < j,
                 NEW p \in more[j].items
          PROVE  p < more[i].next
      <3>1. CASE j = Len(more)
        BY <3>1, <2>5, <2>6, <1>4
      <3>2. CASE j < Len(more)
        BY <3>2, <2>6, <1>4 DEF Chain
      <3> QED BY <3>1, <3>2
    <2> QED BY <2>2, <2>4, <2>6, <2>7 DEF Chain
  <1>7. ASSUME NEW p \in stood
        PROVE  \/ p \in Shown(more)
               \/ Cursor(more) # None /\ p < Cursor(more)
               \/ CutAbove(more, p)
    <2>1. p \in Shown(pages) \/ BelowCursor(p, cursor)
      <3>1. CASE pages = <<>>
        BY <3>1 DEF BelowCursor, Cursor
      <3>2. CASE pages # <<>>
        <4>1. ~pages[Len(pages)].cut
          BY <3>2, <1>5 DEF Chain
        <4> QED BY <3>2, <4>1 DEF Covered, CutAbove, BelowCursor
      <3> QED BY <3>1, <3>2
    <2>2. Matches(f, p) /\ p \in Nat
      BY ListingAssumption DEF Matching
    <2>3. CASE p \in Shown(pages)
      BY <2>3, <1>4
    <2>4. CASE BelowCursor(p, cursor) /\ p \in ids
      BY <2>2, <2>4, <1>3, <1>4
    <2>5. CASE BelowCursor(p, cursor) /\ HasNextPage(ids) /\ \A q \in ids : p < q
      <3>1. CASE r.next # None
        BY <3>1, <2>5, <1>1, <1>4
      <3>2. CASE r.cut
        <4>1. ASSUME NEW q \in Shown(pages)
              PROVE  p < q
          <5>1. cursor # None
            BY <4>1, <1>5 DEF Shown, Cursor
          <5>2. q \in Nat /\ q >= cursor /\ p < cursor /\ cursor \in Nat
            BY <5>1, <4>1, <2>5, <1>2, ShownAbove, ListingAssumption DEF BelowCursor
          <5> QED BY <5>2, <2>2
        <4> QED BY <4>1, <3>2, <2>5, <1>1, <1>4
      <3> QED BY <3>1, <3>2, <2>5, <1>3
    <2> QED BY <2>1, <2>3, <2>4, <2>5 DEF Picked
  <1> QED BY <1>6, <1>7 DEF Covered

-----------------------------------------------------------------------------
(* The entries of the cache *)

\* What a job has read goes with its kind, and the cursor it reads at is there.
JobInv(entry) ==
  /\ entry.job.kind = "next" => Cursor(entry.pages) # None
  /\ entry.job.kind # "refetch" => entry.job.pages = <<>>
  /\ entry.job.pages # <<>> => Cursor(entry.job.pages) # None

\* The products that stood since before the request under way.
JobStood(entry) == IF entry.job.kind = "next" THEN entry.stood ELSE entry.job.stood

\* What a read page promises of those still to be read: what stood matches.
ListInv(M, entry) ==
  /\ Chain(entry.pages) /\ Chain(entry.job.pages)
  /\ entry.pages # <<>> => Covered(entry.pages, entry.stood)
  /\ entry.job.pages # <<>> => Covered(entry.job.pages, entry.job.stood)
  /\ Cursor(entry.pages) # None => entry.stood \subseteq M
  /\ entry.job.kind = "refetch" /\ (entry.job.pages # <<>> \/ entry.job.step = "rows") =>
       entry.job.stood \subseteq M
  /\ entry.job.step = "rows" => Picked(PageCursor(entry), entry.job.ids, JobStood(entry))

Small(pages) == \A i \in 1..Len(pages) : Cardinality(pages[i].items) <= Limit

EntryInv(f, M, entry) ==
  /\ entry \in Entry
  /\ Small(entry.pages) /\ Small(entry.job.pages)
  /\ JobInv(entry)
  /\ ById(f) => ListInv(M, entry)

ScalarsOK ==
  /\ status \in [Products -> {"ABSENT", "PENDING", "APPROVED", "REJECTED"}]
  /\ stocked \subseteq Products
  /\ changes \in 0..MaxChanges /\ clicks \in 0..MaxClicks
  /\ filters \in DOMAIN lists

IInv ==
  /\ ScalarsOK
  /\ lists = [f \in DOMAIN lists |-> lists[f]]
  /\ \A f \in DOMAIN lists : EntryInv(f, Matching(f), lists[f])

LEMMA NoPages ==
  /\ <<>> \in Seq(Page) /\ Chain(<<>>) /\ Small(<<>>)
  /\ Cursor(<<>>) = None
  BY DEF Chain, Small, Cursor

LEMMA FreshJob ==
  ASSUME NEW f, NEW M, NEW entry, EntryInv(f, M, entry), NEW kind \in {"idle", "next", "refetch"},
         kind = "next" => Cursor(entry.pages) # None
  PROVE  EntryInv(f, M, [entry EXCEPT !.job = JobOf(kind)])
  <1> DEFINE new == [entry EXCEPT !.job = JobOf(kind)]
  <1>1. JobOf(kind) \in Job
    BY NoPages DEF JobOf, Job
  <1>2. /\ new \in Entry
        /\ new.pages = entry.pages /\ new.stood = entry.stood
        /\ new.job = JobOf(kind)
    BY <1>1 DEF EntryInv, Entry
  <1>3. new.job.kind = kind /\ new.job.pages = <<>> /\ new.job.step = "ids"
    BY <1>2 DEF JobOf
  <1>4. JobInv(new)
    BY <1>2, <1>3, NoPages DEF JobInv
  <1>5. ById(f) => ListInv(M, new)
    BY <1>2, <1>3, NoPages DEF ListInv, EntryInv
  <1> QED BY <1>2, <1>3, <1>4, <1>5, NoPages DEF EntryInv

LEMMA EmptyEntry == \A f, M : EntryInv(f, M, Empty)
  <1>1. Idle \in Job
    BY NoPages DEF Idle, JobOf, Job
  <1>2. Empty \in Entry /\ Empty.pages = <<>> /\ Empty.job = Idle
    BY <1>1, NoPages DEF Empty, Entry
  <1>3. Idle.pages = <<>> /\ Idle.kind = "idle" /\ Idle.step = "ids"
    BY DEF Idle, JobOf
  <1> QED BY <1>2, <1>3, NoPages DEF EntryInv, JobInv, ListInv

\* The table changes under a list.
LEMMA StandingInv ==
  ASSUME NEW f, NEW M, NEW N, NEW entry, EntryInv(f, M, entry)
  PROVE  EntryInv(f, N, Standing(entry, N))
  <1> DEFINE new == Standing(entry, N)
  <1>1. /\ entry \in Entry /\ entry.job \in Job
        /\ entry.stood \in SUBSET Products /\ entry.job.stood \in SUBSET Products
    BY DEF EntryInv, Entry, Job
  <1>2. /\ new.pages = entry.pages
        /\ new.stood = IF Cursor(entry.pages) = None THEN entry.stood ELSE entry.stood \cap N
        /\ new.job.kind = entry.job.kind /\ new.job.pages = entry.job.pages
        /\ new.job.step = entry.job.step /\ new.job.ids = entry.job.ids
        /\ new.job.stood = entry.job.stood \cap N
        /\ new \in Entry
    BY <1>1 DEF Standing, Entry, Job
  <1>3. JobInv(new)
    BY <1>2 DEF JobInv, EntryInv
  <1>4. ASSUME ById(f)
        PROVE  ListInv(N, new)
    <2>1. ListInv(M, entry)
      BY <1>4 DEF EntryInv
    <2>2. /\ entry.pages # <<>> => Covered(entry.pages, new.stood)
          /\ entry.job.pages # <<>> => Covered(entry.job.pages, new.job.stood)
      BY <2>1, <1>2 DEF ListInv, Covered
    <2>3. JobStood(new) \subseteq JobStood(entry) /\ PageCursor(new) = PageCursor(entry)
      BY <1>2 DEF JobStood, PageCursor
    <2>4. new.job.step = "rows" => Picked(PageCursor(new), new.job.ids, JobStood(new))
      BY <2>1, <2>3, <1>2 DEF ListInv, Picked
    <2> QED BY <2>1, <2>2, <2>4, <1>2 DEF ListInv
  <1> QED BY <1>2, <1>3, <1>4 DEF EntryInv

LEMMA ReadSmall ==
  ASSUME NEW f, NEW ids \in SUBSET Products, NEW r \in GetProducts(f, ids),
         NEW pages \in Seq(Page), Small(pages)
  PROVE  Small(Append(pages, r))
  <1>1. r \in Page /\ Cardinality(r.items) <= Limit
    BY PageType
  <1>2. /\ Len(Append(pages, r)) = Len(pages) + 1
        /\ \A i \in 1..Len(pages) : Append(pages, r)[i] = pages[i]
        /\ Append(pages, r)[Len(pages) + 1] = r
    BY <1>1, AppendPage
  <1>3. ASSUME NEW i \in 1..Len(Append(pages, r))
        PROVE  Cardinality(Append(pages, r)[i].items) <= Limit
    BY <1>1, <1>2 DEF Small
  <1> QED BY <1>3 DEF Small

\* The first statement of a request runs.
LEMMA PickIdsInv ==
  ASSUME NEW f, NEW entry, EntryInv(f, Matching(f), entry), entry.job.kind # "idle",
         NEW ids \in FirstIds({ p \in Matching(f) : BelowCursor(p, PageCursor(entry)) }, f, Limit + 1)
  PROVE  EntryInv(f, Matching(f), [entry EXCEPT !.job.step = "rows", !.job.ids = ids,
                                                !.job.stood = Started(f, entry.job)])
  <1> DEFINE S == { p \in Matching(f) : BelowCursor(p, PageCursor(entry)) }
             stood == Started(f, entry.job)
             new == [entry EXCEPT !.job.step = "rows", !.job.ids = ids, !.job.stood = stood]
  <1>1. /\ entry \in Entry /\ entry.job \in Job
        /\ entry.job.pages \in Seq(Page) /\ entry.job.stood \in SUBSET Products
    BY DEF EntryInv, Entry, Job
  <1>2. S \in SUBSET Products /\ ids \in SUBSET Products /\ ids \subseteq S
    BY MatchingProducts, IdsType
  <1>3. stood \in SUBSET Products
    BY <1>1, MatchingProducts DEF Started
  <1>4. /\ new \in Entry
        /\ new.pages = entry.pages /\ new.stood = entry.stood
        /\ new.job.kind = entry.job.kind /\ new.job.pages = entry.job.pages
        /\ new.job.step = "rows" /\ new.job.ids = ids /\ new.job.stood = stood
    BY <1>1, <1>2, <1>3 DEF Entry, Job
  <1>5. JobInv(new)
    BY <1>4 DEF JobInv, EntryInv
  <1>6. ASSUME ById(f)
        PROVE  ListInv(Matching(f), new)
    <2>1. ListInv(Matching(f), entry)
      BY <1>6 DEF EntryInv
    <2>2. entry.job.kind \in {"next", "refetch"}
      BY <1>1 DEF Job
    <2>3. entry.job.kind = "refetch" => stood \subseteq Matching(f)
      BY <2>1 DEF ListInv, Started
    <2>4. entry.job.kind = "next" => entry.stood \subseteq Matching(f)
      BY <2>1 DEF ListInv, EntryInv, JobInv
    <2>5. JobStood(new) \subseteq Matching(f) /\ PageCursor(new) = PageCursor(entry)
      BY <2>2, <2>3, <2>4, <1>4 DEF JobStood, PageCursor
    <2>6. \A p \in S : p \in ids \/ (HasNextPage(ids) /\ \A q \in ids : p < q)
      BY <1>2, <1>6, IdsComplete
    <2>7. Picked(PageCursor(new), ids, JobStood(new))
      BY <2>5, <2>6, <1>2 DEF Picked
    <2>8. entry.job.pages # <<>> => stood = entry.job.stood
      BY DEF Started
    <2> QED BY <2>1, <2>3, <2>7, <2>8, <1>4 DEF ListInv
  <1> QED BY <1>4, <1>5, <1>6 DEF EntryInv

\* The next page comes in.
LEMMA NextPageInv ==
  ASSUME NEW f, NEW entry, EntryInv(f, Matching(f), entry), entry.job.kind = "next", entry.job.step = "rows",
         NEW r \in GetProducts(f, entry.job.ids)
  PROVE  EntryInv(f, Matching(f), [entry EXCEPT !.pages = Append(@, r), !.job = Idle])
  <1> DEFINE pages == Append(entry.pages, r)
             new == [entry EXCEPT !.pages = Append(@, r), !.job = Idle]
  <1>1. /\ entry \in Entry /\ entry.pages \in Seq(Page) /\ Small(entry.pages)
        /\ Cursor(entry.pages) # None /\ entry.job.ids \in SUBSET Products
    BY DEF EntryInv, Entry, JobInv, Job
  <1>2. r \in Page /\ Idle \in Job
    BY <1>1, PageType, NoPages DEF Idle, JobOf, Job
  <1>3. pages \in Seq(Page) /\ pages # <<>> /\ Cursor(pages) = r.next
    BY <1>1, <1>2, AppendPage
  <1>4. /\ new \in Entry
        /\ new.pages = pages /\ new.stood = entry.stood /\ new.job = Idle
    BY <1>1, <1>2, <1>3 DEF Entry
  <1>5. Idle.kind = "idle" /\ Idle.pages = <<>> /\ Idle.step = "ids"
    BY DEF Idle, JobOf
  <1>6. JobInv(new) /\ Small(new.pages) /\ Small(new.job.pages)
    BY <1>1, <1>4, <1>5, NoPages, ReadSmall DEF JobInv
  <1>7. ASSUME ById(f)
        PROVE  ListInv(Matching(f), new)
    <2>1. ListInv(Matching(f), entry)
      BY <1>7 DEF EntryInv
    <2>2. entry.pages # <<>> /\ entry.stood \subseteq Matching(f)
      BY <2>1, <1>1, NoPages DEF ListInv
    <2>4. Picked(Cursor(entry.pages), entry.job.ids, entry.stood)
      BY <2>1 DEF ListInv, PageCursor, JobStood
    <2>3. Chain(pages) /\ Covered(pages, entry.stood)
      BY <2>1, <2>2, <2>4, <1>1, <1>7, ReadPage DEF ListInv
    <2> QED BY <2>2, <2>3, <1>4, <1>5, NoPages DEF ListInv
  <1> QED BY <1>4, <1>6, <1>7 DEF EntryInv

\* A page of a refetch comes in.
LEMMA RefetchPageInv ==
  ASSUME NEW f, NEW entry, EntryInv(f, Matching(f), entry), entry.job.kind = "refetch",
         entry.job.step = "rows", NEW r \in GetProducts(f, entry.job.ids)
  PROVE  LET read == Append(entry.job.pages, r)
             stood == entry.job.stood
         IN  /\ r.next # None =>
                  EntryInv(f, Matching(f), [entry EXCEPT !.job.pages = read, !.job.step = "ids",
                                                         !.job.ids = {}])
             /\ EntryInv(f, Matching(f), [pages |-> read, stood |-> stood, job |-> Idle])
  <1> DEFINE read == Append(entry.job.pages, r)
             stood == entry.job.stood
             going == [entry EXCEPT !.job.pages = read, !.job.step = "ids", !.job.ids = {}]
             done == [pages |-> read, stood |-> stood, job |-> Idle]
  <1>1. /\ entry \in Entry /\ entry.job \in Job
        /\ entry.job.pages \in Seq(Page) /\ entry.job.stood \in SUBSET Products
        /\ entry.job.ids \in SUBSET Products
        /\ Small(entry.pages) /\ Small(entry.job.pages)
        /\ entry.job.pages = <<>> \/ Cursor(entry.job.pages) # None
    BY DEF EntryInv, Entry, Job, JobInv
  <1>2. r \in Page /\ Idle \in Job
    BY <1>1, PageType, NoPages DEF Idle, JobOf, Job
  <1>3. read \in Seq(Page) /\ read # <<>> /\ Cursor(read) = r.next /\ Small(read)
    BY <1>1, <1>2, AppendPage, ReadSmall
  <1>5. /\ going \in Entry
        /\ going.pages = entry.pages /\ going.stood = entry.stood
        /\ going.job.kind = "refetch" /\ going.job.pages = read /\ going.job.stood = stood
        /\ going.job.step = "ids"
    BY <1>1, <1>3 DEF Entry, Job
  <1>6. /\ done \in Entry
        /\ done.pages = read /\ done.stood = stood /\ done.job = Idle
    BY <1>1, <1>2, <1>3 DEF Entry
  <1>7. Idle.kind = "idle" /\ Idle.pages = <<>> /\ Idle.step = "ids"
    BY DEF Idle, JobOf
  <1>8. /\ r.next # None => JobInv(going)
        /\ JobInv(done)
    BY <1>3, <1>5, <1>6, <1>7 DEF JobInv
  <1>9. ASSUME ById(f)
        PROVE  ListInv(Matching(f), going) /\ ListInv(Matching(f), done)
    <2>1. ListInv(Matching(f), entry)
      BY <1>9 DEF EntryInv
    <2>2. stood \subseteq Matching(f)
      BY <2>1 DEF ListInv
    <2>3. /\ entry.job.pages = <<>> \/ Covered(entry.job.pages, stood)
          /\ Picked(Cursor(entry.job.pages), entry.job.ids, stood)
      BY <2>1 DEF ListInv, PageCursor, JobStood
    <2>4. Chain(read) /\ Covered(read, stood)
      BY <2>1, <2>2, <2>3, <1>1, <1>9, ReadPage DEF ListInv
    <2>5. ListInv(Matching(f), going)
      BY <2>1, <2>2, <2>4, <1>5 DEF ListInv
    <2>6. ListInv(Matching(f), done)
      BY <2>2, <2>4, <1>6, <1>7, NoPages DEF ListInv
    <2> QED BY <2>5, <2>6
  <1> QED BY <1>1, <1>3, <1>5, <1>6, <1>7, <1>8, <1>9, NoPages DEF EntryInv

-----------------------------------------------------------------------------
(* The steps *)

LEMMA SetListInv ==
  ASSUME IInv, UNCHANGED db, NEW f, NEW entry, EntryInv(f, Matching(f), entry),
         SetList(f, entry)
  PROVE  /\ lists' = [g \in DOMAIN lists' |-> lists'[g]]
         /\ (\A g \in DOMAIN lists : EntryInv(g, Matching(g), lists[g]))'
         /\ f \in DOMAIN lists' /\ DOMAIN lists \subseteq DOMAIN lists'
  <1>1. \A g : Matching(g)' = Matching(g)
    BY DEF db, Matching, Matches
  <1>2. /\ DOMAIN lists' = DOMAIN lists \cup {f}
        /\ \A g \in DOMAIN lists' : lists'[g] = IF g = f THEN entry ELSE lists[g]
        /\ lists' = [g \in DOMAIN lists' |-> lists'[g]]
    BY DEF SetList
  <1>3. ASSUME NEW g \in DOMAIN lists'
        PROVE  EntryInv(g, Matching(g)', lists'[g])
    <2>1. CASE g = f
      BY <2>1, <1>1, <1>2
    <2>2. CASE g # f
      BY <2>2, <1>1, <1>2 DEF IInv
    <2> QED BY <2>1, <2>2
  <1> QED BY <1>2, <1>3

LEMMA TableInv ==
  ASSUME IInv, TableChanges
  PROVE  /\ lists' = [g \in DOMAIN lists' |-> lists'[g]]
         /\ (\A g \in DOMAIN lists : EntryInv(g, Matching(g), lists[g]))'
         /\ changes' \in 0..MaxChanges /\ clicks' \in 0..MaxClicks
         /\ filters' \in DOMAIN lists'
  <1>1. /\ DOMAIN lists' = DOMAIN lists
        /\ \A g \in DOMAIN lists' : lists'[g] = Standing(lists[g], Matching(g)')
        /\ lists' = [g \in DOMAIN lists' |-> lists'[g]]
    BY DEF TableChanges
  <1>2. ASSUME NEW g \in DOMAIN lists'
        PROVE  EntryInv(g, Matching(g)', lists'[g])
    BY <1>1, StandingInv DEF IInv
  <1>3. changes' \in 0..MaxChanges /\ clicks' \in 0..MaxClicks /\ filters' \in DOMAIN lists'
    BY <1>1, ListingAssumption DEF IInv, ScalarsOK, TableChanges, page
  <1> QED BY <1>1, <1>2, <1>3

LEMMA InitInv == Init => IInv
  <1> SUFFICES ASSUME Init
               PROVE  IInv
    OBVIOUS
  <1>1. status \in [Products -> {"ABSENT", "PENDING", "APPROVED", "REJECTED"}]
    BY ListingAssumption DEF Init
  <1>2. ScalarsOK
    BY <1>1, ListingAssumption DEF Init, ScalarsOK
  <1>3. /\ DOMAIN lists = {NoFilters}
        /\ lists[NoFilters] = [Empty EXCEPT !.job = JobOf("refetch")]
        /\ lists = [f \in DOMAIN lists |-> lists[f]]
    BY DEF Init
  <1>4. EntryInv(NoFilters, Matching(NoFilters), lists[NoFilters])
    <2>1. EntryInv(NoFilters, Matching(NoFilters), Empty)
      BY EmptyEntry
    <2>2. EntryInv(NoFilters, Matching(NoFilters), [Empty EXCEPT !.job = JobOf("refetch")])
      BY <2>1, FreshJob
    <2> QED BY <1>3, <2>2
  <1> QED BY <1>2, <1>3, <1>4 DEF IInv

\* A step that changes one list, and nothing of the table.
LEMMA ListStep ==
  ASSUME IInv, UNCHANGED db, NEW f, NEW entry, EntryInv(f, Matching(f), entry),
         SetList(f, entry), clicks' = clicks, filters' \in DOMAIN lists \cup {f}
  PROVE  IInv'
  <1>1. /\ lists' = [g \in DOMAIN lists' |-> lists'[g]]
        /\ (\A g \in DOMAIN lists : EntryInv(g, Matching(g), lists[g]))'
        /\ filters' \in DOMAIN lists'
    BY SetListInv
  <1>2. ScalarsOK'
    BY <1>1 DEF IInv, ScalarsOK, db
  <1> QED BY <1>1, <1>2 DEF IInv

LEMMA PushStep ==
  ASSUME IInv, NEW f, Push(f)
  PROVE  IInv'
  <1>1. /\ UNCHANGED <<filters, lists, status, stocked, changes>>
        /\ clicks' \in 0..MaxClicks
    BY ListingAssumption DEF Push, db, IInv, ScalarsOK
  <1>2. ScalarsOK'
    BY <1>1 DEF IInv, ScalarsOK
  <1>3. \A g : Matching(g)' = Matching(g)
    BY <1>1 DEF Matching, Matches
  <1> QED BY <1>1, <1>2, <1>3 DEF IInv

LEMMA NextInv == IInv /\ [Next]_vars => IInv'
  <1> SUFFICES ASSUME IInv, [Next]_vars
               PROVE  IInv'
    OBVIOUS
  <1>0. \A f \in DOMAIN lists : EntryInv(f, Matching(f), lists[f])
    BY DEF IInv
  <1>1. ASSUME NEW p \in Products, CreateProduct(p)
        PROVE  IInv'
    <2>1. TableChanges /\ ScalarsOK
      BY <1>1 DEF CreateProduct, IInv
    <2>2. /\ status' \in [Products -> {"ABSENT", "PENDING", "APPROVED", "REJECTED"}]
          /\ stocked' \subseteq Products
      BY <1>1, <2>1 DEF CreateProduct, ScalarsOK
    <2> QED BY <2>1, <2>2, TableInv DEF IInv, ScalarsOK
  <1>2. ASSUME NEW p \in Products, NEW s \in {"APPROVED", "REJECTED"}, Moderate(p, s)
        PROVE  IInv'
    <2>1. TableChanges /\ ScalarsOK
      BY <1>2 DEF Moderate, IInv
    <2>2. /\ status' \in [Products -> {"ABSENT", "PENDING", "APPROVED", "REJECTED"}]
          /\ stocked' \subseteq Products
      BY <1>2, <2>1 DEF Moderate, ScalarsOK
    <2> QED BY <2>1, <2>2, TableInv DEF IInv, ScalarsOK
  <1>3. ASSUME NEW p \in Products, StockChanges(p)
        PROVE  IInv'
    <2>1. TableChanges /\ ScalarsOK
      BY <1>3 DEF StockChanges, IInv
    <2>2. /\ status' \in [Products -> {"ABSENT", "PENDING", "APPROVED", "REJECTED"}]
          /\ stocked' \subseteq Products
      BY <1>3, <2>1 DEF StockChanges, ScalarsOK
    <2> QED BY <2>1, <2>2, TableInv DEF IInv, ScalarsOK
  <1>4. CASE \E b \in Brands : PickBrand(b)
    BY <1>4, PushStep DEF PickBrand
  <1>5. CASE PickInStock
    BY <1>5, PushStep DEF PickInStock
  <1>6. CASE \E s \in Sorts \ {None} : PickSort(s)
    BY <1>6, PushStep DEF PickSort
  <1>7. CASE \E r \in Bands : PickBand(r)
    BY <1>7, PushStep DEF PickBand
  <1>8. CASE \E field \in {"brand", "min", "max", "inStock"} : RemoveChip(field)
    BY <1>8, PushStep DEF RemoveChip
  <1>9. CASE ClearFilters
    BY <1>9, PushStep DEF ClearFilters
  <1>10. CASE Render
    <2> DEFINE entry == IF url \in DOMAIN lists THEN lists[url] ELSE Empty
               new == IF entry.pages = <<>> /\ entry.job.kind = "idle"
                        THEN [entry EXCEPT !.job = JobOf("refetch")] ELSE entry
    <2>1. EntryInv(url, Matching(url), entry)
      BY <1>0, EmptyEntry
    <2>2. EntryInv(url, Matching(url), new)
      BY <2>1, FreshJob
    <2>3. /\ SetList(url, new) /\ UNCHANGED db
          /\ clicks' = clicks /\ filters' = url
      BY <1>10 DEF Render
    <2> HIDE DEF new
    <2> QED BY <2>2, <2>3, ListStep
  <1>11. CASE LoadMore
    <2>1. filters \in DOMAIN lists
      BY DEF IInv, ScalarsOK
    <2>2. EntryInv(filters, Matching(filters), [lists[filters] EXCEPT !.job = JobOf("next")])
      BY <1>0, <1>11, <2>1, FreshJob DEF LoadMore
    <2>3. /\ SetList(filters, [lists[filters] EXCEPT !.job = JobOf("next")])
          /\ UNCHANGED db /\ clicks' = clicks /\ filters' = filters
      BY <1>11 DEF LoadMore, page
    <2> QED BY <2>1, <2>2, <2>3, ListStep
  <1>12. CASE Refetch
    <2>1. filters \in DOMAIN lists
      BY DEF IInv, ScalarsOK
    <2>2. EntryInv(filters, Matching(filters), [lists[filters] EXCEPT !.job = JobOf("refetch")])
      BY <1>0, <2>1, FreshJob
    <2>3. /\ SetList(filters, [lists[filters] EXCEPT !.job = JobOf("refetch")])
          /\ UNCHANGED db /\ clicks' = clicks /\ filters' = filters
      BY <1>12 DEF Refetch, page
    <2> QED BY <2>1, <2>2, <2>3, ListStep
  <1>13. ASSUME NEW f \in DOMAIN lists, NextPage(f)
         PROVE  IInv'
    <2>1. PICK r \in GetProducts(f, lists[f].job.ids) :
            SetList(f, [lists[f] EXCEPT !.pages = Append(@, r), !.job = Idle])
      BY <1>13 DEF NextPage
    <2>2. EntryInv(f, Matching(f), [lists[f] EXCEPT !.pages = Append(@, r), !.job = Idle])
      BY <1>0, <1>13, <2>1, NextPageInv DEF NextPage
    <2>3. UNCHANGED db /\ clicks' = clicks /\ filters' = filters /\ filters \in DOMAIN lists
      BY <1>13 DEF NextPage, page, IInv, ScalarsOK
    <2> QED BY <2>1, <2>2, <2>3, ListStep
  <1>14. ASSUME NEW f \in DOMAIN lists, RefetchPage(f)
         PROVE  IInv'
    <2> DEFINE job == lists[f].job
               Going(read) == [lists[f] EXCEPT !.job.pages = read, !.job.step = "ids",
                                               !.job.ids = {}]
               Done(read) == [pages |-> read, stood |-> job.stood, job |-> Idle]
    <2>1. PICK r \in GetProducts(f, job.ids) :
            \/ r.next # None /\ SetList(f, Going(Append(job.pages, r)))
            \/ SetList(f, Done(Append(job.pages, r)))
      BY <1>14 DEF RefetchPage
    <2>2. /\ r.next # None => EntryInv(f, Matching(f), Going(Append(job.pages, r)))
          /\ EntryInv(f, Matching(f), Done(Append(job.pages, r)))
      BY <1>0, <1>14, <2>1, RefetchPageInv DEF RefetchPage
    <2>3. UNCHANGED db /\ clicks' = clicks /\ filters' = filters /\ filters \in DOMAIN lists
      BY <1>14 DEF RefetchPage, page, IInv, ScalarsOK
    <2> HIDE DEF Going, Done
    <2> QED BY <2>1, <2>2, <2>3, ListStep
  <1>15. ASSUME NEW f \in DOMAIN lists, RequestFails(f)
         PROVE  IInv'
    <2>1. EntryInv(f, Matching(f), [lists[f] EXCEPT !.job = Idle])
      BY <1>0, FreshJob DEF Idle
    <2>2. /\ SetList(f, [lists[f] EXCEPT !.job = Idle])
          /\ UNCHANGED db /\ clicks' = clicks /\ filters' = filters /\ filters \in DOMAIN lists
      BY <1>15 DEF RequestFails, page, IInv, ScalarsOK
    <2> QED BY <2>1, <2>2, ListStep
  <1>17. ASSUME NEW f \in DOMAIN lists, PickIds(f)
         PROVE  IInv'
    <2> DEFINE Picking(ids) == [lists[f] EXCEPT !.job.step = "rows", !.job.ids = ids,
                                                !.job.stood = Started(f, lists[f].job)]
    <2>1. PICK ids \in FirstIds({ p \in Matching(f) : BelowCursor(p, PageCursor(lists[f])) },
                                f, Limit + 1) :
            SetList(f, Picking(ids))
      BY <1>17 DEF PickIds
    <2>2. EntryInv(f, Matching(f), Picking(ids))
      BY <1>0, <1>17, <2>1, PickIdsInv DEF PickIds
    <2>3. UNCHANGED db /\ clicks' = clicks /\ filters' = filters /\ filters \in DOMAIN lists
      BY <1>17 DEF PickIds, page, IInv, ScalarsOK
    <2> HIDE DEF Picking
    <2> QED BY <2>1, <2>2, <2>3, ListStep
  <1>16. CASE UNCHANGED vars
    <2>1. \A g : Matching(g)' = Matching(g)
      BY <1>16 DEF vars, Matching, Matches
    <2> QED BY <1>16, <2>1 DEF vars, IInv, ScalarsOK
  <1> QED BY <1>1, <1>2, <1>3, <1>4, <1>5, <1>6, <1>7, <1>8, <1>9, <1>10, <1>11, <1>12,
             <1>13, <1>14, <1>15, <1>16, <1>17 DEF Next

LEMMA Inductive == Spec => []IInv
  BY InitInv, NextInv, PTL DEF Spec

-----------------------------------------------------------------------------
\* The cache is well formed and no page exceeds the page size, for any
\* products, filters and page size.
THEOREM TypeCorrect == Spec => []TypeOK
  <1>1. IInv => TypeOK
    <2> SUFFICES ASSUME IInv
                 PROVE  TypeOK
      OBVIOUS
    <2>1. \A f \in DOMAIN lists : lists[f] \in Entry /\ Small(lists[f].pages)
      BY DEF IInv, EntryInv
    <2>2. lists \in [DOMAIN lists -> Entry]
      BY <2>1 DEF IInv
    <2> QED BY <2>1, <2>2 DEF IInv, ScalarsOK, TypeOK, Small
  <1> QED BY <1>1, Inductive, PTL

\* A list in the default order shows no product twice, however many products
\* were added, approved, rejected or sold out between the requests of its
\* pages: an id the cursor has passed never comes again.
THEOREM EachOnce == Spec => []NoRepeats
  <1>1. IInv => NoRepeats
    <2> SUFFICES ASSUME IInv, NEW f \in DOMAIN lists, ById(f),
                        NEW i \in 1..Len(lists[f].pages), NEW j \in 1..Len(lists[f].pages),
                        i # j
                 PROVE  lists[f].pages[i].items \cap lists[f].pages[j].items = {}
      BY DEF NoRepeats
    <2> DEFINE pages == lists[f].pages
    <2>1. pages \in Seq(Page) /\ Chain(pages)
      BY DEF IInv, EntryInv, ListInv, Entry
    <2>2. \A k \in 1..Len(pages) :
            pages[k].items \subseteq Nat /\ pages[k].next \in Products \cup {None}
      BY <2>1, PageAt
    <2>3. ASSUME NEW k \in 1..Len(pages), NEW l \in 1..Len(pages), k < l
          PROVE  pages[k].items \cap pages[l].items = {}
      <3>1. pages[k].next # None
        BY <2>1, <2>3 DEF Chain
      <3>2. pages[k].next \in Nat
        BY <3>1, <2>2, ListingAssumption
      <3>3. ASSUME NEW p \in pages[k].items, p \in pages[l].items
            PROVE  FALSE
        <4>1. p >= pages[k].next /\ p < pages[k].next /\ p \in Nat
          BY <3>1, <3>3, <2>1, <2>2, <2>3 DEF Chain
        <4> QED BY <4>1, <3>2
      <3> QED BY <3>3
    <2>4. CASE i < j
      BY <2>3, <2>4
    <2>5. CASE j < i
      BY <2>3, <2>5
    <2> QED BY <2>4, <2>5
  <1> QED BY <1>1, Inductive, PTL

\* ... and it has no gap: a product that matched all the while its pages were
\* read is shown, or lies below the cursor from which the next page will be
\* read, or below the last page shown where that page was cut short, a row
\* having stopped matching between its two statements.  Only there can a list
\* end above a product that stood.
THEOREM NoneMissed == Spec => []NothingSkipped
  <1>1. IInv => NothingSkipped
    BY DEF IInv, EntryInv, ListInv, Covered, NothingSkipped
  <1> QED BY <1>1, Inductive, PTL

=============================================================================
