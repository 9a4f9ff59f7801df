------------------------------- MODULE Listing -------------------------------
(***************************************************************************)
(* The product listing of the storefront: the catalog's paged search over  *)
(* the moderated products, and the shopper's page that walks it.           *)
(*                                                                         *)
(* The catalog answers one page at a time.  It keeps no cursor: a page is  *)
(* "the first Limit matching products whose id is below the last id of the *)
(* page before", read from the table as it is when the query runs, while   *)
(* sellers add products, admins approve and reject them and orders empty   *)
(* and refill the stock.  The query is two statements and no transaction:  *)
(* TypeORM's take(), with a join, selects the ids first and then the rows  *)
(* of those ids, the conditions applied again.  A row that stops matching  *)
(* in between is missed, the page is short and taken for the last one.     *)
(*                                                                         *)
(* The page keeps the filters in its address (what a control pushes there  *)
(* is seen by the next render only) and one cached list of pages for each  *)
(* filter it has shown (useInfiniteQuery): the first page is asked on the  *)
(* first render, the others by the button, and a refetch asks every page   *)
(* again, one after the other, and then replaces the list.                 *)
(*                                                                         *)
(* Product ids are UUIDv7s, which grow with time: naturals here, a new     *)
(* product having the largest.  An approval may come to any of them.       *)
(***************************************************************************)
EXTENDS Naturals, FiniteSets, Sequences

CONSTANTS
  Products,     \* the ids products can have
  Seeded,       \* those the table has at first
  BrandOf,      \* [Products -> brand or None]: no route changes a product's brand
  PriceOf,      \* [Products -> Nat]:  ... or its price
  Bands,        \* the price ranges on offer, records [min, max]
  Limit,        \* products on a page (8 in products-section.tsx)
  None,         \* an unset filter; also the cursor after the last page
  MaxClicks,    \* bound: changes of the filters
  MaxChanges,   \* bound: changes of the table
  MaxMoves,     \* bound: changes of either
  MaxRequests   \* bound: requests under way when the shopper asks for another

ASSUME ListingAssumption ==
  /\ Products \subseteq Nat /\ IsFiniteSet(Products) /\ Seeded \subseteq Products
  /\ DOMAIN BrandOf = Products
  /\ PriceOf \in [Products -> Nat]
  /\ Limit \in Nat \ {0}
  /\ MaxClicks \in Nat /\ MaxChanges \in Nat /\ MaxMoves \in Nat /\ MaxRequests \in Nat
  /\ None \notin Products

Brands == { BrandOf[p] : p \in Products } \ {None}
Sorts  == { None, "price_asc" }     \* the default order, and one of the others

VARIABLES
  status,    \* status[p]: the product's moderation status, "ABSENT" before it exists
  stocked,   \* the products with stock_quantity > 0
  changes,   \* changes of the table so far
  url,       \* the filters last pushed to the address
  filters,   \* the filters of the last render, which the controls close over
  clicks,    \* changes of the filters so far
  lists      \* lists[f]: the query cache's entry for the filters f

db   == <<status, stocked, changes>>
page == <<url, filters, clicks>>
vars == <<status, stocked, changes, url, filters, clicks, lists>>

NoFilters == [brand |-> None, min |-> None, max |-> None,
              inStock |-> FALSE, sort |-> None]

(* An entry of the cache: its pages, and the request under way: the ids its  *)
(* first statement selected once that has run (step "rows"), and the pages a *)
(* refetch has read.  Two fields are for the properties: "stood" are the     *)
(* products that matched at every moment since the first of the pages was    *)
(* read, and a page is "cut" if its ids said there was more and its rows not.*)
JobOf(kind) == [kind |-> kind, step |-> "ids", ids |-> {}, pages |-> <<>>, stood |-> {}]
Idle  == JobOf("idle")
Empty == [pages |-> <<>>, stood |-> {}, job |-> Idle]

(* The pages a list shows, one below the other, and the cursor after them.   *)
Shown(pages)  == UNION { pages[i].items : i \in 1..Len(pages) }
Cursor(pages) == IF pages = <<>> THEN None ELSE pages[Len(pages)].next

-----------------------------------------------------------------------------
(* The catalog.                                                              *)

(* The rows the filters leave: approved ones only.                           *)
Matches(f, p) ==
  /\ status[p] = "APPROVED"
  /\ f.brand = None \/ BrandOf[p] = f.brand
  /\ f.min = None \/ PriceOf[p] >= f.min
  /\ f.max = None \/ PriceOf[p] <= f.max
  /\ f.inStock => p \in stocked

Matching(f) == { p \in Products : Matches(f, p) }

(* ORDER BY: by id, the largest first, or by price alone, where the database *)
(* may return equal prices in any order.                                     *)
Before(f, p, q) == IF f.sort = "price_asc" THEN PriceOf[p] <= PriceOf[q] ELSE p >= q

BelowCursor_OrAt(p, cursor) == cursor = None \/ p <= cursor
BelowCursor(p, cursor) == cursor = None \/ p < cursor

(* The first statement of getProducts: the ids of the first Limit + 1 rows.  *)
FirstIds(S, f, n) ==
  { ids \in SUBSET S :
      /\ Cardinality(ids) = IF Cardinality(S) > n THEN n ELSE Cardinality(S)
      /\ \A p \in ids, q \in S \ ids : Before(f, p, q) }

(* The second reads the rows with these ids that match now.  The extra row   *)
(* only says that there is a next page, whose cursor is the id of the last   *)
(* row that is returned.                                                     *)
HasNextPage(R) == Cardinality(R) > Limit
Returned_Unsliced(R) == IF HasNextPage(R) THEN Limit + 1 ELSE Cardinality(R)
Returned(R) == IF HasNextPage(R) THEN Limit ELSE Cardinality(R)

CursorRows_Extra(R, f, items) == { p \in R \ items : \A q \in R \ items : Before(f, p, q) }
CursorRows(R, f, items) == { p \in items : \A q \in items : Before(f, q, p) }

PageOf(R, f, items, next) ==
  /\ Cardinality(items) = Returned(R)
  /\ \A p \in items, q \in R \ items : Before(f, p, q)
  /\ next \in IF HasNextPage(R) THEN CursorRows(R, f, items) ELSE {None}

Cut(ids, R) == HasNextPage(ids) /\ ~HasNextPage(R)

GetProducts(f, ids) ==
  LET R == { p \in ids : Matches(f, p) }
  IN  { r \in [items : SUBSET R, next : R \cup {None}, cut : {Cut(ids, R)}] :
          PageOf(R, f, r.items, r.next) }

(* Every change of the table takes the products that no longer match out of  *)
(* the "stood" of lists still being read; a list read to its end is judged   *)
(* by what stood until then.                                                 *)
Standing(entry, M) ==
  [entry EXCEPT
     !.stood = IF Cursor(entry.pages) = None THEN @ ELSE @ \cap M,
     !.job.stood = @ \cap M]

TableChanges ==
  /\ changes < MaxChanges /\ changes + clicks < MaxMoves
  /\ changes' = changes + 1
  /\ lists' = [f \in DOMAIN lists |-> Standing(lists[f], Matching(f)')]
  /\ UNCHANGED page

(* createProduct: the row is PENDING.                                        *)
Exists(p) == status[p] # "ABSENT"
CreateProduct(p) ==
  /\ \A q \in Products : Exists(q) => q < p
  /\ status' = [status EXCEPT ![p] = "PENDING"]
  /\ stocked' = stocked \cup {p}
  /\ TableChanges

(* approveProduct and rejectProduct, from whatever status the row has.       *)
Moderate(p, s) ==
  /\ Exists(p)
  /\ status' = [status EXCEPT ![p] = s]
  /\ UNCHANGED stocked
  /\ TableChanges

(* A reservation takes the last piece, a release gives one back.             *)
StockChanges(p) ==
  /\ Exists(p)
  /\ stocked' = IF p \in stocked THEN stocked \ {p} ELSE stocked \cup {p}
  /\ UNCHANGED status
  /\ TableChanges

-----------------------------------------------------------------------------
(* The filters.                                                              *)

(* setFilter: the new address is made from the filters of the last render,   *)
(* not from what was pushed since.                                           *)
SetFilter(field, value) == [filters EXCEPT ![field] = value]

Push(f) ==
  /\ clicks < MaxClicks /\ changes + clicks < MaxMoves
  /\ clicks' = clicks + 1
  /\ url' = f
  /\ UNCHANGED <<filters, lists>> /\ UNCHANGED db

Toggled(field, value, unset) == IF filters[field] = value THEN unset ELSE value

(* The brand boxes, the availability box and the order menu: picking what is *)
(* set already unsets it, except in the menu.  (The category, rating and     *)
(* attribute boxes do as the brand boxes: "brand" stands for them all.)      *)
PickBrand(b)  == Push(SetFilter("brand", Toggled("brand", b, None)))
PickInStock   == Push(SetFilter("inStock", Toggled("inStock", TRUE, FALSE)))
PickSort(s)   == Push(SetFilter("sort", s))

(* handlePriceChange pushes twice from one render: the second address, made  *)
(* from the same old filters, replaces the first, and only max is changed.   *)
PickBand(r) == Push(SetFilter("max", r.max))

(* A chip of the toolbar removes its filter, "Clear all" every one of them.  *)
RemoveChip(field) ==
  /\ filters[field] # NoFilters[field]
  /\ Push(SetFilter(field, NoFilters[field]))
ClearFilters == Push(NoFilters)

-----------------------------------------------------------------------------
(* The lists.                                                                *)

SetList(f, entry) == lists' = [g \in DOMAIN lists \cup {f} |-> IF g = f THEN entry ELSE lists[g]]

(* The render that follows a push shows the new filters' list and asks its   *)
(* first page if the cache has none and nothing asks it yet.                 *)
Render ==
  LET entry == IF url \in DOMAIN lists THEN lists[url] ELSE Empty
  IN  /\ filters # url
      /\ filters' = url
      /\ SetList(url, IF entry.pages = <<>> /\ entry.job.kind = "idle"
                        THEN [entry EXCEPT !.job = JobOf("refetch")] ELSE entry)
      /\ UNCHANGED <<url, clicks>> /\ UNCHANGED db

(* The shopper asks the shown list's pages while requests of other lists,    *)
(* shown before, may still be under way.                                     *)
Busy == { f \in DOMAIN lists : lists[f].job.kind # "idle" }
MayAsk == Cardinality(Busy \ {filters}) < MaxRequests

(* The button, shown while there is a next page and dead while one is        *)
(* fetched.  A refetch under way is cancelled.                               *)
LoadMore ==
  LET entry == lists[filters]
  IN  /\ Cursor(entry.pages) # None
      /\ entry.job.kind # "next" /\ MayAsk
      /\ SetList(filters, [entry EXCEPT !.job = JobOf("next")])
      /\ UNCHANGED page /\ UNCHANGED db

(* Past its stale time the shown list is asked again when the page is        *)
(* mounted or focused.                                                       *)
Refetch ==
  LET entry == lists[filters]
  IN  /\ entry.job.kind = "idle" /\ MayAsk
      /\ SetList(filters, [entry EXCEPT !.job = JobOf("refetch")])
      /\ UNCHANGED page /\ UNCHANGED db

(* The first statement of the request under way.  A refetch reads its first  *)
(* page from the top, and each other from the cursor of the fresh page       *)
(* before it.                                                                *)
PageCursor(entry) == IF entry.job.kind = "next" THEN Cursor(entry.pages) ELSE Cursor(entry.job.pages)
Started(f, job) ==
  IF job.kind = "refetch" /\ job.pages = <<>> THEN Matching(f) ELSE job.stood

PickIds(f) ==
  LET entry == lists[f]
      S     == { p \in Matching(f) : BelowCursor(p, PageCursor(entry)) }
  IN  /\ entry.job.kind # "idle" /\ entry.job.step = "ids"
      /\ \E ids \in FirstIds(S, f, Limit + 1) :
           SetList(f, [entry EXCEPT !.job.step = "rows", !.job.ids = ids,
                                    !.job.stood = Started(f, entry.job)])
      /\ UNCHANGED page /\ UNCHANGED db

(* The second, and the next page of the list comes in.                       *)
NextPage(f) ==
  LET entry == lists[f]
  IN  /\ entry.job.kind = "next" /\ entry.job.step = "rows"
      /\ \E r \in GetProducts(f, entry.job.ids) :
           SetList(f, [entry EXCEPT !.pages = Append(@, r), !.job = Idle])
      /\ UNCHANGED page /\ UNCHANGED db

(* A refetch reads as many pages as the list has, and stops early where the  *)
(* pages end.                                                                *)
RefetchPage(f) ==
  LET entry == lists[f]
      job   == entry.job
  IN  /\ job.kind = "refetch" /\ job.step = "rows"
      /\ \E r \in GetProducts(f, job.ids) :
           LET read == Append(job.pages, r)
           IN  SetList(f, IF r.next # None /\ Len(read) < Len(entry.pages)
                            THEN [entry EXCEPT !.job.pages = read, !.job.step = "ids",
                                               !.job.ids = {}]
                            ELSE [pages |-> read, stood |-> job.stood, job |-> Idle])
      /\ UNCHANGED page /\ UNCHANGED db

(* The request fails, its retries too: the pages that were there stay.       *)
RequestFails(f) ==
  /\ lists[f].job.kind # "idle"
  /\ SetList(f, [lists[f] EXCEPT !.job = Idle])
  /\ UNCHANGED page /\ UNCHANGED db

-----------------------------------------------------------------------------
Init ==
  /\ status \in { [p \in Products |-> IF p \in Seeded THEN st[p] ELSE "ABSENT"] :
                     st \in [Seeded -> {"PENDING", "APPROVED"}] }
  /\ stocked = Seeded
  /\ changes = 0
  /\ url = NoFilters /\ filters = NoFilters /\ clicks = 0
  /\ lists = [f \in {NoFilters} |-> [Empty EXCEPT !.job = JobOf("refetch")]]

Next ==
  \/ \E p \in Products : \/ CreateProduct(p)
                         \/ Moderate(p, "APPROVED") \/ Moderate(p, "REJECTED")
                         \/ StockChanges(p)
  \/ \E b \in Brands : PickBrand(b)
  \/ PickInStock
  \/ \E s \in Sorts \ {None} : PickSort(s)
  \/ \E r \in Bands : PickBand(r)
  \/ \E field \in {"brand", "min", "max", "inStock"} : RemoveChip(field)
  \/ ClearFilters
  \/ Render \/ LoadMore \/ Refetch
  \/ \E f \in DOMAIN lists : PickIds(f) \/ NextPage(f) \/ RefetchPage(f) \/ RequestFails(f)

Spec == Init /\ [][Next]_vars

-----------------------------------------------------------------------------
(* Every entry is well formed, and no page is longer than Limit.             *)
Page  == [items : SUBSET Products, next : Products \cup {None}, cut : BOOLEAN]
Job   == [kind : {"idle", "next", "refetch"}, step : {"ids", "rows"}, ids : SUBSET Products,
          pages : Seq(Page), stood : SUBSET Products]
Entry == [pages : Seq(Page), stood : SUBSET Products, job : Job]
TypeOK ==
  /\ status \in [Products -> {"ABSENT", "PENDING", "APPROVED", "REJECTED"}]
  /\ stocked \subseteq Products
  /\ changes \in 0..MaxChanges /\ clicks \in 0..MaxClicks
  /\ filters \in DOMAIN lists
  /\ lists \in [DOMAIN lists -> Entry]
  /\ \A f \in DOMAIN lists : \A i \in 1..Len(lists[f].pages) :
       Cardinality(lists[f].pages[i].items) <= Limit

(* However the table changes between the requests, no product is shown twice *)
(* in a list in the default order: the grid keys its cards by product id.    *)
(* (In any other order the id cursor cuts across the order, and this fails.) *)
ById(f) == f.sort # "price_asc"
NoRepeats ==
  \A f \in DOMAIN lists :
    LET pages == lists[f].pages
    IN  ById(f) => \A i \in 1..Len(pages), j \in 1..Len(pages) :
                     i # j => pages[i].items \cap pages[j].items = {}

(* ... and no product that matched all the while the pages were read is     *)
(* skipped: it is shown, or the pages have not come to it yet, or they were  *)
(* cut short above it, a row having stopped matching between the statements  *)
(* of the last page.  The list has no gap, and an end that was not cut short *)
(* is the end of all that stood.                                             *)
CutAbove(pages, p) == pages[Len(pages)].cut /\ \A q \in Shown(pages) : p < q
NothingSkipped ==
  \A f \in DOMAIN lists :
    LET pages == lists[f].pages
    IN  ById(f) /\ pages # <<>> =>
          \A p \in lists[f].stood :
            \/ p \in Shown(pages)
            \/ Cursor(pages) # None /\ p < Cursor(pages)
            \/ CutAbove(pages, p)

=============================================================================
