------------------------------ MODULE Listing -------------------------------
(***************************************************************************)
(* Item lists: a caller walks through the pages of GET /items/list or       *)
(* /items/search while items are created, updated and deleted.  The total   *)
(* and the documents of a page are two queries, and Mongo returns documents *)
(* with equal sort keys in an order of its own each time.                   *)
(***************************************************************************)
EXTENDS Naturals, FiniteSets

CONSTANTS
    Items,
    OrgOf,      \* [Items -> organisation]; nothing changes it
    Tags,
    Requests,   \* requests for a list: org of the user, filters, sort, or a search
    Stored, StoredDocs, \* the items there at the start, and their documents
    Created,    \* what new items hold
    Edits,      \* what an update sets; None for a field that it does not
    Times,      \* of creations and updates, by clocks that need not agree
    None,
    PageSize,
    MaxChanges  \* creations, updates and deletions during the walk

StatusOrder == [active |-> 1, archived |-> 2, failed |-> 3, pending |-> 4, processing |-> 5]
Status == DOMAIN StatusOrder

\* A name is its place among strings; hits: its text is what a search looks for.
Document ==
    [name : Nat, status : Status, tags : SUBSET Tags, is_duplicate : BOOLEAN,
     hits : BOOLEAN, created_at : Nat, updated_at : Nat]

Edit ==
    [name : Nat \cup {None}, status : Status \cup {None}, tags : (SUBSET Tags) \cup {None},
     is_duplicate : BOOLEAN \cup {None}, hits : BOOLEAN \cup {None}]

ASSUME PageAssumption == PageSize \in Nat \ {0} /\ MaxChanges \in Nat
ASSUME StoredAssumption ==
    /\ IsFiniteSet(Items) /\ Stored \subseteq Items
    /\ \A d \in StoredDocs, i \in Stored : d[i] \in Document
ASSUME ChangeAssumption == Created \subseteq Document /\ Edits \subseteq Edit /\ Times \subseteq Nat

NoDoc == [name |-> 0, status |-> "pending", tags |-> {}, is_duplicate |-> FALSE,
          hits |-> FALSE, created_at |-> 0, updated_at |-> 0]

VARIABLES
    doc,      \* [Items -> document]; NoDoc for none
    request,
    walk,     \* where the caller is: step, page and the total of the last count
    seen,     \* items on the pages so far
    touched,  \* items that changed, or whose sort keys met another, since the start
    twice,    \* items that were on more than one page
    left,     \* matching items deleted, or updated so that they match no more
    entered,  \* items that came to match since the start
    raced,    \* those of them between the last count and its page
    forward, backward, \* updates that moved an item of the result, to its front or end
    changes

counts == <<left, entered, raced, forward, backward, changes>>
vars == <<doc, request, walk, seen, touched, twice, counts>>

Live == {i \in Items : doc[i] # NoDoc}
CeilDiv(a, b) == (a + b - 1) \div b
Least(a, b) == IF a <= b THEN a ELSE b

----------------------------------------------------------------------------
(* ListItemsRequest, ItemRepository.search *)

DateRange(k, range) == k \in range

GetFilters(r, d) ==
    /\ r.status \in {None, d.status}
    /\ r.tag = None \/ r.tag \in d.tags
    /\ r.include_duplicates \/ ~d.is_duplicate
    /\ DateRange(d.created_at, r.created)
    /\ DateRange(d.updated_at, r.modified)

Search(d) == d.hits /\ ~d.is_duplicate

\* Mutant: a search is not scoped to the organisation.
MatchingAnyOrg(r) ==
    {i \in Live : IF r.search THEN Search(doc[i]) ELSE OrgOf[i] = r.org /\ GetFilters(r, doc[i])}

\* The caller's organisation is added to the filters, whatever they are.
Matching(r) ==
    {i \in Live : OrgOf[i] = r.org /\ IF r.search THEN Search(doc[i]) ELSE GetFilters(r, doc[i])}

\* list_paginated's own default for a search; updated_at for a key that is not given.
SortField(r) ==
    LET sort_map == [modified_date |-> "updated_at", created_date |-> "created_at",
                     name |-> "name", status |-> "status"]
    IN IF r.search THEN "created_at"
       ELSE IF r.sort_by \in DOMAIN sort_map THEN sort_map[r.sort_by] ELSE "updated_at"

SortKey(r, d) == IF SortField(r) = "status" THEN StatusOrder[d.status] ELSE d[SortField(r)]

Descending(r) == r.search \/ r.sort_order = "desc"

\* One document stands in front of another.
Before(r, d, other) ==
    IF Descending(r) THEN SortKey(r, d) > SortKey(r, other) ELSE SortKey(r, d) < SortKey(r, other)

Precedes(r, i, j) == Before(r, doc[i], doc[j])

\* Mutant: the last item of a page starts the next.
SkipOverlapping(page) == IF page = 1 THEN 0 ELSE (page - 1) * PageSize - 1

Skip(page) == (page - 1) * PageSize

\* The sets of documents that sort, skip and limit may return.
Page(r, page) ==
    LET D == Matching(r)
        skipped == Least(Skip(page), Cardinality(D))
        length == Least(PageSize, Cardinality(D) - skipped)
        Cuts(B, S) ==
            /\ Cardinality(B) = skipped /\ Cardinality(S) = length
            /\ \A b \in B, x \in D \ B : ~Precedes(r, x, b)
            /\ \A s \in S, x \in D \ (B \cup S) : ~Precedes(r, x, s)
    IN {S \in SUBSET D : \E B \in SUBSET (D \ S) : Cuts(B, S)}

\* Mutant: rounded down.
TotalPagesDown(total) == total \div PageSize

TotalPages(total) == CeilDiv(total, PageSize)

----------------------------------------------------------------------------
Init ==
    /\ \E d \in StoredDocs : doc = [i \in Items |-> IF i \in Stored THEN d[i] ELSE NoDoc]
    /\ request \in Requests
    /\ walk = [at |-> "count", page |-> 1, total |-> 0]
    /\ seen = {}
    /\ touched = {i \in Stored : \E j \in Stored \ {i} :
                      SortKey(request, doc[i]) = SortKey(request, doc[j])}
    /\ twice = {}
    /\ left = 0 /\ entered = 0 /\ raced = 0 /\ forward = 0 /\ backward = 0 /\ changes = 0

Count ==
    /\ walk.at = "count"
    /\ walk' = [walk EXCEPT !.at = "page", !.total = Cardinality(Matching(request))]
    /\ raced' = 0
    /\ UNCHANGED <<doc, request, seen, touched, twice, left, entered, forward, backward, changes>>

\* The caller asks for the next page until there is none: the envelope of a list says
\* so (total_pages), for a search he divides its total by the page size.
GetPage ==
    /\ walk.at = "page"
    /\ \E S \in Page(request, walk.page) :
          seen' = seen \cup S /\ twice' = twice \cup (seen \cap S)
    /\ walk' = IF walk.page < TotalPages(walk.total)
               THEN [walk EXCEPT !.at = "count", !.page = @ + 1]
               ELSE [walk EXCEPT !.at = "done"]
    /\ UNCHANGED <<doc, request, touched, counts>>

----------------------------------------------------------------------------
(* What others do meanwhile: the collection and the counts of what happened to it *)

Plus(n, happened) == n + (IF happened THEN 1 ELSE 0)

Change(i, d) ==
    /\ walk.at # "done" /\ changes < MaxChanges
    /\ changes' = changes + 1
    /\ UNCHANGED <<request, walk, seen, twice>>
    /\ doc' = [doc EXCEPT ![i] = d]
    /\ touched' = touched \cup {i} \cup
           {j \in Live : SortKey(request, d) = SortKey(request, doc[j])}
    /\ LET before == i \in Matching(request)
           after == i \in Matching(request)'
       IN /\ left' = Plus(left, before /\ ~after)
          /\ entered' = Plus(entered, after /\ ~before)
          /\ raced' = Plus(raced, after /\ ~before /\ walk.at = "page")
          /\ forward' = Plus(forward, before /\ after /\ Before(request, d, doc[i]))
          /\ backward' = Plus(backward, before /\ after /\ Before(request, doc[i], d))

Insert(i) ==
    /\ i \notin Live /\ i \notin Stored
    /\ \E d \in Created, created, updated \in Times :
          /\ created <= updated
          /\ Change(i, [d EXCEPT !.created_at = created, !.updated_at = updated])

\* PUT /items/update sets what the body gives; the worker status, is_duplicate and the
\* rest that no list looks at.
Set(d, e) ==
    LET Given(value, old) == IF value = None THEN old ELSE value
    IN [d EXCEPT !.name = Given(e.name, @), !.status = Given(e.status, @),
                 !.tags = Given(e.tags, @), !.is_duplicate = Given(e.is_duplicate, @),
                 !.hits = Given(e.hits, @)]

Update(i) ==
    /\ i \in Live
    /\ \E e \in Edits, now \in Times : Change(i, [Set(doc[i], e) EXCEPT !.updated_at = now])

Delete(i) ==
    /\ i \in Live
    /\ Change(i, NoDoc)

Next == Count \/ GetPage \/ \E i \in Items : Insert(i) \/ Update(i) \/ Delete(i)

Spec == Init /\ [][Next]_vars

----------------------------------------------------------------------------
\* No page is longer than asked for, and the walk never leaves the organisation.
TypeOK ==
    /\ seen \subseteq {i \in Items : OrgOf[i] = request.org}
    /\ Cardinality(seen) <= walk.page * PageSize
    /\ walk.at \in {"count", "page", "done"}
    /\ walk.page \in 1..Cardinality(Items) + 1
    /\ touched \subseteq Items
    /\ left + entered + forward + backward <= changes /\ changes <= MaxChanges

\* An item nobody touched, whose sort key no other item has, and that the filters
\* match, was on one of the pages.  One such item can be hidden by each item that is
\* deleted or stops to match, that is new between the last count and its page, or that
\* an update moves toward the end of the list.
Missed == {i \in Stored \ touched : i \in Matching(request) /\ i \notin seen}

WalkMissesNoItem == walk.at = "done" => Cardinality(Missed) <= left + raced + backward

\* An untouched item is on a second page only if another came to match in front
\* of it, or was moved there by an update.
RepeatsArePushed == Cardinality(twice \ touched) <= entered + forward
=============================================================================
