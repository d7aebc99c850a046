----------------------------- MODULE MCListing ------------------------------
(***************************************************************************)
(* Small instances of Listing for TLC.                                      *)
(***************************************************************************)
EXTENDS Listing

Doc(name, status, tags, duplicate, created, updated) ==
    [name |-> name, status |-> status, tags |-> tags, is_duplicate |-> duplicate,
     hits |-> TRUE, created_at |-> created, updated_at |-> updated]

\* Items of the caller's organisation, one a duplicate, and one of another; updated
\* in the order of creation, or the other way round with two names alike.
OneOtherOrg == [i \in 1..6 |-> IF i = 5 THEN "B" ELSE "A"]
StatusOf == <<"active", "archived", "failed", "pending", "active">>
FiveDocs ==
    {[i \in 1..5 |-> Doc(i, StatusOf[i], {"t"}, i = 4, i, i)],
     [i \in 1..5 |-> Doc(IF i = 2 THEN 1 ELSE 7 - i, StatusOf[i], {"t"}, i = 4, i, 8 - i)]}
OneNew == {Doc(0, "pending", {}, FALSE, 0, 0)}

\* A summary stored; renamed to the front or the end; a status, tags, a verdict on
\* duplicates; a new text.
Nothing == [name |-> None, status |-> None, tags |-> None, is_duplicate |-> None, hits |-> None]
SomeEdits ==
    {[Nothing EXCEPT !.name = 0], [Nothing EXCEPT !.name = 9],
     [Nothing EXCEPT !.status = "active"], [Nothing EXCEPT !.status = "processing"],
     [Nothing EXCEPT !.tags = {}, !.hits = FALSE], [Nothing EXCEPT !.is_duplicate = TRUE],
     [Nothing EXCEPT !.is_duplicate = FALSE]}

Always == 0..20
List(by, order, status, duplicates) ==
    [org |-> "A", search |-> FALSE, sort_by |-> by, sort_order |-> order, status |-> status,
     tag |-> None, include_duplicates |-> duplicates, created |-> Always, modified |-> Always]
Plain == List("modified_date", "desc", None, FALSE)
AllRequests ==
    {List(by, order, None, TRUE) : by \in {"modified_date", "created_date", "name", "status"},
         order \in {"asc", "desc"}}
    \cup {Plain, [Plain EXCEPT !.search = TRUE], [Plain EXCEPT !.sort_by = None],
          [Plain EXCEPT !.status = "active"], [Plain EXCEPT !.tag = "t", !.sort_by = "name"],
          [Plain EXCEPT !.modified = 1..9], [Plain EXCEPT !.modified = 6..20, !.created = 2..20]}
=============================================================================
