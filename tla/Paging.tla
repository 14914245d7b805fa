------------------------------- MODULE Paging -------------------------------
(***************************************************************************)
(* A paged table of the portal (volumes, snapshots, flavors).  The service *)
(* is asked for one row more than a page holds, from a marker on, in       *)
(* either direction; the extra row only says that there is another page.   *)
(* The pages are independent requests: rows are created and deleted        *)
(* between them, the markers included.  Rows are numbered in the order of  *)
(* their creation; the table shows the newest first.                       *)
(***************************************************************************)
EXTENDS Naturals, FiniteSets

CONSTANTS
  MaxRows,     \* bound: rows ever created
  Size         \* get_page_size, at least 1

NoMarker == 0

VARIABLES
  rows,        \* the service: the rows there are
  born,        \* the rows there have ever been are 1 .. born
  page,        \* the rows on the page the user looks at
  more, prev,  \* has_more_data, has_prev_data: the links under the table
  fresh,       \* history: no row came or went since the page was loaded
  way,         \* history: the direction the user pages in, "down" or "up"
  owed         \* history: the rows that lay that way when the user turned to
               \* it, are there still, and have not been on a page since

vars == <<rows, born, page, more, prev, fresh, way, owed>>

Init ==
  /\ born \in 0 .. MaxRows
  /\ rows = 1 .. born
  /\ page = {} /\ more = FALSE /\ prev = FALSE
  /\ fresh = FALSE /\ way = "none" /\ owed = {}

-----------------------------------------------------------------------------
Newest(S) == CHOOSE x \in S : \A y \in S : y <= x
Oldest(S) == CHOOSE x \in S : \A y \in S : x <= y
Below(S, x) == {y \in S : y < x}
Above(S, x) == {y \in S : y > x}

\* What the service has for a query, before its limit.
Answer(marker, dir) ==
  IF marker = NoMarker THEN rows
  ELSE IF dir = "desc" THEN Below(rows, marker) ELSE Above(rows, marker)

\* The first n rows of an answer: n rows, or those there are.
FirstOf(S, n, dir) ==
  {x \in S : Cardinality(IF dir = "desc" THEN Above(S, x) ELSE Below(S, x)) < n}

\* A mutant: no row too many is asked for.
FetchedTight(marker, dir) == FirstOf(Answer(marker, dir), Size, dir)

\* What is asked for: limit = page_size + 1.
Fetched(marker, dir) == FirstOf(Answer(marker, dir), Size + 1, dir)

\* update_pagination: the row too many is popped.
Entities(marker, dir) == FirstOf(Fetched(marker, dir), Size, dir)

\* A mutant: a page that was reached backwards has none after it.
HasMoreForward(marker, dir) == Cardinality(Fetched(marker, dir)) > Size

HasMore(marker, dir) ==
  \/ Cardinality(Fetched(marker, dir)) > Size
  \/ dir = "asc" /\ marker # NoMarker

HasPrev(marker, dir) ==
  /\ marker # NoMarker
  /\ Cardinality(Fetched(marker, dir)) > Size \/ dir = "desc"

\* get_marker and get_prev_marker: the ends of the page; none for no rows.
Marker == IF page = {} THEN NoMarker ELSE Oldest(page)
PrevMarker == IF page = {} THEN NoMarker ELSE Newest(page)

-----------------------------------------------------------------------------
\* get_data: the page a link leads to.  The service knows no marker that is
\* deleted, and may fail: an empty table, with a message and no links.
Load(marker, dir) ==
  \/ /\ marker \in rows \cup {NoMarker}
     /\ page' = Entities(marker, dir)
     /\ more' = HasMore(marker, dir)
     /\ prev' = HasPrev(marker, dir)
     /\ fresh' = TRUE
     /\ way' = IF dir = "desc" THEN "down" ELSE "up"
     /\ owed' = (IF marker # NoMarker /\ way' = way THEN owed
                 ELSE Answer(marker, dir)) \ page'
     /\ UNCHANGED <<rows, born>>
  \/ /\ page' = {} /\ more' = FALSE /\ prev' = FALSE
     /\ fresh' = FALSE /\ way' = "none" /\ owed' = {}
     /\ UNCHANGED <<rows, born>>

\* An empty marker reads like none: such a link leads to the first page, and
\* _get_marker then takes the order of the first page as well.
Open == Load(NoMarker, "desc")
NextPage == more /\ Load(Marker, "desc")
PrevPage ==
  prev /\ Load(PrevMarker, IF PrevMarker = NoMarker THEN "desc" ELSE "asc")

\* Meanwhile, in the service.
Created ==
  /\ born < MaxRows
  /\ born' = born + 1
  /\ rows' = rows \cup {born'}
  /\ fresh' = FALSE
  /\ UNCHANGED <<page, more, prev, way, owed>>

Deleted ==
  /\ \E x \in rows :
       /\ rows' = rows \ {x}
       /\ owed' = owed \ {x}
  /\ fresh' = FALSE
  /\ UNCHANGED <<born, page, more, prev, way>>

Next == Open \/ NextPage \/ PrevPage \/ Created \/ Deleted
Spec == Init /\ [][Next]_vars

-----------------------------------------------------------------------------
TypeOK ==
  /\ born \in 0 .. MaxRows /\ rows \subseteq 1 .. born
  /\ page \subseteq 1 .. born
  /\ more \in BOOLEAN /\ prev \in BOOLEAN /\ fresh \in BOOLEAN
  /\ way \in {"none", "down", "up"} /\ owed \subseteq rows

(***************************************************************************)
(* The links tell the truth when the page is loaded: a page shows adjacent *)
(* rows, never more than it may, and has a link to the next or the         *)
(* previous one exactly when there are older or newer rows.                *)
(***************************************************************************)
LinksAreTrue ==
  fresh /\ page # {} =>
    /\ Cardinality(page) <= Size
    /\ Above(Below(rows, Newest(page)), Oldest(page)) \subseteq page
    /\ more <=> Below(rows, Oldest(page)) # {}
    /\ prev <=> Above(rows, Newest(page)) # {}

(***************************************************************************)
(* A user who pages one way until there is no further link has had every   *)
(* row that lay that way, and was not deleted meanwhile, on a page:        *)
(* whatever was created or deleted between two pages, none is skipped.     *)
(***************************************************************************)
NothingSkipped ==
  /\ way = "down" /\ ~more => owed = {}
  /\ way = "up" /\ ~prev => owed = {}
=============================================================================
