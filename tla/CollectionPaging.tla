-------------------------- MODULE CollectionPaging --------------------------
(***************************************************************************)
(* How the reference server answers a collection request                   *)
(* (reso-reference-server/src/odata/handlers.ts, collectionHandler): which *)
(* records a page carries, and whether it offers an @odata.nextLink.       *)
(*                                                                         *)
(* A request keeps the query options that decide the page: $top, $skip, a  *)
(* $filter on ModificationTimestamp and an $orderby on it.  $select,       *)
(* $count and $expand do not change which records are served.              *)
(***************************************************************************)
EXTENDS Integers, SequencesExt

CONSTANTS
  DEFAULT_PAGE_SIZE, MAX_PAGE_SIZE,   \* of the server
  Unset                               \* an option or header that was not sent

ASSUME PagingAssumption ==
  /\ DEFAULT_PAGE_SIZE \in Nat \ {0} /\ MAX_PAGE_SIZE \in Nat \ {0}
  /\ Unset \notin Int

Request ==
  [top : Nat \cup {Unset}, skip : Nat, ge : Int \cup {Unset}, le : Int \cup {Unset},
   orderby : {Unset, "asc", "desc"}]

lesser(a, b) == IF a <= b THEN a ELSE b

(* The records of a resource, in the order in which the database scans     *)
(* them: the data-access layers state no ORDER BY of their own.            *)
Record(Keys) == [key : Keys, timestamp : Nat]

matches(record, q) ==
  /\ q.ge # Unset => record.timestamp >= q.ge
  /\ q.le # Unset => record.timestamp <= q.le

before(table, q, i, j) ==
  LET t == table[i].timestamp
      u == table[j].timestamp
  IN CASE q.orderby = "asc" /\ t # u -> t < u
       [] q.orderby = "desc" /\ t # u -> t > u
       [] OTHER -> i < j

rowsOf(table, q) == {i \in DOMAIN table : matches(table[i], q)}

(* How many rows the answer has before a row.                              *)
rank(table, q, i) == Cardinality({j \in rowsOf(table, q) : before(table, q, j, i)})

selected(table, q) ==
  [n \in 1 .. Cardinality(rowsOf(table, q)) |->
     table[CHOOSE i \in rowsOf(table, q) : rank(table, q, i) = n - 1]]

(* fetchLimit: what the Prefer header and $top ask for, under the maximum. *)
fetchLimit(q, prefer) ==
  LET asked == CASE prefer # Unset -> prefer
                 [] prefer = Unset /\ q.top # Unset -> q.top
                 [] OTHER -> DEFAULT_PAGE_SIZE
      effectivePageSize == lesser(asked, MAX_PAGE_SIZE)
  IN IF q.top # Unset THEN lesser(q.top, effectivePageSize) ELSE effectivePageSize

page(table, q, prefer) ==
  LET all == selected(table, q)
  IN SubSeq(all, q.skip + 1, lesser(q.skip + fetchLimit(q, prefer), Len(all)))

(* A full page to a client that is still owed records is followed by a     *)
(* link; $top counts from the start of the collection.                     *)
isPartial(q, prefer, returned) ==
  /\ returned = fetchLimit(q, prefer) /\ returned > 0
  /\ q.top # Unset => q.skip + returned < q.top

(* Plausible bug: the link leads back by one record.                       *)
FaultyBuildNextLink(q, prefer) == [q EXCEPT !.skip = @ + fetchLimit(q, prefer) - 1]

buildNextLink(q, prefer) == [q EXCEPT !.skip = @ + fetchLimit(q, prefer)]
=============================================================================
