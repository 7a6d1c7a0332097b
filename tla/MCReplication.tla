--------------------------- MODULE MCReplication ----------------------------
(* A small instance of Replication: what one process may be asked to       *)
(* replicate.                                                              *)
EXTENDS Replication

Query == [top |-> Unset, skip |-> 0, ge |-> Unset, le |-> Unset, orderby |-> Unset]

NewWalk(strategy, query) ==
  [strategy |-> strategy, query |-> query, prefer |-> Unset, expand |-> {}, last |-> TRUE]

Preferring(w, n) == [w EXCEPT !.prefer = n]

Plan(walks, limit) == [walks |-> walks, limit |-> limit, runs |-> 1, honoursSkip |-> TRUE]

Pages(n) == [Query EXCEPT !.top = n]

(* reso-replicate, one resource and one strategy.                          *)
ByOffset == Plan(<<NewWalk("TopAndSkip", Pages(2))>>, Unset)
Ascending == Plan(<<NewWalk("TimestampAsc", Pages(2))>>, Unset)

(* The strategies of a Data Dictionary run, each over the resource and     *)
(* over the resource with an expansion.                                    *)
WithMedia(w) == <<[w EXCEPT !.last = FALSE], [w EXCEPT !.expand = {"Media"}]>>

Descending == Plan(WithMedia(NewWalk("TimestampDesc", Pages(2))), Unset)
Linked == Plan(<<Preferring(NewWalk("NextLink", Query), 2),
                 Preferring(NewWalk("NextLink", [Query EXCEPT !.ge = 2, !.orderby = "asc"]), 2)>>,
               Unset)
Limited == [Plan(<<NewWalk("TopAndSkip", Pages(1))>>, 2) EXCEPT !.runs = 2]

(* The Lookup resource, of a server that may ignore $skip.                 *)
Lookups == [Plan(<<[NewWalk("Lookup", Pages(2)) EXCEPT !.last = FALSE]>>, Unset)
              EXCEPT !.honoursSkip = FALSE]

(* batchExpand: one request with every expansion.                          *)
Together == Plan(<<[NewWalk("TimestampAsc", Pages(2)) EXCEPT !.expand = {"Media", "Rooms"}]>>, Unset)

AllPlans == {ByOffset, Ascending, Descending, Linked, Limited, Together,
             Lookups, [Lookups EXCEPT !.honoursSkip = TRUE]}

(* A process that is asked for the same twice.                             *)
Repeated == {[Ascending EXCEPT !.runs = 2]}
=============================================================================
