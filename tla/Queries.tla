------------------------------ MODULE Queries ------------------------------
(***************************************************************************)
(* Clients that read from the reference server                             *)
(* (reso-reference-server/src/odata/handlers.ts): one asks for a           *)
(* collection and follows its next links, one reads a record by its key,   *)
(* one reads along a navigation property.  The database keeps still; what  *)
(* writers do to a walk is the subject of Replication.                     *)
(***************************************************************************)
EXTENDS CollectionQuery

CONSTANTS
  Backends, Databases,
  Requests       \* [kind, resource, key, name, prefer, q], as far as the kind has them

VARIABLES
  backend, db,
  request,       \* what the client asked for
  link,          \* the query it asks next, if any
  pages          \* the answers it has had

queryVars == <<navigationBindings, backend, db, request, link, pages>>

None      == [none |-> TRUE]
NoRequest == [kind |-> "none"]

-----------------------------------------------------------------------------
Ask ==
  /\ navigationBindings = Bindings
  /\ backend \in Backends /\ db \in Databases /\ request \in Requests
  /\ link = request.q
  /\ pages = << >>

\* DEFAULT_PAGE_SIZE and the like decide the $top the layer is given.
collectionHandler ==
  /\ request.kind = "collection" /\ link # None
  /\ \E q \in {[link EXCEPT !.top = fetchLimit(link, request.prefer)]} :
     \E result \in {queryCollection(backend, db, request.resource, q)} :
       /\ pages' = Append(pages, result)
       /\ link' = IF result.status = "found" /\ isPartial(link, request.prefer, Len(result.value))
                  THEN buildNextLink(link, request.prefer) ELSE None
  /\ UNCHANGED <<navigationBindings, backend, db, request>>

readHandler ==
  /\ request.kind = "read" /\ link # None
  /\ \E result \in {readByKey(backend, db, request.resource, request.key, request.q.select, request.q.expand)} :
       pages' = <<IF result.value = << >> THEN Error("notFound") ELSE result>>
  /\ link' = None
  /\ UNCHANGED <<navigationBindings, backend, db, request>>

\* A collection is the value of the answer; a single entity is all of it.
navigationPropertyHandler ==
  /\ request.kind = "navigation" /\ link # None
  /\ \E parent \in {readByKey(backend, db, request.resource, request.key, Unset, request.q.expand)} :
       LET name  == request.q.expand[1].property
           found == EntitiesOf(request.resource, parent.value[1], name)
       IN pages' = <<IF parent.value = << >> \/ (~isCollection(request.resource, name) /\ found = << >>)
                     THEN Error("notFound") ELSE Found(found, Unset)>>
  /\ link' = None
  /\ UNCHANGED <<navigationBindings, backend, db, request>>

Answer == collectionHandler \/ readHandler \/ navigationPropertyHandler

-----------------------------------------------------------------------------
(* What a request asks for.                                                 *)

RowsOf(resource, key) == SelectSeq(db[resource], LAMBDA r : r[KeyOf(resource)] = key)

(* An entity carries what was selected of its record, and under each        *)
(* navigation property that was expanded the entities of the records that   *)
(* the record, whole, is linked to: each once.                              *)
RECURSIVE Means(_, _, _, _, _)
AreTheLinked(entities, resource, row, e) ==
  LET target == targetOf(resource, e.property)
      linked == Linked(db, resource, row, e.property)
  IN /\ Len(entities) = Len(linked)
     /\ \A r \in ToSet(linked) : \E x \in ToSet(entities) :
          x[KeyOf(target)] = r[KeyOf(target)] /\ Means(x, target, r, e.select, e.expand)
Means(entity, resource, row, select, tree) ==
  LET bindings == ToSet(resolveExpandBindings(resource, tree))
      own == selectedFields(resource, select)
  IN /\ DOMAIN entity = own \cup {e.property : e \in bindings}
     /\ \A f \in own : entity[f] = row[f]
     /\ \A e \in bindings : AreTheLinked(EntitiesOf(resource, entity, e.property), resource, row, e)

RECURSIVE Depth(_)
Depth(tree) == FoldLeft(LAMBDA d, e : IF Depth(e.expand) >= d THEN Depth(e.expand) + 1 ELSE d, 0, tree)

KeepsItsLinks(resource, q) ==
  q.select # Unset =>
    \A e \in ToSet(resolveExpandBindings(resource, q.expand)) :
      isCollection(resource, e.property) \/ foreignKey(resource, e.property).column \in q.select

(* Every entity the server embeds, at each level of an $expand, is one its  *)
(* parent is linked to, and all of them are embedded, once: whatever the    *)
(* joins multiply (postgres-dal.ts buildExpandJoin, groupRows) and the      *)
(* $select of a level takes away (expand-select.ts).  Set aside: MongoDB    *)
(* under a $select that drops the foreign key (mongo-dal.ts 262-271), and   *)
(* levels below MAX_EXPAND_DEPTH.                                           *)
EmbeddedAreTheRelated ==
  \A n \in DOMAIN pages :
    LET q == request.q
        resource == request.resource
    IN IF request.kind = "navigation"
       THEN RowsOf(resource, request.key) # << >> =>
              AreTheLinked(pages[n].value, resource, RowsOf(resource, request.key)[1], q.expand[1])
       ELSE /\ q.expand # Unset
            /\ Depth(q.expand) <= MAX_EXPAND_DEPTH
            /\ backend = "mongodb" => KeepsItsLinks(resource, q)
            => \A x \in ToSet(pages[n].value) :
                 Means(x, resource, RowsOf(resource, x[KeyOf(resource)])[1], q.select, q.expand)

(* Set aside in the next property: a client's own $skip beside a $top       *)
(* served in several pages, $top=0 on MongoDB, and, as to their order,      *)
(* nulls on Postgres; and of the counts, those that the SQL backends lose   *)
(* where an $expand has an empty page (postgres-dal.ts 571-574).            *)
Sorted(backendOf, q, rows) ==
  \A i, j \in DOMAIN rows :
    LET x == rows[i][q.orderby.field]
        y == rows[j][q.orderby.field]
    IN i < j => ~(IF q.orderby.desc THEN lessThan(backendOf, x, y) ELSE lessThan(backendOf, y, x))

Counted(p, q) ==
  q.count /\ p.status = "found" /\ (p.value # << >> \/ q.expand = Unset \/ backend = "mongodb") =>
    p.count = Cardinality({i \in DOMAIN db[request.resource] : accepts(db[request.resource][i], q.filter)})

(* A walk is whole.  At its end the pages, put together, are the records of *)
(* the filter that $skip and $top leave, each once, and in the order that   *)
(* was asked for; and on every page of it, whatever the page holds, $count  *)
(* is the number of the records of the filter (handlers.ts                  *)
(* collectionHandler, buildNextLink; queryCollection of the three           *)
(* backends).                                                               *)
WalkIsWhole ==
  LET q == request.q
      resource == request.resource
      rows == [n \in DOMAIN pages |-> pages[n].value]
      whole == FlattenSeq(rows)
      key(r) == r[KeyOf(resource)]
      wanted == cut(ordered(backend, db, resource, q), q.skip, IF q.top = Unset THEN Len(db[resource]) ELSE q.top)
  IN request.kind = "collection" =>
     /\ \A n \in DOMAIN pages : Counted(pages[n], q)
     /\ /\ link = None
        /\ \A n \in DOMAIN pages : pages[n].status = "found"
        /\ ~(q.skip > 0 /\ q.top # Unset /\ request.prefer # Unset)
        /\ ~(q.top = 0 /\ backend = "mongodb")
        => /\ Len(whole) = Len(wanted)
           /\ {key(r) : r \in ToSet(whole)} = {key(r) : r \in ToSet(wanted)}
           /\ (q.orderby # Unset /\ q.orderby.field \in Metadata[resource].fields) =>
                LET full == [n \in DOMAIN whole |-> RowsOf(resource, key(whole[n]))[1]]
                    plain == backend = "postgres" /\ \E n \in DOMAIN full : full[n][q.orderby.field] = Nothing
                IN plain \/ Sorted("mongodb", q, full)

-----------------------------------------------------------------------------
(* What the handler's own comments promise and the walk does not keep: a    *)
(* client that is still owed records is given a link (handlers.ts).         *)
OwedIsServed ==
  LET q == request.q
      wanted == cut(ordered(backend, db, request.resource, q), q.skip, q.top)
  IN request.kind = "collection" /\ link = None /\ q.top # Unset /\ pages[1].status = "found"
     => Len(FlattenSeq([n \in DOMAIN pages |-> pages[n].value])) = Len(wanted)

(* A query that is served without an $expand is served with one.            *)
ExpandDoesNotFail ==
  \A n \in DOMAIN pages : pages[n].status = "failed" => request.q.expand = Unset
=============================================================================
