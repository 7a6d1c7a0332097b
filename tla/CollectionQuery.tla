-------------------------- MODULE CollectionQuery --------------------------
(***************************************************************************)
(* The read side of the reference server's data-access layers              *)
(* (reso-reference-server/src/db/postgres-dal.ts, sqlite-dal.ts and        *)
(* mongo-dal.ts, with expand-select.ts): queryCollection and readByKey     *)
(* with $select, $orderby, $top, $skip, $count and $expand to several      *)
(* levels.                                                                 *)
(*                                                                         *)
(* A table is the sequence of its records in the order of a scan, which    *)
(* is taken to be the same for each query.  A record is a function from    *)
(* its fields; keys are numbers, and null sorts as each database sorts it. *)
(* An entity is a record in which the fields that were not selected are    *)
(* gone and the navigation properties that were expanded have come: a      *)
(* sequence of entities, or one entity or null.  The filter is one on a    *)
(* number; what each backend makes of others is the subject of Filters.    *)
(***************************************************************************)
EXTENDS CollectionPaging, FiniteSets

CONSTANTS
  Nothing,             \* null
  Metadata,            \* resource -> [key, fields, expansions], as the DD has it
  MAX_EXPAND_DEPTH     \* of data-access.ts

VARIABLE navigationBindings   \* what router.ts found at start-up

Resources == DOMAIN Metadata
KeyOf(resource) == Metadata[resource].key

(* An $expand is a sequence of these; options the layers do not act on     *)
(* ($filter, $orderby, $top, $skip, $count, $levels) are left out.         *)
Expand(property, select, nested) == [property |-> property, select |-> select, expand |-> nested]

-----------------------------------------------------------------------------
(* router.ts: how a navigation property finds its records.                 *)

ForeignKeyOf(resource, name) ==
  LET exp == Metadata[resource].expansions[name]
      theirs == Metadata[exp.target].fields
  IN CASE exp.isCollection /\ {"ResourceName", "ResourceRecordKey"} \subseteq theirs ->
            [strategy |-> "resource-record-key", column |-> "ResourceRecordKey"]
       [] exp.isCollection /\ ~({"ResourceName", "ResourceRecordKey"} \subseteq theirs)
            /\ KeyOf(resource) \in theirs ->
            [strategy |-> "direct", column |-> KeyOf(resource)]
       [] ~exp.isCollection /\ name \o "Key" \in Metadata[resource].fields ->
            [strategy |-> "parent-fk", column |-> name \o "Key"]
       [] OTHER -> [strategy |-> "none", column |-> ""]

(* Of each resource, what its bound navigation properties are found by:     *)
(* made once, when the server starts.                                       *)
Bindings ==
  [resource \in Resources |->
     LET expansions == Metadata[resource].expansions
         bound == {name \in DOMAIN expansions : /\ expansions[name].target \in Resources
                                                /\ ForeignKeyOf(resource, name).strategy # "none"}
     IN [name \in bound |-> ForeignKeyOf(resource, name)]]

foreignKey(resource, name) == navigationBindings[resource][name]

targetOf(resource, name)     == Metadata[resource].expansions[name].target
isCollection(resource, name) == Metadata[resource].expansions[name].isCollection

resolveExpandBindings(resource, tree) ==
  SelectSeq(tree, LAMBDA e : e.property \in DOMAIN navigationBindings[resource])

(* The records of the target that an entity is linked to; an entity that   *)
(* lost the field with the key of the target is linked to none.            *)
Linked(db, resource, entity, name) ==
  LET fk   == foreignKey(resource, name)
      rows == db[targetOf(resource, name)]
      own(column) == IF column \in DOMAIN entity THEN entity[column] ELSE Nothing
  IN SelectSeq(rows, LAMBDA row :
       CASE fk.strategy = "resource-record-key" ->
              /\ row.ResourceName = resource
              /\ row.ResourceRecordKey = entity[KeyOf(resource)]
         [] fk.strategy = "direct" -> row[fk.column] = entity[KeyOf(resource)]
         [] OTHER -> /\ own(fk.column) # Nothing
                     /\ row[KeyOf(targetOf(resource, name))] = own(fk.column))

Keep(entity, fields) == [f \in DOMAIN entity \cap fields |-> entity[f]]
EntitiesOf(resource, entity, name) ==
  IF isCollection(resource, name) THEN entity[name]
  ELSE IF entity[name] = Nothing THEN << >> ELSE <<entity[name]>>
Embedded(resource, name, found) ==
  CASE isCollection(resource, name) -> found
    [] ~isCollection(resource, name) /\ found = << >> -> Nothing
    [] OTHER -> found[1]

Expanded(tree) == {e.property : e \in ToSet(tree)}

\* The records an entity is linked to by each expanded property.
Stitched(db, resource, entity, tree) ==
  [p \in Expanded(tree) |-> Linked(db, resource, entity, p)]

Each(rows, Entity(_)) ==
  LET entityOf == [row \in ToSet(rows) |-> Entity(row)] IN [n \in DOMAIN rows |-> entityOf[rows[n]]]

(* An entity with what was found for each expanded property, each of its   *)
(* entities changed.                                                       *)
InEach(resource, entity, tree, found, Change(_, _, _)) ==
  LET first(p) == SelectSeq(tree, LAMBDA e : e.property = p)[1]
      changed(p, e) == Each(found[p], LAMBDA child : Change(targetOf(resource, p), child, e))
  IN [p \in Expanded(tree) |-> Embedded(resource, p, changed(p, first(p)))] @@ entity

(* A $select inside an $expand trims the entities, but not their key nor   *)
(* what was expanded in them.                                              *)
applyExpandSelect(resource, entity, e) ==
  IF e.select = Unset THEN entity ELSE Keep(entity, e.select \cup {KeyOf(resource)} \cup Expanded(e.expand))

-----------------------------------------------------------------------------
(* $filter, $orderby and the page.                                          *)

accepts(row, filter) ==
  \/ filter = Unset
  \/ /\ row[filter.field] # Nothing
     /\ IF filter.op = "eq" THEN row[filter.field] = filter.value ELSE row[filter.field] >= filter.value

lessThan(backend, x, y) ==
  IF Nothing \in {x, y} THEN x # y /\ (IF backend = "postgres" THEN y ELSE x) = Nothing ELSE x < y

(* The rows of the filter in the order of the query: SQL passes over an     *)
(* unknown field.                                                           *)
ordered(backend, db, resource, q) ==
  LET table == db[resource]
      precedes(i, j) ==
        LET x == table[i][q.orderby.field]
            y == table[j][q.orderby.field]
        IN CASE q.orderby = Unset \/ q.orderby.field \notin Metadata[resource].fields -> i < j
             [] x = y -> i < j
             [] OTHER -> IF q.orderby.desc THEN lessThan(backend, y, x) ELSE lessThan(backend, x, y)
      rows == SetToSortSeq({i \in DOMAIN table : accepts(table[i], q.filter)}, precedes)
  IN [n \in DOMAIN rows |-> table[rows[n]]]

cut(rows, skip, top) == SubSeq(rows, skip + 1, lesser(skip + top, Len(rows)))

selectedFields(resource, select) ==
  IF select = Unset THEN Metadata[resource].fields
  ELSE Metadata[resource].fields \cap (select \cup {KeyOf(resource)})

Found(value, count) == [status |-> "found", value |-> value, count |-> count]
Error(status)       == [status |-> status, value |-> << >>, count |-> Unset]

-----------------------------------------------------------------------------
(* postgres-dal.ts and sqlite-dal.ts, which are one text but for the calls  *)
(* of the driver.  The first level of an $expand is a LEFT JOIN of all the  *)
(* expanded tables to the page: a row for each combination.                 *)

\* For each property, what it joins to the parent: a null where it joins nothing.
Joined(db, resource, parent, bindings) ==
  LET orNull(records) == IF records = {} THEN {Nothing} ELSE records
  IN [i \in DOMAIN bindings |-> orNull(ToSet(Linked(db, resource, parent, bindings[i].property)))]

buildExpandJoin(columns) ==
  {row \in [DOMAIN columns -> UNION Range(columns)] : \A i \in DOMAIN row : row[i] \in columns[i]}

\* Plausible bug: each combination counts.
FaultyDeduplicated(rows, i) ==
  LET each == SetToSeq(rows) IN SelectSeq([n \in DOMAIN each |-> each[n][i]], LAMBDA r : r # Nothing)
Deduplicated(rows, i) == SetToSeq({row[i] : row \in rows} \ {Nothing})

groupRows(resource, bindings, rows) ==
  LET positionOf(p) == CHOOSE i \in DOMAIN bindings : bindings[i].property = p
  IN [p \in Expanded(bindings) |-> Deduplicated(rows, positionOf(p))]

RECURSIVE resolveChildExpand(_, _, _, _, _)
resolveNestedExpand(db, resource, entity, tree, found, depth) ==
  LET Nested(target, child, e) ==
        IF depth >= MAX_EXPAND_DEPTH THEN child
        ELSE resolveChildExpand(db, target, child, resolveExpandBindings(target, e.expand), depth + 1)
  IN InEach(resource, entity, tree, found,
            LAMBDA target, child, e : applyExpandSelect(target, Nested(target, child, e), e))

resolveChildExpand(db, resource, child, tree, depth) ==
  resolveNestedExpand(db, resource, child, tree, Stitched(db, resource, child, tree), depth)

\* Plausible bug: the count of the page, not of the filter.
FaultyTotal(q, all, onPage) == IF q.count THEN Len(onPage) ELSE Unset
total(q, all, onPage) == IF q.count THEN Len(all) ELSE Unset

sqlCollection(backend, db, resource, q) ==
  LET bindings == resolveExpandBindings(resource, q.expand)
      fkCols   == {foreignKey(resource, b.property).column :
                     b \in {x \in ToSet(bindings) : ~isCollection(resource, x.property)}}
      columns  == IF q.select = Unset \/ bindings = << >> THEN selectedFields(resource, q.select)
                  ELSE selectedFields(resource, q.select \cup fkCols)
      all   == ordered(backend, db, resource, q)
      known == q.orderby # Unset /\ q.orderby.field \in Metadata[resource].fields
      onPage == cut(all, q.skip, q.top)
      key(r) == r[KeyOf(resource)]
      \* The outer query sorts by the key where the request does not sort.
      parents == IF bindings = << >> \/ known THEN onPage
                 ELSE SortSeq(onPage, LAMBDA r, s : key(r) < key(s))
      found(row) == groupRows(resource, bindings, buildExpandJoin(Joined(db, resource, Keep(row, columns), bindings)))
      Entity(row) == resolveNestedExpand(db, resource, Keep(row, selectedFields(resource, q.select)), bindings,
                                         found(row), 1)
  IN IF bindings # << >> /\ known /\ q.orderby.field \notin columns
     THEN Error("failed")       \* the outer ORDER BY names a column the page does not have
     ELSE Found(Each(parents, Entity),
                IF bindings # << >> /\ onPage = << >> THEN Unset ELSE total(q, all, onPage))

byKey(resource, key, select, tree, top) ==
  [filter |-> [field |-> KeyOf(resource), op |-> "eq", value |-> key], select |-> select,
   orderby |-> Unset, top |-> top, skip |-> 0, count |-> FALSE, expand |-> tree]

sqlByKey(backend, db, resource, key, select, tree) ==
  IF tree # Unset THEN sqlCollection(backend, db, resource, byKey(resource, key, select, tree, 1))
  ELSE LET rows == SelectSeq(db[resource], LAMBDA r : r[KeyOf(resource)] = key)
       IN Found([n \in DOMAIN rows |-> Keep(rows[n], selectedFields(resource, select))], Unset)

-----------------------------------------------------------------------------
(* mongo-dal.ts: one query for each navigation property, on the documents   *)
(* as $select left them.                                                    *)

RECURSIVE batchExpandNavigation(_, _, _, _, _)
batchExpandNavigation(db, resource, entity, tree, depth) ==
  LET bindings == resolveExpandBindings(resource, tree)
      Nested(target, child, e) ==
        IF depth >= MAX_EXPAND_DEPTH THEN child ELSE batchExpandNavigation(db, target, child, e.expand, depth + 1)
  IN InEach(resource, entity, bindings, Stitched(db, resource, entity, bindings),
            LAMBDA target, child, e : applyExpandSelect(target, Nested(target, child, e), e))

mongoCollection(db, resource, q) ==
  LET all  == ordered("mongodb", db, resource, q)
      docs == IF q.top = 0 THEN cut(all, q.skip, Len(all)) ELSE cut(all, q.skip, q.top)   \* limit(0) is none
      Entity(doc) == batchExpandNavigation(db, resource, Keep(doc, selectedFields(resource, q.select)), q.expand, 0)
  IN IF q.orderby # Unset /\ q.orderby.field \notin Metadata[resource].fields
     THEN Error("badRequest")
     ELSE Found(Each(docs, Entity), total(q, all, docs))

mongoByKey(db, resource, key, select, tree) ==
  LET docs == SelectSeq(db[resource], LAMBDA r : r[KeyOf(resource)] = key)
      Entity(doc) == LET own == Keep(doc, selectedFields(resource, select)) IN
        IF tree = Unset THEN own ELSE batchExpandNavigation(db, resource, own, tree, 0)
  IN Found(Each(docs, Entity), Unset)

-----------------------------------------------------------------------------
postgresCollection(db, resource, q) == sqlCollection("postgres", db, resource, q)
sqliteCollection(db, resource, q) == sqlCollection("sqlite", db, resource, q)
postgresByKey(db, resource, key, select, tree) == sqlByKey("postgres", db, resource, key, select, tree)
sqliteByKey(db, resource, key, select, tree) == sqlByKey("sqlite", db, resource, key, select, tree)

queryCollection(backend, db, resource, q) ==
  CASE backend = "postgres" -> postgresCollection(db, resource, q)
    [] backend = "sqlite"   -> sqliteCollection(db, resource, q)
    [] backend = "mongodb"  -> mongoCollection(db, resource, q)

readByKey(backend, db, resource, key, select, tree) ==
  CASE backend = "postgres" -> postgresByKey(db, resource, key, select, tree)
    [] backend = "sqlite"   -> sqliteByKey(db, resource, key, select, tree)
    [] backend = "mongodb"  -> mongoByKey(db, resource, key, select, tree)
=============================================================================
