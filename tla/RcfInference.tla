---------------------------- MODULE RcfInference ----------------------------
(***************************************************************************)
(* How a run over RESO Common Format files infers a metadata report from   *)
(* the records (reso-certification/src/rcf): every record is folded in as  *)
(* it is read, so that none is held; a nested object that the Data         *)
(* Dictionary does not expect is matched to a resource by its shape, which *)
(* is known only at the end; then what was folded at each place in the     *)
(* records is filed under its resource and described.                      *)
(*                                                                         *)
(* Values and metadata maps are those of SchemaRules.                      *)
(***************************************************************************)
EXTENDS SchemaRules

CONSTANTS
  ReferenceMap,            \* the metadata map of the Data Dictionary
  INT16_MAX, INT32_MAX,
  ENUM_MIN_SAMPLE, ENUM_MAX_DISTINCT,
  SHAPE_VALUE_SAMPLE,
  ORDER_STRIDE,
  IdfOfFrequency,          \* ln(resources / f) of a field f resources have, in hundredths
  KindMatchOptions         \* the thresholds of kind matching, in hundredths

Least(a, b)    == IF a < b THEN a ELSE b
Greatest(a, b) == IF a < b THEN b ELSE a

-----------------------------------------------------------------------------
(* values.ts, infer-type.ts                                                *)

isValidValue(value) == value.kind # "null" /\ (value.kind = "text" => value.text \notin Texts.blank)
isNumericToken(text) == text \in Texts.numeric

analyzeNumber(value) ==
  CASE value.places > 0 -> "Edm.Decimal"
    [] value.whole \in -INT16_MAX - 1 .. INT16_MAX -> "Edm.Int16"
    [] value.whole \in -INT32_MAX - 1 .. INT32_MAX -> "Edm.Int32"
    [] OTHER -> "Edm.Int64"

\* The type of one scalar.
inferType(value) ==
  CASE value.kind = "boolean" -> "Edm.Boolean"
    [] value.kind = "number" -> analyzeNumber(value)
    [] value.text \in Texts.dates -> "Edm.Date"
    [] value.text \in Texts.instants -> "Edm.DateTimeOffset"
    [] OTHER -> "Edm.String"

RECURSIVE Digits(_)
Digits(n) == IF n < 10 THEN 1 ELSE 1 + Digits(n \div 10)
Magnitude(n) == IF n < 0 THEN -n ELSE n

-----------------------------------------------------------------------------
(* The type of a field of which the Dictionary knows nothing (aggregate.ts). *)

newFieldTypeState == [nullable |-> FALSE, valid |-> 0, elements |-> Absent, objectSeen |-> FALSE, types |-> {},
                      scale |-> 0, intDigits |-> 0, maxLength |-> 0]

AddScalar(state, value) ==
  [state EXCEPT !.types = @ \cup {inferType(value)},
                !.scale = IF value.kind = "number" THEN Greatest(@, value.places) ELSE @,
                !.intDigits = IF value.kind = "number" THEN Greatest(@, Digits(Magnitude(value.whole))) ELSE @,
                !.maxLength = IF value.kind = "text" THEN Greatest(@, Len(value.text)) ELSE @]

RECURSIVE addToFieldType(_, _)
addToFieldType(state, value) ==
  IF ~isValidValue(value) THEN [state EXCEPT !.nullable = TRUE]
  ELSE LET counted  == [state EXCEPT !.valid = @ + 1]
           elements == IF state.elements = Absent THEN newFieldTypeState ELSE state.elements
       IN CASE value.kind = "array" -> [counted EXCEPT !.elements = FoldLeft(addToFieldType, elements, value.items)]
            [] value.kind = "object" -> [counted EXCEPT !.objectSeen = TRUE]
            [] OTHER -> AddScalar(counted, value)

RECURSIVE mergeFieldTypes(_, _)
mergeFieldTypes(a, b) ==
  [nullable   |-> a.nullable \/ b.nullable,
   valid      |-> a.valid + b.valid,
   elements   |-> IF a.elements = Absent THEN b.elements
                  ELSE IF b.elements = Absent THEN a.elements ELSE mergeFieldTypes(a.elements, b.elements),
   objectSeen |-> a.objectSeen \/ b.objectSeen,
   types      |-> a.types \cup b.types,
   scale      |-> Greatest(a.scale, b.scale),
   intDigits  |-> Greatest(a.intDigits, b.intDigits),
   maxLength  |-> Greatest(a.maxLength, b.maxLength)]

Integral == {"Edm.Int16", "Edm.Int32", "Edm.Int64"}
widestInt(types) == IF "Edm.Int64" \in types THEN "Edm.Int64" ELSE IF "Edm.Int32" \in types THEN "Edm.Int32" ELSE "Edm.Int16"

Typed(type, nullable) == [type |-> type, isCollection |-> FALSE, isExpansion |-> FALSE, nullable |-> nullable,
                          maxLength |-> 0, scale |-> 0, precision |-> 0]

\* What the observations come to; 0 stands for a facet that is left out.
RECURSIVE fieldTypeOf(_)
fieldTypeOf(state) ==
  LET typed(type) == Typed(type, state.nullable)
      textual == {"Edm.String", "Edm.Date", "Edm.DateTimeOffset"}
  IN IF state.valid = 0 THEN typed("Edm.String")
     ELSE IF state.elements # Absent
       THEN [fieldTypeOf(state.elements) EXCEPT !.isCollection = TRUE, !.nullable = @ \/ state.nullable]
     ELSE IF state.objectSeen THEN [typed("Custom Type") EXCEPT !.isExpansion = TRUE]
     ELSE IF state.types \subseteq Integral THEN typed(widestInt(state.types))
     ELSE IF state.types \subseteq Integral \cup {"Edm.Decimal"}
       THEN [typed("Edm.Decimal") EXCEPT !.scale = state.scale, !.precision = state.intDigits + state.scale]
     ELSE IF state.types \in {{"Edm.Date"}, {"Edm.DateTimeOffset"}, {"Edm.Boolean"}}
       THEN typed(CHOOSE type \in state.types : TRUE)
     ELSE IF state.types \subseteq textual THEN [typed("Edm.String") EXCEPT !.maxLength = state.maxLength]
     ELSE typed("Edm.String")

-----------------------------------------------------------------------------
(* Local enumerations (local-enum-detection.ts).                           *)

classifiesAsEnum(total, distinct) ==
  total >= ENUM_MIN_SAMPLE /\ distinct \in 2 .. ENUM_MAX_DISTINCT /\ 2 * distinct <= total

-----------------------------------------------------------------------------
(* Kind matching (kind-match.ts): which resource has the fields of a shape. *)
(* Scores are in hundredths of the units of the code.                       *)

Fields(resource) == DOMAIN ReferenceMap[resource]
buildIdf(field) ==
  LET df == Cardinality({r \in DOMAIN ReferenceMap : field \in Fields(r)})
  IN IF df > 0 THEN IdfOfFrequency[df] ELSE 0
SumOver(S, f(_)) == FoldSet(LAMBDA x, acc: acc + f(x), 0, S)

enumOverlapFor(resource, values) ==
  LET Valid(f) == ReferenceMap[resource][f].lookupValues \cup ReferenceMap[resource][f].legacyODataValues
      corroborating == {f \in DOMAIN values \cap Fields(resource) : Valid(f) # {}}
  IN SumOver(corroborating, LAMBDA f: LET seen == ToSet(values[f])
                                      IN (100 * Cardinality(seen \cap Valid(f))) \div Cardinality(seen))

keyNames(resource) == {resource \o "Key", resource \o "KeyNumeric"}
containmentIdf(resource, fields) == SumOver(fields \cap Fields(resource), buildIdf)
scoreCandidate(resource, shape) ==
  containmentIdf(resource, shape.fields)
  + (IF keyNames(resource) \cap shape.fields # {} THEN KindMatchOptions.keyBonus ELSE 0)
  + (KindMatchOptions.enumBonus * enumOverlapFor(resource, shape.values)) \div 100

\* The resource a shape is taken for, in a set; empty when none is sure enough.
match(shape, excluded) ==
  LET candidates == DOMAIN ReferenceMap \ excluded
  IN {r \in candidates :
        \E score \in {[s \in candidates |-> scoreCandidate(s, shape)]} : \E known \in {SumOver(shape.fields, buildIdf)} :
          /\ known > 0 /\ score[r] > 0
          /\ score[r] >= KindMatchOptions.minMatchIdf
          /\ 100 * containmentIdf(r, shape.fields) >= KindMatchOptions.minContainment * known
          /\ \A s \in candidates \ {r} : 100 * score[r] >= KindMatchOptions.marginRatio * score[s]}

-----------------------------------------------------------------------------
(* What is kept of the records while they are read (assemble-report.ts).   *)
(* A place in the records is a path: a root resource and field names.      *)

\* Values seen, each with the earliest place in reading order it was seen at.
Unseen == << >>
seeAt(seen, value, at) == (value :> IF value \in DOMAIN seen THEN Least(seen[value], at) ELSE at) @@ seen
mergeSeen(a, b) == [v \in DOMAIN a \cup DOMAIN b |->
                      IF v \notin DOMAIN a THEN b[v] ELSE IF v \notin DOMAIN b THEN a[v] ELSE Least(a[v], b[v])]
inOrder(seen) == SetToSortSeq(DOMAIN seen, LAMBDA v, w: seen[v] < seen[w])

Items(value)    == IF value.kind = "array" THEN value.items ELSE <<value>>
stringsOf(value) == LET texts == SelectSeq(Items(value), LAMBDA v: v.kind = "text" /\ isValidValue(v))
                    IN [i \in DOMAIN texts |-> texts[i].text]
Objects(value)   == SelectSeq(Items(value), LAMBDA v: v.kind = "object")

Reference(resource, field) == Entry(ReferenceMap, resource, field)
IsDdField(resource, field) == Reference(resource, field).type # Absent
IsDdLookup(resource, field) == Reference(resource, field).isLookupField
ddLookupNames == UNION {{f \in Fields(r) : IsDdLookup(r, f)} : r \in DOMAIN ReferenceMap}

\* The context a node's shapes are collected under, and whether its resource is known as it is read.
RECURSIVE PathNode(_)
PathNode(path) ==
  IF Len(path) = 1 THEN [observed |-> path[1], known |-> TRUE]
  ELSE LET parent == PathNode(Front(path))
           ref == Reference(parent.observed, Last(path))
       IN [observed |-> IF ref.isExpansion THEN ref.typeName ELSE Last(path), known |-> parent.known /\ ref.isExpansion]

newInference == [roots |-> << >>,      \* root resources, in the order the files named them
                 read |-> << >>,       \* how far each root's own order has counted
                 records |-> << >>,    \* by path
                 fields |-> << >>,     \* by path and field
                 shapes |-> << >>]     \* by observed parent and field
RootIndex(inf, path) == SelectInSeq(inf.roots, LAMBDA r: r = path[1])
Now(inf, path) == RootIndex(inf, path) * ORDER_STRIDE + inf.read[path[1]] + 1
Passed(inf, path, n) == [inf EXCEPT !.read[path[1]] = @ + n]

newFieldFold(path, field, at) ==
  LET node == PathNode(path)
      keepLookupValues == IF node.known THEN IsDdLookup(node.observed, field) ELSE field \in ddLookupNames
      keepLocal == ~node.known \/ ~IsDdField(node.observed, field)
  IN [first |-> at, observations |-> 0,
      lookupValues |-> IF keepLookupValues THEN Unseen ELSE Absent,
      local |-> IF keepLocal THEN [type |-> newFieldTypeState, usable |-> 0, values |-> Unseen] ELSE Absent]

(* Plausible bug: values are no longer kept once an enumeration is full, so one value more is not noticed. *)
FaultySeeLocal(local, text, at) ==
  IF isNumericToken(text) THEN local
  ELSE [local EXCEPT !.usable = @ + 1,
                     !.values = IF text \in DOMAIN @ \/ Cardinality(DOMAIN @) < ENUM_MAX_DISTINCT THEN seeAt(@, text, at) ELSE @]
\* A local value is not kept when the field has more than an enumeration can have already.
SeeLocal(local, text, at) ==
  IF isNumericToken(text) THEN local
  ELSE [local EXCEPT !.usable = @ + 1,
                     !.values = IF text \in DOMAIN @ \/ Cardinality(DOMAIN @) <= ENUM_MAX_DISTINCT THEN seeAt(@, text, at) ELSE @]

observe(inf, path, field, value) ==
  LET at == Now(inf, path)
      key == <<path, field>>
      fold == IF key \in DOMAIN inf.fields THEN inf.fields[key] ELSE newFieldFold(path, field, at)
      texts == stringsOf(value)
      lookupValues == IF fold.lookupValues = Absent THEN Absent
                      ELSE FoldLeftDomain(LAMBDA seen, i: seeAt(seen, texts[i], at + i), fold.lookupValues, texts)
      local == IF fold.local = Absent THEN Absent
               ELSE FoldLeftDomain(LAMBDA l, i: SeeLocal(l, texts[i], at + i),
                                   [fold.local EXCEPT !.type = addToFieldType(@, value)], texts)
      seen == [fold EXCEPT !.observations = @ + 1, !.lookupValues = lookupValues, !.local = local]
  IN Passed([inf EXCEPT !.fields = (key :> seen) @@ @], path, 1 + Len(texts))

\* A sample of the texts of a shape's field is kept per root.
Sampled(values, field, root, text, at) ==
  LET earlier == IF field \in DOMAIN values THEN values[field] ELSE [first |-> at, byRoot |-> << >>]
      sample  == IF root \in DOMAIN earlier.byRoot THEN earlier.byRoot[root] ELSE << >>
      more    == IF Len(sample) < SHAPE_VALUE_SAMPLE THEN Append(sample, text) ELSE sample
  IN (field :> [earlier EXCEPT !.byRoot = (root :> more) @@ @]) @@ values

collectShape(inf, path, field, nested) ==
  LET key == <<PathNode(path).observed, field>>
      at == Now(inf, path)
      shape == IF key \in DOMAIN inf.shapes THEN inf.shapes[key] ELSE [first |-> at, fields |-> Unseen, values |-> << >>]
      members == SelectSeq(FlattenSeq([i \in DOMAIN nested |-> nested[i].members]), LAMBDA m: m[1] \notin AnnotationNames)
      see(s, i) ==
        [s EXCEPT !.fields = seeAt(@, members[i][1], at + i),
                  !.values = IF members[i][2].kind = "text" /\ members[i][2].text # ""
                               THEN Sampled(@, members[i][1], RootIndex(inf, path), members[i][2].text, at + i) ELSE @]
  IN Passed([inf EXCEPT !.shapes = (key :> FoldLeftDomain(see, shape, members)) @@ @], path, 1 + Len(members))

\* One record at a place, a field at a time, and what is nested in the field.
RECURSIVE visit(_, _, _)
RECURSIVE visitNested(_, _, _, _)
visit(inf, path, record) ==
  LET count == IF path \in DOMAIN inf.records THEN inf.records[path] ELSE 0
      member(acc, m) == IF m[1] \in AnnotationNames THEN acc
                        ELSE visitNested(observe(acc, path, m[1], m[2]), path, m[1], Objects(m[2]))
  IN IF record.kind # "object" THEN inf
     ELSE FoldLeft(member, [inf EXCEPT !.records = (path :> count + 1) @@ @], record.members)
visitNested(inf, path, field, nested) ==
  IF nested = << >> THEN inf
  ELSE FoldLeft(LAMBDA acc, object: visit(acc, Append(path, field), object),
                IF Reference(PathNode(path).observed, field).isExpansion THEN inf ELSE collectShape(inf, path, field, nested),
                nested)

add(inf, resource, record) ==
  LET rooted == IF resource \in ToSet(inf.roots) THEN inf
                ELSE [inf EXCEPT !.roots = Append(@, resource), !.read = (resource :> 0) @@ @]
  IN visit(rooted, <<resource>>, record)

-----------------------------------------------------------------------------
(* The kinds of the shapes, once every record has been read.               *)

\* What is kept of the shapes, the samples of each in the order of the roots.
observedShapes(shapes) ==
  LET sample(byRoot) == FlattenSeq([i \in 1..Cardinality(DOMAIN byRoot) |-> byRoot[SetToSortSeq(DOMAIN byRoot, <)[i]]])
      first(values) == SubSeq(values, 1, Least(Len(values), SHAPE_VALUE_SAMPLE))
  IN [k \in DOMAIN shapes |->
       [first |-> shapes[k].first, fields |-> DOMAIN shapes[k].fields,
        values |-> [f \in DOMAIN shapes[k].values |-> first(sample(shapes[k].values[f].byRoot))]]]

\* A shape is below another when it was collected under the name the other was read by.
ParentKind(shapes, kinds, k) ==
  LET parents == {p \in DOMAIN kinds : kinds[p] # {} /\ p[2] = k[1]}
  IN IF parents = {} THEN {}
     ELSE kinds[CHOOSE p \in parents : \A q \in parents : shapes[p].first <= shapes[q].first]

\* What each shape is taken for, given what was found before: not for what its parent is read as, nor is taken for.
matchShapes(shapes, kinds) ==
  [k \in DOMAIN shapes |-> match(shapes[k], {k[1]} \cup ParentKind(shapes, kinds, k))]

\* By parent resource and field; of two shapes that come to the same, the later counts.
resolveExpansionKinds(shapes, resolved) ==
  LET matched == {k \in DOMAIN shapes : resolved[k] # {}}
      context(k) == <<IF ParentKind(shapes, resolved, k) = {} THEN k[1] ELSE CHOOSE r \in ParentKind(shapes, resolved, k) : TRUE,
                      k[2]>>
      latest(c) == CHOOSE k \in matched : /\ context(k) = c
                                         /\ \A j \in matched : context(j) = c => shapes[j].first <= shapes[k].first
  IN [c \in {context(k) : k \in matched} |-> CHOOSE r \in resolved[latest(c)] : TRUE]

\* The resource what was read at a place is filed under.
RECURSIVE place(_, _)
place(kinds, path) ==
  IF Len(path) = 1 THEN path[1]
  ELSE LET context == <<place(kinds, Front(path)), Last(path)>>
           ref == Reference(context[1], context[2])
       IN IF ref.isExpansion THEN ref.typeName ELSE IF context \in DOMAIN kinds THEN kinds[context] ELSE Last(path)

-----------------------------------------------------------------------------
(* The report.                                                             *)

mergeLocal(a, b) ==
  IF a = Absent THEN b ELSE IF b = Absent THEN a
  ELSE [type |-> mergeFieldTypes(a.type, b.type), usable |-> a.usable + b.usable, values |-> mergeSeen(a.values, b.values)]
mergeFields(a, b) ==
  [first |-> Least(a.first, b.first), observations |-> a.observations + b.observations,
   lookupValues |-> IF a.lookupValues = Absent THEN b.lookupValues
                    ELSE IF b.lookupValues = Absent THEN a.lookupValues ELSE mergeSeen(a.lookupValues, b.lookupValues),
   local |-> mergeLocal(a.local, b.local)]

\* What was read at every place, under its resource: places that land on the same field of the same resource merge.
Filed(inf, kinds) ==
  LET placed == [p \in DOMAIN inf.records |-> place(kinds, p)]
      folds(r, f) == {inf.fields[k] : k \in {k \in DOMAIN inf.fields : placed[k[1]] = r /\ k[2] = f}}
      merged(r, f) == LET all == SetToSeq(folds(r, f)) IN FoldLeft(mergeFields, all[1], Tail(all))
      names(r) == {k[2] : k \in {k \in DOMAIN inf.fields : placed[k[1]] = r}}
  IN [r \in {placed[k[1]] : k \in DOMAIN inf.fields} |->
       [records |-> SumOver({p \in DOMAIN placed : placed[p] = r}, LAMBDA p: inf.records[p]),
        fields |-> [f \in names(r) |-> merged(r, f)]]]

ReportField(resource, field, type) ==
  [resourceName |-> resource, fieldName |-> field, type |-> type, typeName |-> Absent, nullable |-> Absent,
   isCollection |-> FALSE, isExpansion |-> FALSE, isEnumeration |-> FALSE, isComplexType |-> FALSE,
   maxLength |-> Absent, scale |-> Absent, precision |-> Absent]

ddFieldFromReference(resource, field, isEnumeration, nullableByAbsence) ==
  LET ref == Reference(resource, field)
  IN [ReportField(resource, field, ref.type) EXCEPT
        !.typeName = ref.typeName, !.nullable = nullableByAbsence \/ ref.nullable, !.isCollection = ref.isCollection,
        !.isExpansion = ref.isExpansion, !.isEnumeration = isEnumeration]

\* Every observed value, and whether it is a standard one.
ddLookups(resource, field, values) ==
  LET ref == Reference(resource, field)
  IN [i \in DOMAIN values |->
       [lookupName |-> ref.type, lookupValue |-> values[i], type |-> "Edm.String",
        standardName |-> Absent, standard |-> values[i] \in ref.lookupValues \cup ref.legacyODataValues]]

localFieldAndLookups(resource, field, local, nullableByAbsence, kind) ==
  LET agg == fieldTypeOf(local.type)
      enum == /\ agg.type = "Edm.String" /\ ~agg.isExpansion
              /\ classifiesAsEnum(local.usable, Cardinality(DOMAIN local.values))
      lookupName == resource \o "." \o field
      values == inOrder(local.values)
      Facet(n) == IF n = 0 THEN Absent ELSE n
  IN [field |-> [ReportField(resource, field, IF enum THEN lookupName ELSE agg.type) EXCEPT
                   !.isCollection = agg.isCollection, !.isExpansion = agg.isExpansion,
                   !.typeName = IF ~agg.isExpansion THEN Absent ELSE IF kind = Absent THEN field ELSE kind,
                   !.nullable = IF agg.nullable \/ nullableByAbsence THEN TRUE ELSE Absent,
                   !.maxLength = Facet(agg.maxLength), !.scale = Facet(agg.scale), !.precision = Facet(agg.precision)],
      lookups |-> IF ~enum THEN << >>
                  ELSE [i \in DOMAIN values |-> [lookupName |-> lookupName, lookupValue |-> values[i], type |-> "Edm.String",
                                                 standardName |-> Absent, standard |-> FALSE]]]

Described(resource, field, fold, records, kinds) ==
  LET nullableByAbsence == fold.observations < records
      lookups == IF IsDdLookup(resource, field) /\ fold.lookupValues # Absent
                   THEN ddLookups(resource, field, inOrder(fold.lookupValues)) ELSE << >>
      kind == IF <<resource, field>> \in DOMAIN kinds THEN kinds[<<resource, field>>] ELSE Absent
  IN IF IsDdField(resource, field)
       THEN [field |-> ddFieldFromReference(resource, field, lookups # << >>, nullableByAbsence), lookups |-> lookups]
     ELSE localFieldAndLookups(resource, field, fold.local, nullableByAbsence, kind)

\* Resources, fields and lookup values are in the order they were first read.
report(filed, kinds) ==
  LET first(r) == CHOOSE n \in {filed[r].fields[f].first : f \in DOMAIN filed[r].fields} :
                    \A f \in DOMAIN filed[r].fields : n <= filed[r].fields[f].first
      resources == inOrder([r \in DOMAIN filed |-> first(r)])
      described(r) == LET names == inOrder([f \in DOMAIN filed[r].fields |-> filed[r].fields[f].first])
                      IN [i \in DOMAIN names |-> Described(r, names[i], filed[r].fields[names[i]], filed[r].records, kinds)]
  IN FlattenSeq([i \in DOMAIN resources |-> described(resources[i])])
=============================================================================
