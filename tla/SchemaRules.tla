---------------------------- MODULE SchemaRules ----------------------------
(***************************************************************************)
(* How records are checked against a metadata report                       *)
(* (reso-certification/src/legacy/lib/schema, legacy/common.js): a JSON    *)
(* schema is generated from the report's fields and lookups, a payload is  *)
(* evaluated against it and every failure becomes an error, a warning or   *)
(* nothing, by how the payload was acquired: "transport" for what a Web    *)
(* API served, "rcf" for a RESO Common Format file.                        *)
(*                                                                         *)
(* A report is its fields and its lookups, each a set of records.  A value *)
(* is a JSON value: kind "null", "boolean", "number" (its whole part and   *)
(* the number of its decimal places), "text", "array" (items) or "object"  *)
(* (members, a sequence of pairs of a name and a value).  The context of a *)
(* payload is Absent or what the three readers of it make of it: whether   *)
(* the reader of files finds a resource in it, whether it is well formed,  *)
(* and whether it splits into the parts of a RESO URN.                     *)
(***************************************************************************)
EXTENDS Integers, SequencesExt

CONSTANTS
  Absent,               \* a part that is not there
  AnnotationNames,      \* member names that start with @
  AnnotatedNames,       \* member names with an @ further on
  Texts,                \* which texts are blank, numeric, dates and instants, and the parts of those with a comma
  RangeMaximum,         \* the maximum the generator gives each integer type
  ExemptEnumerations    \* <<version, resource, field>> of schema-validation-settings.json

typeMappings ==
  [type \in {"Edm.String", "Edm.Date", "Edm.DateTimeOffset"} |-> "string"]
  @@ [type \in {"Edm.Int16", "Edm.Int32", "Edm.Int64"} |-> "integer"]
  @@ [type \in {"Edm.Decimal", "Edm.Single", "Edm.Double"} |-> "number"]
  @@ ("Edm.Boolean" :> "boolean")
isSimpleType(type) == type \in DOMAIN typeMappings

-----------------------------------------------------------------------------
(* The metadata map (common.js): by resource and field, what a report says. *)

Values(entries, attribute) == {l[attribute] : l \in entries} \ {Absent}
MapEntry(report, field) ==
  LET entries == {l \in report.lookups : l.lookupName = field.type}
      strings == {l \in entries : l.type = "Edm.String"}
  IN [type |-> field.type, typeName |-> field.typeName, nullable |-> field.nullable # FALSE,
      isExpansion |-> field.isExpansion, isCollection |-> field.isCollection,
      isLookupField |-> entries # {},
      isComplexType |-> ~field.isExpansion /\ ~isSimpleType(field.type) /\ entries = {},
      stringValues |-> Values(strings, "lookupValue"),
      lookupValues |-> Values(strings, "lookupValue") \cup Values(entries \ strings, "standardName"),
      legacyODataValues |-> Values(entries \ strings, "lookupValue")]

FieldsOf(report, resource) == {f \in report.fields : f.resourceName = resource}
ByField(fields, Of(_)) == [name \in {f.fieldName : f \in fields} |-> Of(CHOOSE f \in fields : f.fieldName = name)]
ResourcesOf(report) == {f.resourceName : f \in report.fields}
buildMetadataMap(report) ==
  [r \in ResourcesOf(report) |-> ByField(FieldsOf(report, r), LAMBDA f: MapEntry(report, f))]

-----------------------------------------------------------------------------
(* The schema (generate.js).  No types at all admits anything.             *)

AnySchema == [types |-> {}, ref |-> Absent, items |-> Absent, enum |-> Absent, maximum |-> Absent, maxLength |-> Absent,
              format |-> Absent]

Nines(digits) == 10 ^ digits - 1
isScaleZeroDecimal(field) == field.type = "Edm.Decimal" /\ field.scale = 0 /\ field.precision # Absent
isLookupField(field, possible) == ~isSimpleType(field.type) /\ (possible # {} \/ field.isEnumeration)

ScalarSchema(report, field) ==
  LET possible == {l.lookupValue : l \in {e \in report.lookups : e.lookupName = field.type}}
      enumerated == isLookupField(field, possible)
      mapped == IF isSimpleType(field.type) THEN typeMappings[field.type] ELSE "object"
  IN [AnySchema EXCEPT
       !.types = {IF enumerated THEN "string" ELSE IF isScaleZeroDecimal(field) THEN "integer" ELSE mapped},
       !.enum = IF enumerated THEN possible ELSE Absent,
       !.maximum = IF isScaleZeroDecimal(field) THEN Nines(field.precision)
                   ELSE IF field.type \in DOMAIN RangeMaximum THEN RangeMaximum[field.type] ELSE Absent,
       !.maxLength = IF field.type = "Edm.String" THEN field.maxLength ELSE Absent,
       !.format = IF field.type \in {"Edm.Date", "Edm.DateTimeOffset"} THEN field.type ELSE Absent]

\* A collection is never null; nor, here, is an expansion (see Drops).
FieldSchema(report, field) ==
  LET item == IF field.isExpansion THEN [AnySchema EXCEPT !.ref = field.typeName] ELSE ScalarSchema(report, field)
  IN IF field.isComplexType THEN AnySchema
     ELSE IF field.isCollection THEN [AnySchema EXCEPT !.types = {"array"}, !.items = item]
     ELSE IF field.isExpansion \/ field.nullable = FALSE THEN item
     ELSE [item EXCEPT !.types = @ \cup {"null"}]

generateSchema(report, additionalProperties) ==
  [definitions |-> [r \in ResourcesOf(report) |-> ByField(FieldsOf(report, r), LAMBDA f: FieldSchema(report, f))],
   additionalProperties |-> additionalProperties,
   metadataMap |-> buildMetadataMap(report)]

-----------------------------------------------------------------------------
(* Where in the metadata a failure is (utils.js, validate.js).             *)

Entry(map, model, name) ==
  IF model \in DOMAIN map /\ name \in DOMAIN map[model] THEN map[model][name]
  ELSE [type |-> Absent, typeName |-> Absent, nullable |-> FALSE, isExpansion |-> FALSE, isCollection |-> FALSE,
        isLookupField |-> FALSE, isComplexType |-> FALSE, stringValues |-> {}, lookupValues |-> {}, legacyODataValues |-> {}]

\* Every name is looked up on the resource of the payload, however deep it is.
parseNestedPropertyForResourceAndField(map, resource, names) ==
  FoldLeft(LAMBDA acc, name:
             IF name = resource THEN acc
             ELSE IF Entry(map, resource, name).isExpansion
               THEN [acc EXCEPT !.sourceModel = Entry(map, resource, name).typeName, !.fieldName = name]
             ELSE IF acc.sourceModel # Absent THEN [acc EXCEPT !.sourceModelField = name]
             ELSE [acc EXCEPT !.fieldName = name],
           [fieldName |-> Absent, sourceModel |-> Absent, sourceModelField |-> Absent], names)

\* The Data Dictionary type of what the names lead to, through any number of expansions.
resolveDdTypeAlongPath(map, resource, names) ==
  FoldLeft(LAMBDA acc, name:
             LET entry == Entry(map, acc.model, name)
             IN IF acc.lost \/ entry.type = Absent THEN [acc EXCEPT !.lost = TRUE, !.type = Absent]
                ELSE IF entry.isExpansion THEN [acc EXCEPT !.model = entry.typeName, !.type = Absent]
                ELSE [acc EXCEPT !.type = entry.type],
           [model |-> resource, type |-> Absent, lost |-> FALSE], names).type

-----------------------------------------------------------------------------
(* What fails: the evaluation of a schema, every failure counted.          *)

determineType(value) ==
  CASE value.kind = "number" -> IF value.places > 0 THEN "decimal" ELSE "integer"
    [] value.kind = "text" -> "string"
    [] OTHER -> value.kind
HasType(types, value) ==
  LET type == determineType(value)
  IN types = {} \/ (IF type \in {"decimal", "integer"} THEN "number" ELSE type) \in types \/ type \in types

Failure(names, keyword, expected, value) ==
  [names |-> names, keyword |-> keyword, expected |-> expected, found |-> determineType(value)]
When(condition, failure) == IF condition THEN <<failure>> ELSE << >>

\* The values one text stands for: the parts of a flags value, which is a text with commas in a single-valued
\* field whose enumeration is not one of strings.
processEnumerations(entry, text) ==
  IF text \in entry.stringValues \/ entry.isCollection \/ text \notin DOMAIN Texts.parts THEN <<text>> ELSE Texts.parts[text]

\* The enum keyword: a value of no matter which kind is accepted in a file, and in an exempt field.
EnumFailures(schema, mode, version, resource, names, enum, value) ==
  LET at == parseNestedPropertyForResourceAndField(schema.metadataMap, resource, names)
      model == IF at.sourceModel = Absent THEN resource ELSE at.sourceModel
      field == IF at.sourceModelField = Absent THEN at.fieldName ELSE at.sourceModelField
      parts == processEnumerations(Entry(schema.metadataMap, model, field), value.text)
      refused == SelectSeq(parts, LAMBDA part: part \notin enum)
  IN IF mode = "rcf" \/ <<version, model, field>> \in ExemptEnumerations THEN << >>
     ELSE [i \in DOMAIN refused |-> Failure(names, "enum", {}, value)]

RECURSIVE Failures(_, _, _, _, _, _, _)
Failures(schema, mode, version, resource, names, s, value) ==
  LET Member(definition, m) ==
        IF m[1] \in DOMAIN definition THEN Failures(schema, mode, version, resource, Append(names, m[1]), definition[m[1]], m[2])
        ELSE When(~schema.additionalProperties, Failure(Append(names, m[1]), "additionalProperties", {}, m[2]))
  IN IF ~HasType(s.types, value) THEN <<Failure(names, "type", s.types, value)>>
     ELSE IF s.ref # Absent
       THEN IF value.kind # "object" THEN <<Failure(names, "type", {"object"}, value)>>
            ELSE FlattenSeq([i \in DOMAIN value.members |-> Member(schema.definitions[s.ref], value.members[i])])
     ELSE IF value.kind = "array" /\ s.items # Absent
       THEN FlattenSeq([i \in DOMAIN value.items |-> Failures(schema, mode, version, resource, names, s.items, value.items[i])])
     ELSE IF value.kind = "number"
       THEN When(s.maximum # Absent /\ value.whole > s.maximum, Failure(names, "maximum", {}, value))
     ELSE IF value.kind = "text"
       THEN (IF s.enum # Absent THEN EnumFailures(schema, mode, version, resource, names, s.enum, value) ELSE << >>)
            \o When(s.maxLength # Absent /\ Len(value.text) > s.maxLength, Failure(names, "maxLength", {}, value))
            \o When(\/ s.format = "Edm.Date" /\ value.text \notin Texts.dates
                    \/ s.format = "Edm.DateTimeOffset" /\ value.text \notin Texts.instants,
                    Failure(names, "format", {}, value))
     ELSE << >>

RecordFailures(schema, mode, version, resource, record) ==
  Failures(schema, mode, version, resource, << >>, [AnySchema EXCEPT !.ref = resource], record)

-----------------------------------------------------------------------------
(* What each failure counts as (generateErrorReport).                      *)

Drops(map, resource, failure) ==
  LET at == parseNestedPropertyForResourceAndField(map, resource, failure.names)
      reported == {at.fieldName, at.sourceModelField}
  IN \/ /\ failure.keyword = "type" /\ failure.expected = {"object"} /\ failure.found = "null"
        /\ Entry(map, resource, at.fieldName).nullable
     \/ reported \cap (AnnotationNames \cup AnnotatedNames) # {}

IsWarning(map, mode, resource, failure) ==
  LET decimal == resolveDdTypeAlongPath(map, resource, failure.names) = "Edm.Decimal"
  IN mode = "rcf" /\ \/ failure.keyword = "type" /\ failure.found = "decimal" /\ "integer" \in failure.expected /\ decimal
                     \/ failure.keyword = "maxLength"
                     \/ failure.keyword = "maximum" /\ decimal

NoFindings == [totalErrors |-> 0, totalWarnings |-> 0]
updateCacheAndStats(stats, isWarning) ==
  IF isWarning THEN [stats EXCEPT !.totalWarnings = @ + 1] ELSE [stats EXCEPT !.totalErrors = @ + 1]

generateErrorReport(map, mode, resource, failures, stats) ==
  FoldLeft(LAMBDA acc, f: IF Drops(map, resource, f) THEN acc ELSE updateCacheAndStats(acc, IsWarning(map, mode, resource, f)),
           stats, failures)

-----------------------------------------------------------------------------
(* The context of a payload (reso-context.js), and one call of validate.   *)

CONTEXT_REQUIRED_FROM_DD_VERSION == 30

\* The severities of what is wrong with a context.
checkResoContext(context, resource, version, mode) ==
  LET strict == mode = "rcf" \/ version >= CONTEXT_REQUIRED_FROM_DD_VERSION
      severity == IF strict THEN "error" ELSE "warning"
  IN IF context = Absent THEN When(strict, "error")
     ELSE IF ~context.wellFormed THEN <<severity>>
     ELSE When(context.version # version, severity) \o When(context.resource # resource, severity)

\* The resource a payload is checked as, if the schema has it.  In a file the context says which it is.
ActiveResource(schema, mode, context, resource) ==
  LET named == IF mode = "transport" \/ context = Absent THEN resource
               ELSE IF context.splits THEN context.resource ELSE Absent
  IN IF named \in DOMAIN schema.definitions THEN named ELSE Absent

validate(schema, mode, version, resource, context, records, contextChecked, stats) ==
  LET findings == IF contextChecked THEN << >> ELSE checkResoContext(context, resource, version, mode)
      checked == FoldLeft(LAMBDA acc, severity: updateCacheAndStats(acc, severity = "warning"), stats, findings)
      active == ActiveResource(schema, mode, context, resource)
      failures == FlattenSeq([i \in DOMAIN records |-> RecordFailures(schema, mode, version, active, records[i])])
  IN IF active # Absent THEN generateErrorReport(schema.metadataMap, mode, active, failures, checked)
     ELSE IF contextChecked \/ \E i \in DOMAIN findings : findings[i] = "error" THEN checked
     ELSE updateCacheAndStats(checked, FALSE)
=============================================================================
