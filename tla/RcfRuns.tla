------------------------------ MODULE RcfRuns ------------------------------
(***************************************************************************)
(* A run of `reso-cert rcf` (reso-certification/src/cli/rcf-command.ts,    *)
(* rcf-input.ts, sdk/rcf.ts): the files are fingerprinted, the version of  *)
(* the Data Dictionary is the one declared or the first the files name,    *)
(* then each file is read as a stream, its records checked in batches,     *)
(* counted and folded into the inference, and at the end the reports are   *)
(* made, their names checked by the variations service and written.        *)
(*                                                                         *)
(* A file is its context (@reso.context), the resource its @odata.context  *)
(* names, its records, whether the context comes before them, and the      *)
(* record at which it stops being JSON (0 when it is well formed).         *)
(***************************************************************************)
EXTENDS RcfInference

CONSTANTS
  ReferenceReports,         \* by version, the metadata report of the Data Dictionary
  RCF_DEFAULT_DD_VERSION,
  VALIDATION_BATCH_SIZE,
  Cases                     \* the options and the files runs are given

VARIABLES
  options, files,           \* what the run was given
  stage,                    \* what it does next
  version,                  \* the Data Dictionary's version it uses
  index, position,          \* the file it reads, and how many of its records it has read
  batch, batchesValidated,  \* records not yet validated, and batches of this file that were
  stream,                   \* what the stream came to so far
  inference,
  result                    \* how the run ended
input == <<options, files>>
reading == <<index, position, batch, batchesValidated>>
rcfVars == <<options, files, stage, version, index, position, batch, batchesValidated, stream, inference, result>>

-----------------------------------------------------------------------------
(* What a file is (rcf-input.ts).                                          *)

INVALID_CONTEXT_RESOURCE == "_INVALID_"

\* What the context says the file is; Absent for a file with no context of either form, or with no records.
headerOf(file) ==
  IF file.records = << >> THEN Absent
  ELSE IF file.context # Absent
    THEN IF file.context.readable
           THEN [resource |-> file.context.resource, version |-> file.context.version, context |-> file.context, invalid |-> FALSE]
           ELSE [resource |-> INVALID_CONTEXT_RESOURCE, version |-> Absent, context |-> file.context, invalid |-> TRUE]
  ELSE IF file.odata # Absent
    THEN [resource |-> file.odata, version |-> Absent, context |-> Absent, invalid |-> FALSE]
  ELSE Absent

\* A file whose context is not met before its records, or that has none, is read to its end before its first record
\* is handed over.
StreamedAtOnce(file) == file.context # Absent /\ file.contextFirst
OpenThrows(file) == file.brokenAt # 0 /\ (file.brokenAt = 1 \/ ~StreamedAtOnce(file))
ReadThrows(file, n) == file.brokenAt = n

\* The version of the first payload that has one; a file opened on the way may throw.
RECURSIVE peekVersion(_)
peekVersion(rest) ==
  IF rest = << >> THEN [throws |-> FALSE, version |-> Absent]
  ELSE LET header == headerOf(Head(rest))
       IN IF OpenThrows(Head(rest)) THEN [throws |-> TRUE, version |-> Absent]
          ELSE IF header # Absent /\ header.version # Absent THEN [throws |-> FALSE, version |-> header.version]
          ELSE peekVersion(Tail(rest))

-----------------------------------------------------------------------------
(* The steps of a run (sdk/rcf.ts, rcf-command.ts).                        *)

Schema == generateSchema(ReferenceReports[version], TRUE)
Header == headerOf(files[index])

EmptyStream == [availability |-> << >>, totalRecords |-> 0, invalidContextFiles |-> 0, invalidContextRecords |-> 0,
                stats |-> NoFindings]
Running == [error |-> Absent, schemaFailure |-> FALSE, variations |-> Absent, exitCode |-> Absent, written |-> {}]

RcfInit ==
  /\ \E case \in Cases : options = case.options /\ files = case.files
  /\ stage = "input"
  /\ version = Absent
  /\ index = 1 /\ position = 0
  /\ batch = << >> /\ batchesValidated = 0
  /\ stream = EmptyStream
  /\ inference = newInference
  /\ result = Running

\* A step that fails ends the work; the reports are written all the same.
Fails(error, schemaFailure) ==
  /\ stage' = "reports"
  /\ result' = [result EXCEPT !.error = error, !.schemaFailure = schemaFailure]
  /\ UNCHANGED <<input, version, reading, stream, inference>>

\* The input is fingerprinted, and refused when it is not what a local run read.
ReadInput ==
  /\ stage = "input"
  /\ IF options.identity = "partial" \/ options.expected = "other" THEN Fails("input", FALSE)
     ELSE stage' = "version" /\ UNCHANGED <<input, version, reading, stream, inference, result>>

ResolveVersion ==
  LET peeked == peekVersion(files)
      requested == IF options.version # Absent THEN options.version
                   ELSE IF peeked.version # Absent THEN peeked.version ELSE RCF_DEFAULT_DD_VERSION
  IN /\ stage = "version"
     /\ IF (options.version = Absent /\ peeked.throws) \/ requested \notin DOMAIN ReferenceReports THEN Fails("version", FALSE)
        ELSE /\ version' = requested
             /\ stage' = "open"
             /\ UNCHANGED <<input, reading, stream, inference, result>>

\* The next file, if it is a payload.
OpenFile ==
  /\ stage = "open" /\ index <= Len(files)
  /\ IF OpenThrows(files[index]) THEN Fails("file", FALSE)
     ELSE IF Header = Absent
       THEN index' = index + 1 /\ UNCHANGED <<input, stage, version, position, batch, batchesValidated, stream, inference, result>>
     ELSE /\ stage' = "records"
          /\ position' = 0 /\ batch' = << >> /\ batchesValidated' = 0
          /\ stream' = IF Header.invalid \/ Header.resource \in DOMAIN stream.availability THEN stream
                       ELSE [stream EXCEPT !.availability = (Header.resource :> [recordCount |-> 0, fields |-> << >>]) @@ @]
          /\ UNCHANGED <<input, version, index, inference, result>>

(* Plausible bug: every batch says the context is still to be checked.     *)
FaultyValidateBatch(schema, records, stats) ==
  validate(schema, "rcf", version, Header.resource, Header.context, records, FALSE, stats)

\* The context of a payload is checked with its first batch.
validateBatch(schema, records, stats) ==
  validate(schema, "rcf", version, Header.resource, Header.context, records, batchesValidated > 0, stats)

\* One record more of a resource, and its fields that carry a value.
Available(availability, resource, record) ==
  LET carries(m) == m[1] \notin AnnotationNames /\ m[2].kind # "null" /\ (m[2].kind = "text" => m[2].text # "")
      names == IF record.kind = "object" THEN {m[1] : m \in {n \in ToSet(record.members) : carries(n)}} ELSE {}
      count(fields, f) == IF f \in DOMAIN fields THEN fields[f] ELSE 0
  IN [availability EXCEPT ![resource].recordCount = @ + 1,
                          ![resource].fields = [f \in DOMAIN @ \cup names |-> count(@, f) + (IF f \in names THEN 1 ELSE 0)]]

\* A record of a file whose context cannot be read is only validated.
ReadRecord ==
  /\ stage = "records" /\ position < Len(files[index].records)
  /\ IF ReadThrows(files[index], position + 1) THEN Fails("file", FALSE)
     ELSE LET record == files[index].records[position + 1]
              batched == IF options.schemaValidate THEN Append(batch, record) ELSE << >>
              full == Len(batched) = VALIDATION_BATCH_SIZE
          IN \E schema \in {Schema} : \E stats \in {IF full THEN validateBatch(schema, batched, stream.stats) ELSE stream.stats} :
             /\ position' = position + 1
             /\ batch' = IF full THEN << >> ELSE batched
             /\ batchesValidated' = batchesValidated + (IF full THEN 1 ELSE 0)
             /\ IF Header.invalid THEN stream' = [stream EXCEPT !.stats = stats] /\ UNCHANGED inference
                ELSE /\ stream' = [stream EXCEPT !.stats = stats, !.totalRecords = @ + 1,
                                                 !.availability = Available(@, Header.resource, record)]
                     /\ inference' = add(inference, Header.resource, record)
             /\ UNCHANGED <<input, stage, version, index, result>>

\* The last batch, and a strict run ends at the first file that fails.
CloseFile ==
  /\ stage = "records" /\ position = Len(files[index].records)
  /\ IF ReadThrows(files[index], position + 1) THEN Fails("file", FALSE)
     ELSE LET last == options.schemaValidate /\ (batch # << >> \/ batchesValidated = 0)
          IN \E schema \in {Schema} : \E stats \in {IF last THEN validateBatch(schema, batch, stream.stats) ELSE stream.stats} :
             IF options.strict /\ stats.totalErrors > 0 THEN Fails("schema", TRUE)
             ELSE /\ stage' = "open"
                  /\ index' = index + 1
                  /\ batch' = << >>
                  /\ stream' = [stream EXCEPT !.stats = stats,
                                  !.invalidContextFiles = @ + (IF Header.invalid THEN 1 ELSE 0),
                                  !.invalidContextRecords = @ + (IF Header.invalid THEN position ELSE 0)]
                  /\ UNCHANGED <<input, version, position, batchesValidated, inference, result>>

\* The variations service checks the names of the inferred report.  Only its refusal of the credentials fails the run.
CheckVariations ==
  /\ stage = "open" /\ index > Len(files)
  /\ \/ /\ options.runVariations
        /\ Fails("auth", FALSE)
     \/ \E answer \in IF options.runVariations THEN {"none found", "some found", "degraded"} ELSE {Absent} :
          /\ stage' = "reports"
          /\ result' = [result EXCEPT !.variations = answer]
          /\ UNCHANGED <<input, version, reading, stream, inference>>

resolveRcfExitCode(stats, variationsError) ==
  IF stats.totalRecords = 0 THEN 2
  ELSE IF stats.stats.totalErrors > 0 THEN 1
  ELSE IF stats.invalidContextFiles > 0 \/ variationsError THEN 2 ELSE 0

\* An inferred run's reports, and the report that can be submitted when the run knows whom it is about.
writeRcfReports ==
  /\ stage = "reports"
  /\ stage' = "exited"
  /\ result' = IF result.error # Absent
                 THEN [result EXCEPT !.exitCode = IF result.schemaFailure THEN 1 ELSE 2, !.written = {"report"}]
                 ELSE [result EXCEPT
                         !.exitCode = resolveRcfExitCode(stream, result.variations = "degraded"),
                         !.written = {"report", "metadata-report", "data-availability-report"}
                                     \cup (IF result.variations \in {"none found", "some found"} THEN {"variations"} ELSE {})
                                     \cup (IF result.variations = "some found" /\ options.identity = "all" THEN {"submittable"} ELSE {})]
  /\ UNCHANGED <<input, version, reading, stream, inference>>

RcfNext == ReadInput \/ ResolveVersion \/ OpenFile \/ ReadRecord \/ CloseFile \/ CheckVariations \/ writeRcfReports
RcfSpec == RcfInit /\ [][RcfNext]_rcfVars

-----------------------------------------------------------------------------
(* What a run should come to, from its files.                              *)

AllRead == stage = "open" /\ index > Len(files)
SumOf(S, f(_)) == FoldSet(LAMBDA x, acc: acc + f(x), 0, S)

\* The payloads, and those of them whose context can be read.
Payloads == {i \in DOMAIN files : headerOf(files[i]) # Absent}
Certifiable == {i \in Payloads : ~headerOf(files[i]).invalid}

OfType(type, value) ==
  CASE type = "Edm.Boolean" -> value.kind = "boolean"
    [] type \in Integral -> value.kind = "number" /\ value.places = 0 /\ value.whole <= RangeMaximum[type]
    [] type = "Edm.Decimal" -> value.kind = "number"
    [] type = "Edm.Date" -> value.kind = "text" /\ value.text \in Texts.dates
    [] type = "Edm.DateTimeOffset" -> value.kind = "text" /\ value.text \in Texts.instants
    [] OTHER -> value.kind = "text"

\* How many values of a record are not what the Data Dictionary says: of another type, or null where they may not be.
RECURSIVE Faults(_, _, _)
FieldFaults(map, entry, value) ==
  LET one(v) == IF entry.isExpansion THEN IF v.kind = "null" /\ entry.nullable THEN 0 ELSE Faults(map, entry.typeName, v)
                ELSE IF OfType(entry.type, v) THEN 0 ELSE 1
  IN IF entry.isCollection THEN IF value.kind = "array" THEN SumOf(DOMAIN value.items, LAMBDA i: one(value.items[i])) ELSE 1
     ELSE IF value.kind = "null" THEN IF entry.nullable THEN 0 ELSE 1
     ELSE one(value)
Faults(map, resource, record) ==
  IF record.kind # "object" THEN 1
  ELSE LET inDictionary == {i \in DOMAIN record.members : record.members[i][1] \in DOMAIN map[resource]}
       IN SumOf(inDictionary, LAMBDA i: FieldFaults(map, map[resource][record.members[i][1]], record.members[i][2]))

\* A file is at fault in its context, in a resource that is not the Data Dictionary's, or in its records.
FileFaults(i) ==
  LET file == files[i]
      map == buildMetadataMap(ReferenceReports[version])
      resource == headerOf(file).resource
      context == IF file.context = Absent \/ ~file.context.wellFormed \/ file.context.version # version THEN 1 ELSE 0
      known == resource \in DOMAIN map /\ (file.context # Absent => file.context.splits)
  IN context + (IF known THEN SumOf(DOMAIN file.records, LAMBDA n: Faults(map, resource, file.records[n]))
                ELSE 1 - context)

\* What each record shows, in the order of the report: the objects of each resource, and the values of each field.
Below(kinds, resource, field) ==
  LET ref == Reference(resource, field)
  IN IF ref.isExpansion THEN ref.typeName ELSE IF <<resource, field>> \in DOMAIN kinds THEN kinds[<<resource, field>>] ELSE field
RECURSIVE Occurrences(_, _, _)
Occurrences(kinds, resource, object) ==
  LET data == SelectSeq(object.members, LAMBDA m: m[1] \notin AnnotationNames)
      Shown(m) == <<[resource |-> resource, field |-> m[1], value |-> m[2]]>>
                  \o FlattenSeq([j \in DOMAIN Objects(m[2]) |->
                                   Occurrences(kinds, Below(kinds, resource, m[1]), Objects(m[2])[j])])
  IN <<[resource |-> resource, field |-> Absent, value |-> Absent]>> \o FlattenSeq([i \in DOMAIN data |-> Shown(data[i])])

Distinct(s) == FoldLeft(LAMBDA acc, x: IF x \in ToSet(acc) THEN acc ELSE Append(acc, x), << >>, s)
stringFieldStats(values) ==
  LET usable == SelectSeq(FlattenSeq([i \in DOMAIN values |-> stringsOf(values[i])]), LAMBDA text: ~isNumericToken(text))
  IN [total |-> Len(usable), distinct |-> Distinct(usable)]

\* The records that count, a resource at a time.
Grouped ==
  LET read == SelectSeq([i \in DOMAIN files |-> i], LAMBDA i: i \in Certifiable)
      arrived == FlattenSeq([n \in DOMAIN read |-> [m \in DOMAIN files[read[n]].records |->
                                                     <<headerOf(files[read[n]]).resource, files[read[n]].records[m]>>]])
      roots == Distinct([n \in DOMAIN arrived |-> arrived[n][1]])
  IN FlattenSeq([r \in DOMAIN roots |-> SelectSeq(arrived, LAMBDA a: a[1] = roots[r])])

\* A field, from all of its values and the number of objects that could have had it.
DescribedFrom(resource, field, values, objects, kinds) ==
  LET texts == Distinct(FlattenSeq([i \in DOMAIN values |-> stringsOf(values[i])]))
      lookups == IF IsDdLookup(resource, field) THEN ddLookups(resource, field, texts) ELSE << >>
      stats == stringFieldStats(values)
  IN IF IsDdField(resource, field)
       THEN [field |-> ddFieldFromReference(resource, field, lookups # << >>, Len(values) < objects), lookups |-> lookups]
     ELSE localFieldAndLookups(resource, field,
            [type |-> FoldLeft(addToFieldType, newFieldTypeState, values), usable |-> stats.total,
             values |-> [t \in ToSet(stats.distinct) |-> SelectInSeq(stats.distinct, LAMBDA x: x = t)]],
            Len(values) < objects, IF <<resource, field>> \in DOMAIN kinds THEN kinds[<<resource, field>>] ELSE Absent)

Shown(records, kinds) ==
  LET objects == SelectSeq(records, LAMBDA r: r[2].kind = "object")
  IN FlattenSeq([i \in DOMAIN objects |-> Occurrences(kinds, objects[i][1], objects[i][2])])

\* The report of records that are all at hand: each field is described from its values.
ReportOfAll(shown, kinds) ==
  LET fields == SelectSeq(shown, LAMBDA o: o.field # Absent)
      valuesOf(k) == LET its == SelectSeq(fields, LAMBDA o: <<o.resource, o.field>> = k)
                     IN [n \in DOMAIN its |-> its[n].value]
      objects(r) == Cardinality({i \in DOMAIN shown : shown[i].resource = r /\ shown[i].field = Absent})
      resources == Distinct([i \in DOMAIN fields |-> fields[i].resource])
      named(r) == LET its == SelectSeq(fields, LAMBDA o: o.resource = r)
                  IN Distinct([i \in DOMAIN its |-> <<r, its[i].field>>])
      keys == FlattenSeq([i \in DOMAIN resources |-> named(resources[i])])
  IN [i \in DOMAIN keys |-> DescribedFrom(keys[i][1], keys[i][2], valuesOf(keys[i]), objects(keys[i][1]), kinds)]

-----------------------------------------------------------------------------
(* What must hold.                                                         *)

\* Folding the records in as they are read, so that none is held, leaves the report that is made of all of them at
\* hand (assemble-report.ts): with files of several resources interleaved, the same field met
\* at several places, and kinds that are known only once everything has been read.
StreamedAsIfWhole ==
  AllRead /\ ~options.schemaValidate =>
    \A records \in {Grouped} : \A whole \in {FoldLeft(LAMBDA inf, r: add(inf, r[1], r[2]), newInference, records)} :
    \A shapes \in {observedShapes(inference.shapes)}, shapesOfWhole \in {observedShapes(whole.shapes)} :
    \A prelim \in {matchShapes(shapes, << >>)}, prelimOfWhole \in {matchShapes(shapesOfWhole, << >>)} :
    \A resolved \in {matchShapes(shapes, prelim)}, resolvedOfWhole \in {matchShapes(shapesOfWhole, prelimOfWhole)} :
    \A kinds \in {resolveExpansionKinds(shapes, resolved)} :
    \A kindsOfWhole \in {resolveExpansionKinds(shapesOfWhole, resolvedOfWhole)} :
    \A filed \in {Filed(inference, kinds)}, shown \in {Shown(records, kindsOfWhole)} :
      report(filed, kinds) = ReportOfAll(shown, kindsOfWhole)

Broken == \E i \in DOMAIN files : files[i].brokenAt # 0
Refused == options.identity = "partial" \/ options.expected = "other"

\* What a run says is what its files are.  A run that reads everything has counted every record of a file whose
\* context can be read, every fault of every payload when it validates, and the payloads it could not certify; it
\* exits 0 only for data without a fault, 1 only for faults, and a strict run that meets a fault does not go on.
VerdictIsTheData ==
  stage = "exited" =>
    /\ result.error = Absent =>
         /\ ~Refused
         /\ stream.totalRecords = SumOf(Certifiable, LAMBDA i: Len(files[i].records))
         /\ stream.stats.totalErrors = (IF options.schemaValidate THEN SumOf(Payloads, FileFaults) ELSE 0)
         /\ stream.invalidContextFiles = Cardinality(Payloads \ Certifiable)
         /\ stream.invalidContextRecords = SumOf(Payloads \ Certifiable, LAMBDA i: Len(files[i].records))
         /\ ~Broken
    /\ result.error \in {"input", "version", "file"} => Refused \/ Broken \/ version = Absent
    /\ result.exitCode = 0 => /\ result.error = Absent /\ Certifiable # {} /\ Payloads = Certifiable
                              /\ result.variations # "degraded"
                              /\ options.schemaValidate => \A i \in Payloads : FileFaults(i) = 0
    /\ version # Absent /\ options.schemaValidate /\ (\E i \in Payloads : FileFaults(i) > 0) =>
         /\ options.strict => result.error # Absent
         /\ result.error = Absent /\ Certifiable # {} => result.exitCode = 1
    /\ result.exitCode = 1 => options.schemaValidate /\ \E i \in Payloads : FileFaults(i) > 0
=============================================================================
