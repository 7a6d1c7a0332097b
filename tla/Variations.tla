----------------------------- MODULE Variations -----------------------------
(***************************************************************************)
(* What a Data Dictionary variations check finds in a provider's metadata: *)
(* the names that are not standard and look like, or were mapped by a      *)
(* person to, names that are.  The check exists twice, as the walk the     *)
(* backend runs today (variations-v2/compute.ts) and as the one it         *)
(* replaces (legacy/lib/variations/index.js).                              *)
(*                                                                         *)
(* A name is opaque.  What the matchers compute from two names is given    *)
(* by the constants: pairs <<local, standard>> that are equal but for case *)
(* and punctuation, that contain each other, that are within the edit      *)
(* distance allowed for normalised names, and for the names as written,    *)
(* for which the distance allowed is rounded to a whole number.            *)
(***************************************************************************)
EXTENDS Naturals, FiniteSets, Sequences

CONSTANTS
  None,        \* an absent value
  Samples,     \* values of the form Sample...EnumValue
  ExactPairs, SubstringPairs, NearPairs, RawNearPairs

-----------------------------------------------------------------------------
(* The map both walks read (legacy/common.js buildMetadataMap).  A report  *)
(* has fields [resource, field, expansion, type] and lookup values         *)
(* [lookup, value, string, standardName]: string for a String List, whose  *)
(* value is what is displayed; else the value is an OData name, and what   *)
(* is displayed is its StandardName annotation, when there is one.         *)

LookupsOf(report, type) ==
  {l \in report.lookups : l.lookup = type /\ {l.value, l.standardName} \cap Samples = {}}

FieldEntry(members, isExpansion) ==
  [expansion |-> isExpansion,
   lookupValues |->
     {[value |-> l.value, standardName |-> l.standardName, string |-> TRUE] : l \in {m \in members : m.string}}
     \cup {[value |-> l.standardName, standardName |-> None, string |-> FALSE] :
             l \in {m \in members : ~m.string /\ m.standardName # None}},
   odataValues |-> {l.value : l \in {m \in members : ~m.string}}]

MetadataMap(report) ==
  [r \in {d.resource : d \in report.fields} |->
    [f \in {d.field : d \in {e \in report.fields : e.resource = r}} |->
      LET declared == CHOOSE d \in report.fields : d.resource = r /\ d.field = f
      IN FieldEntry(LookupsOf(report, declared.type), declared.expansion)]]

HasField(map, r, f) == r \in DOMAIN map /\ f \in DOMAIN map[r]

Displayed(entry) == {l.value : l \in entry.lookupValues}

-----------------------------------------------------------------------------
(* Leaves shared by the two walks. *)

(* A person's mapping of the element at a path: it may be ignored, and may *)
(* have suggestions, in order.                                             *)
MappingAt(mappings, path) ==
  IF path \in DOMAIN mappings THEN mappings[path] ELSE [ignored |-> FALSE, suggestions |-> <<>>]

Suggested(mapping) == {mapping.suggestions[i] : i \in DOMAIN mapping.suggestions}

classifySuggestionStrategy(s) ==
  IF s.adminReview THEN "Admin Review" ELSE IF s.fastTrack THEN "Fast Track" ELSE "External Suggestion"

resolveStrategy(s) == IF s.strategy # None THEN s.strategy ELSE classifySuggestionStrategy(s)

(* A suggestion as it is reported; targetMajor is the Data Dictionary it   *)
(* applies from, None for now.                                             *)
ReportedSuggestion(s) ==
  [resource |-> s.resource, field |-> s.field, lookup |-> s.lookup, odata |-> s.odata,
   strategy |-> resolveStrategy(s), exact |-> FALSE, targetMajor |-> s.targetMajor]

MachineSuggestion(level, name, how) ==
  [resource |-> IF level = "resource" THEN name ELSE None,
   field |-> IF level = "field" THEN name ELSE None,
   lookup |-> IF level = "lookup" THEN name ELSE None,
   odata |-> IF level = "odata" THEN name ELSE None,
   strategy |-> IF how = "near" THEN "Edit Distance" ELSE "Substring",
   exact |-> how = "exact",
   targetMajor |-> None]

Record(bucket, r, f, lookup, odata, suggestion) ==
  [bucket |-> bucket, resource |-> r, field |-> f, lookup |-> lookup, odata |-> odata, suggestion |-> suggestion]

Likeness(local, standard, nearPairs) ==
  CASE <<local, standard>> \in ExactPairs -> "exact"
    [] <<local, standard>> \in SubstringPairs -> "substring"
    [] <<local, standard>> \in nearPairs -> "near"
    [] OTHER -> "none"

(* A mapped lookup value is settled when the provider has what it is       *)
(* mapped to, as an OData name, as displayed, or as a StandardName.        *)
isSuggestedLookupTargetPresent(map, s) ==
  /\ HasField(map, s.resource, s.field)
  /\ LET entry == map[s.resource][s.field] IN
     \/ s.odata \in entry.odataValues
     \/ s.lookup \in Displayed(entry)
     \/ \E l \in entry.lookupValues : s.lookup # None /\ l.standardName = s.lookup

(* prepareResults keeps, of a lookup value's suggestions, the first of     *)
(* each target.                                                            *)
FirstOfEachTarget(list) ==
  {list[i] : i \in {j \in DOMAIN list :
     \A k \in 1..(j - 1) : list[k].lookup # list[j].lookup \/ list[k].odata # list[j].odata}}

-----------------------------------------------------------------------------
(* The walk of variations-v2/compute.ts.  ctx: the two maps, the mappings  *)
(* people made, and whether machine enumerations are matched by their      *)
(* OData names only (applyIntEnumFix).                                     *)

(* Standard names the provider has are passed over; an exact match hides   *)
(* the others.                                                             *)
machineMatch(local, standards, level) ==
  LET produced == {MachineSuggestion(level, s, Likeness(local, s, NearPairs)) :
                     s \in {t \in standards : Likeness(local, t, NearPairs) # "none"}}
      exacts == {s \in produced : s.exact}
  IN IF exacts # {} THEN exacts ELSE produced

(* Plausible bug: what is settled is reported all the same. *)
FaultyEmitUnlessSatisfied(suggestions, satisfied) == {ReportedSuggestion(s) : s \in suggestions}

(* A mapping is reported unless one of its targets is present already. *)
emitUnlessSatisfied(suggestions, satisfied) ==
  {ReportedSuggestion(s) : s \in {t \in suggestions : ~satisfied}}

(* Plausible bug: the annotations of a machine enumeration are matched.   *)
FaultyConsiderable(l, r, f, ctx) ==
  /\ ~MappingAt(ctx.mappings, <<r, f, l.value>>).ignored
  /\ ~(l.standardName # None /\ l.standardName \in Displayed(ctx.standard[r][f]))

(* The lookup values looked at: a machine enumeration is matched by its    *)
(* OData names, not by its annotations.                                    *)
considerable(l, r, f, ctx) ==
  /\ ~(ctx.applyIntEnumFix /\ ~l.string)
  /\ ~MappingAt(ctx.mappings, <<r, f, l.value>>).ignored
  /\ ~(l.standardName # None /\ l.standardName \in Displayed(ctx.standard[r][f]))

resolveLookups(r, f, ctx) ==
  LET entry == ctx.provider[r][f]
      standard == ctx.standard[r][f]
      considered == {l \in entry.lookupValues : considerable(l, r, f, ctx)}
  IN UNION {LET mapping == MappingAt(ctx.mappings, <<r, f, l.value>>)
                suggestions ==
                  IF mapping.suggestions # <<>>
                  THEN emitUnlessSatisfied(FirstOfEachTarget(mapping.suggestions),
                         \E s \in Suggested(mapping) : isSuggestedLookupTargetPresent(ctx.provider, s))
                  ELSE IF l.value \in Displayed(standard) THEN {}
                  ELSE machineMatch(l.value, Displayed(standard) \ Displayed(entry), "lookup")
            IN {Record("lookups", r, f, l.value, None, s) : s \in suggestions}
            : l \in considered}

resolveLegacyOData(r, f, ctx) ==
  LET entry == ctx.provider[r][f]
      standard == ctx.standard[r][f]
      considered == {v \in entry.odataValues : ~MappingAt(ctx.mappings, <<r, f, v>>).ignored}
  IN UNION {LET mapping == MappingAt(ctx.mappings, <<r, f, v>>)
                suggestions ==
                  IF mapping.suggestions # <<>>
                  THEN emitUnlessSatisfied(FirstOfEachTarget(mapping.suggestions),
                         \E s \in Suggested(mapping) : isSuggestedLookupTargetPresent(ctx.provider, s))
                  ELSE IF v \in standard.odataValues THEN {}
                  ELSE machineMatch(v, standard.odataValues \ entry.odataValues, "odata")
            IN {Record("lookups", r, f, None, v, s) : s \in suggestions}
            : v \in considered}

(* An expansion is matched with the standard expansions, a field with the  *)
(* standard fields.                                                        *)
resolveField(r, f, ctx) ==
  LET mapping == MappingAt(ctx.mappings, <<r, f>>)
      isExpansion == ctx.provider[r][f].expansion
      alike == {sf \in DOMAIN ctx.standard[r] : ctx.standard[r][sf].expansion = isExpansion}
      found(suggestions) ==
        {Record(IF isExpansion THEN "expansions" ELSE "fields", r, f, None, None, s) : s \in suggestions}
  IN IF mapping.ignored THEN {}
     ELSE IF mapping.suggestions # <<>>
     THEN found(emitUnlessSatisfied(Suggested(mapping),
                  \E s \in Suggested(mapping) : HasField(ctx.provider, s.resource, s.field)))
     ELSE IF f \notin DOMAIN ctx.standard[r]
     THEN found(machineMatch(f, alike \ DOMAIN ctx.provider[r], "field"))
     ELSE resolveLookups(r, f, ctx) \cup resolveLegacyOData(r, f, ctx)

resolveResource(r, ctx) ==
  LET mapping == MappingAt(ctx.mappings, <<r>>)
      found(suggestions) == {Record("resources", r, None, None, None, s) : s \in suggestions}
  IN IF mapping.ignored THEN {}
     ELSE IF mapping.suggestions # <<>>
     THEN found(emitUnlessSatisfied(Suggested(mapping),
                  \E s \in Suggested(mapping) : s.resource \in DOMAIN ctx.provider))
     ELSE IF r \notin DOMAIN ctx.standard
     THEN found(machineMatch(r, DOMAIN ctx.standard \ DOMAIN ctx.provider, "resource"))
     ELSE UNION {resolveField(r, f, ctx) : f \in DOMAIN ctx.provider[r]}

computeVariationsV2(ctx) == UNION {resolveResource(r, ctx) : r \in DOMAIN ctx.provider}

-----------------------------------------------------------------------------
(* The walk of legacy/lib/variations/index.js: every match is reported; a  *)
(* standard expansion declared as something else is a variation that       *)
(* cannot be ignored; what is mapped is reported as a field; expansions    *)
(* are not matched; OData names are compared as written.                   *)

LegacyMatches(local, standards, level, nearPairs) ==
  {MachineSuggestion(level, s, Likeness(local, s, nearPairs)) :
     s \in {t \in standards : Likeness(local, t, nearPairs) # "none"}}

(* The structural finding: it names no target. *)
MustBeExpansion ==
  [resource |-> None, field |-> None, lookup |-> None, odata |-> None,
   strategy |-> "Substring", exact |-> TRUE, targetMajor |-> None]

(* What people mapped a lookup value to, unless one target is present. *)
LegacyMapped(ctx, mapping) ==
  {ReportedSuggestion(s) : s \in {t \in FirstOfEachTarget(mapping.suggestions) :
     \A o \in Suggested(mapping) : ~isSuggestedLookupTargetPresent(ctx.provider, o)}}

LegacyLookups(r, f, ctx) ==
  LET entry == ctx.provider[r][f]
      standard == ctx.standard[r][f]
      mappingOf(l) == MappingAt(ctx.mappings, <<r, f, l.value>>)
      suggestions(l) ==
        IF mappingOf(l).suggestions # <<>> THEN LegacyMapped(ctx, mappingOf(l))
        ELSE IF l.value \in Displayed(standard) THEN {}
        ELSE LegacyMatches(l.value, Displayed(standard) \ Displayed(entry), "lookup", NearPairs)
  IN UNION {{Record("lookups", r, f, l.value, None, s) : s \in suggestions(l)} :
              l \in {m \in entry.lookupValues :
                       ~mappingOf(m).ignored /\ ~(m.standardName # None /\ m.standardName \in Displayed(standard))}}

LegacyODataValues(r, f, ctx) ==
  LET entry == ctx.provider[r][f]
      standard == ctx.standard[r][f]
      mappingOf(v) == MappingAt(ctx.mappings, <<r, f, v>>)
      suggestions(v) ==
        IF mappingOf(v).suggestions # <<>> THEN LegacyMapped(ctx, mappingOf(v))
        ELSE IF v \in standard.odataValues THEN {}
        ELSE LegacyMatches(v, standard.odataValues \ entry.odataValues, "odata", RawNearPairs)
  IN UNION {{Record("lookups", r, f, None, v, s) : s \in suggestions(v)} :
              v \in {w \in entry.odataValues : ~mappingOf(w).ignored}}

LegacyField(r, f, ctx) ==
  LET mapping == MappingAt(ctx.mappings, <<r, f>>)
      isStandard == f \in DOMAIN ctx.standard[r]
      isExpansion == ctx.provider[r][f].expansion
      found(suggestions) == {Record("fields", r, f, None, None, s) : s \in suggestions}
      plain == {sf \in DOMAIN ctx.standard[r] : ~ctx.standard[r][sf].expansion}
  IN IF isStandard /\ ctx.standard[r][f].expansion /\ ~isExpansion
     THEN {Record("expansions", r, f, None, None, MustBeExpansion)}
     ELSE IF mapping.ignored THEN {}
     ELSE IF mapping.suggestions # <<>>
     THEN found({ReportedSuggestion(s) : s \in {t \in Suggested(mapping) :
            \A o \in Suggested(mapping) : ~HasField(ctx.provider, o.resource, o.field)}})
     ELSE IF ~isStandard
     THEN found(IF isExpansion THEN {} ELSE LegacyMatches(f, plain \ DOMAIN ctx.provider[r], "field", NearPairs))
     ELSE LegacyLookups(r, f, ctx) \cup LegacyODataValues(r, f, ctx)

LegacyResource(r, ctx) ==
  LET mapping == MappingAt(ctx.mappings, <<r>>)
      found(suggestions) == {Record("resources", r, None, None, None, s) : s \in suggestions}
  IN IF mapping.ignored THEN {}
     ELSE IF mapping.suggestions # <<>>
     THEN found({ReportedSuggestion(s) : s \in {t \in Suggested(mapping) :
            \A o \in Suggested(mapping) : o.resource \notin DOMAIN ctx.provider}})
     ELSE IF r \notin DOMAIN ctx.standard
     THEN found(LegacyMatches(r, DOMAIN ctx.standard \ DOMAIN ctx.provider, "resource", NearPairs))
     ELSE UNION {LegacyField(r, f, ctx) : f \in DOMAIN ctx.provider[r]}

computeVariations(ctx) == UNION {LegacyResource(r, ctx) : r \in DOMAIN ctx.provider}

-----------------------------------------------------------------------------
(* The report: one entry per element and form, with its suggestions, and   *)
(* whether it must be fixed now (variations-v2/compute.ts).                *)

bucketEnforcement(suggestions, currentMajor) ==
  IF \E s \in suggestions : s.targetMajor = None THEN "must-fix"
  ELSE IF \E s \in suggestions : s.targetMajor <= currentMajor THEN "must-fix" ELSE "warning"

prepareResults(records, currentMajor) ==
  {LET suggestions == {o.suggestion : o \in {p \in records :
         <<p.bucket, p.resource, p.field, p.lookup, p.odata>> = <<v.bucket, v.resource, v.field, v.lookup, v.odata>>}}
   IN [bucket |-> v.bucket, resource |-> v.resource, field |-> v.field, lookup |-> v.lookup, odata |-> v.odata,
       suggestions |-> suggestions, enforcement |-> bucketEnforcement(suggestions, currentMajor)]
   : v \in records}
=============================================================================
