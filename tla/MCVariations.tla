---------------------------- MODULE MCVariations ----------------------------
(* A small instance of VariationReview (names are strings that say what    *)
(* they are; the pairs say which look alike) and of RcfRuns, whose names   *)
(* the same service checks.  A behaviour is of the one or of the other:    *)
(* their steps share nothing, and the run checks both.                     *)
EXTENDS VariationReview, RcfRuns

Field(r, f) == [resource |-> r, field |-> f, expansion |-> FALSE, type |-> "plain"]
Expansion(r, f) == [resource |-> r, field |-> f, expansion |-> TRUE, type |-> "plain"]
Lookup(r, f, t) == [resource |-> r, field |-> f, expansion |-> FALSE, type |-> t]
StringValue(t, v, standardName) == [lookup |-> t, value |-> v, string |-> TRUE, standardName |-> standardName]
ODataValue(t, v, standardName) == [lookup |-> t, value |-> v, string |-> FALSE, standardName |-> standardName]

MCStandardMetadata ==
  [fields |-> {Field("Property", "ListPrice"), Field("Property", "ListPriceLow"), Expansion("Property", "Media"),
               Lookup("Property", "Status", "Statuses"), Field("Member", "MemberKey")},
   lookups |-> {ODataValue("Statuses", "ComingSoon", "Coming Soon"), ODataValue("Statuses", "Active", "Active"),
                ODataValue("Statuses", "SampleStatusEnumValue", None)}]

MCSamples == {"SampleStatusEnumValue"}

(* "ComingSun" is near ComingSoon in both ways, "actve" is near Active only when        *)
(* normalised, and "Aktiwe" only as written: two letters are a third of it, which the   *)
(* earlier walk allows by rounding and the later does not.                              *)
MCExactPairs == {<<"listprice", "ListPrice">>, <<"property", "Property">>, <<"coming soon", "Coming Soon">>,
                 <<"ComingSoon", "Coming Soon">>}
MCSubstringPairs == {<<"listprice", "ListPriceLow">>, <<"MediaItems", "Media">>, <<"Members", "Member">>}
MCNearPairs == {<<"LstPrice", "ListPrice">>, <<"Medai", "Media">>, <<"ComingSun", "Coming Soon">>, <<"ComingSun", "ComingSoon">>,
                <<"actve", "Active">>}
MCRawNearPairs == {<<"ComingSun", "ComingSoon">>, <<"Aktiwe", "Active">>}

(* The parts of the metadata of a provider, of which it may serve any. *)
Resources == {{Field("Property", "ListPrice")}, {Field("Property", "listprice")}, {Field("property", "ListPrice")},
              {Field("Property", "LstPrice"), Field("Members", "MemberKey")}}
Expansions == {{}, {Expansion("Property", "Media")}, {Field("Property", "Media")}, {Expansion("Property", "MediaItems")},
               {Field("Property", "MediaItems")}}
StatusValues ==
  {{StringValue("Strings", "coming soon", None), StringValue("Strings", "Soon", "Coming Soon")},
   {StringValue("Strings", "coming soon", None), StringValue("Strings", "Active", None)},
   {ODataValue("Strings", "ComingSoon", "Coming Soon"), ODataValue("Strings", "actve", None)},
   {ODataValue("Strings", "Aktiwe", None)},
   {ODataValue("Strings", "ComingSun", "ComingSun"), ODataValue("Strings", "SampleStatusEnumValue", None)},
   {ODataValue("Strings", "actve", "Coming Soon"), ODataValue("Strings", "Local", "coming soon")}}

MCReviewed ==
  {[fields |-> {Field("Property", "listprice"), Lookup("Property", "Status", "Strings")},
    lookups |-> {StringValue("Strings", "coming soon", None), StringValue("Strings", "ComingSun", None)}],
   [fields |-> {Field("Property", "LstPrice"), Lookup("Property", "Status", "Strings")},
    lookups |-> {ODataValue("Strings", "ComingSun", "ComingSun")}]}

MCProviders ==
  {[fields |-> p \cup x \cup {Lookup("Property", "Status", "Strings")}, lookups |-> v] :
     p \in Resources, x \in Expansions, v \in StatusValues}

Suggestion(r, f, l, o, major) ==
  [resource |-> r, field |-> f, lookup |-> l, odata |-> o, strategy |-> None, adminReview |-> TRUE, fastTrack |-> FALSE,
   targetMajor |-> major]

Mapped(list) == [ignored |-> FALSE, suggestions |-> list]
Ignored == [ignored |-> TRUE, suggestions |-> <<>>]

(* One path is mapped, or none. *)
Paths == {<<"Property">>, <<"property">>, <<"Property", "listprice">>, <<"Property", "Media">>, <<"Property", "Status", "coming soon">>,
          <<"Property", "Status", "Local">>, <<"Property", "Status">>}
Targets == {Ignored,
            Mapped(<<Suggestion("Member", None, None, None, None)>>),
            Mapped(<<Suggestion("Property", "ListPrice", None, None, 3), Suggestion("Property", "ListPriceLow", None, None, 3)>>),
            Mapped(<<Suggestion("Property", "Status", "Active", None, None), Suggestion("Property", "Status", "Coming Soon", "ComingSoon", 3),
                     Suggestion("Property", "Status", "Active", None, 2)>>)}
(* A standard expansion that the provider has as a lookup, of which a value is mapped. *)
Misdeclared == [fields |-> {Lookup("Property", "Media", "Strings")}, lookups |-> {StringValue("Strings", "coming soon", None)}]
MCCompared ==
  MCProviders \X ({<<>>} \cup {p :> t : p \in Paths, t \in Targets})
  \cup {<<Misdeclared, <<"Property", "Media", "coming soon">> :> t>> : t \in Targets}

(* Sheets of a row or two.  A row is left as it was, or its cells are filled in; the values it   *)
(* does not need may be left out; its target is written whole, in part, or deeper than it is.    *)
Whole(row) == [resource |-> "Property", field |-> IF row.field = None THEN None ELSE "ListPriceLow",
               value |-> IF row.value = None THEN None ELSE "Active"]
FirstRows(row) ==
  {row, [row EXCEPT !.action = "ignore"], [row EXCEPT !.comment = "why", !.value = None],
   [row EXCEPT !.action = "remove", !.comment = "why", !.target = Whole(row)],
   [row EXCEPT !.action = "ignore", !.target = [NoTarget EXCEPT !.field = "ListPrice"]]}
SecondRows(row) ==
  {[row EXCEPT !.action = "remove"], [row EXCEPT !.action = "accept"], [row EXCEPT !.comment = "also"],
   [row EXCEPT !.resource = None]}
MCColumns == {"Resource Name", "Action", "Comments"}
MCSheets(rows) ==
  UNION {{[columns |-> c, rows |-> <<r>>, wellFormed |-> TRUE] : c \in {MCColumns, {"Resource Name", "Action"}, {"Action", "Comment"}}} :
           r \in UNION {FirstRows(row) : row \in rows}}
  \cup {[columns |-> MCColumns, rows |-> <<r, s>>, wellFormed |-> TRUE] :
          r \in UNION {FirstRows(row) : row \in rows}, s \in UNION {SecondRows(row) : row \in rows}}
  \cup {[columns |-> MCColumns, rows |-> <<>>, wellFormed |-> FALSE]}

(* Suggestions given to update-variations: of two elements, one twice, one that says nothing. *)
Item(path, outcome, target) == [path |-> path, outcome |-> outcome, target |-> target]
MCUpdateSheets ==
  {<<Item(<<"Property", "listprice">>, None, Suggestion("Property", "ListPrice", None, None, None)),
     Item(<<"Property", "LstPrice">>, "ignored", None),
     Item(<<"Property", "listprice">>, "ignored", None)>>,
   <<Item(<<"Property", "listprice">>, None, None)>>}
MCMappingOf(item) == IF item.target = None THEN Ignored ELSE Mapped(<<item.target>>)
MCUpdateFlags == {{"adminReview"}, {"overwrite", "adminReview"}, {"fastTrack"}, {"adminReview", "fastTrack", "adminSecret"}}

-----------------------------------------------------------------------------
(***************************************************************************)
(* RcfRuns: a corner of the Data Dictionary and files of a few records.    *)
(***************************************************************************)
(* JSON values. *)
None0      == [kind |-> "null"]
Num(w, p)  == [kind |-> "number", whole |-> w, places |-> p]
Str(t)     == [kind |-> "text", text |-> t]
Arr(items) == [kind |-> "array", items |-> items]
Obj(ms)    == [kind |-> "object", members |-> ms]
True       == [kind |-> "boolean"]

MCTexts == [blank |-> {"", " "}, numeric |-> {"12"}, dates |-> {"2024-01-01"}, instants |-> {"2024-01-01T00:00:00Z"},
            parts |-> ("MIA,Else" :> <<"MIA", "Else">>)]

-----------------------------------------------------------------------------
(* The Data Dictionary.  Integers have 4 bits where the code has 16.       *)

Plain(r, f, type) == [ReportField(r, f, type) EXCEPT !.nullable = TRUE]
MCReport ==
  [fields |->
     {[Plain("Property", "ListingKey", "Edm.String") EXCEPT !.maxLength = 2, !.nullable = FALSE],
      [Plain("Property", "ListPrice", "Edm.Decimal") EXCEPT !.precision = 4, !.scale = 2],
      Plain("Property", "RoomsTotal", "Edm.Int16"),
      [Plain("Property", "Stories", "Edm.Decimal") EXCEPT !.precision = 1, !.scale = 0],
      Plain("Property", "ListingDate", "Edm.Date"),
      [Plain("Property", "City", "Cities") EXCEPT !.isEnumeration = TRUE],
      [Plain("Property", "Appliances", "Appliances") EXCEPT !.isEnumeration = TRUE, !.isCollection = TRUE],
      [Plain("Property", "Rooms", "PropertyRooms") EXCEPT !.isExpansion = TRUE, !.isCollection = TRUE, !.typeName = "PropertyRooms"],
      [Plain("Property", "ListAgent", "Member") EXCEPT !.isExpansion = TRUE, !.typeName = "Member"],
      [Plain("PropertyRooms", "RoomKey", "Edm.String") EXCEPT !.nullable = FALSE],
      Plain("PropertyRooms", "RoomType", "Edm.String"), Plain("PropertyRooms", "ListingKey", "Edm.String"),
      [Plain("Member", "MemberKey", "Edm.String") EXCEPT !.nullable = FALSE],
      Plain("Member", "MemberCity", "Edm.String"),
      Plain("Media", "MediaKey", "Edm.String"), Plain("Media", "MediaURL", "Edm.String"), Plain("Media", "Order", "Edm.Int16")},
   lookups |->
     {[lookupName |-> "Cities", lookupValue |-> "MIA", type |-> "Edm.Int32", standardName |-> "Miami"],
      [lookupName |-> "Cities", lookupValue |-> "Else", type |-> "Edm.Int32", standardName |-> "Elsewhere"],
      [lookupName |-> "Appliances", lookupValue |-> "Oven", type |-> "Edm.String", standardName |-> "Oven"]}]
MCReferenceMap == buildMetadataMap(MCReport)
MCReferenceReports == [v \in {20, 21} |-> MCReport]
MCRangeMaximum == ("Edm.Int16" :> 15) @@ ("Edm.Int32" :> 63) @@ ("Edm.Int64" :> 255)
\* ln(4 / f)
MCIdf == <<139, 69, 29, 0>>
MCKindMatch == [minMatchIdf |-> 200, minContainment |-> 40, marginRatio |-> 150, keyBonus |-> 200, enumBonus |-> 150]

-----------------------------------------------------------------------------
(* Files.                                                                  *)

Context(resource, v) == [readable |-> TRUE, wellFormed |-> TRUE, splits |-> TRUE, version |-> v, resource |-> resource]
File(resource, records) == [context |-> Context(resource, 20), odata |-> Absent, records |-> records, contextFirst |-> TRUE, brokenAt |-> 0]

Room == Obj(<<<<"RoomType", Str("b")>>>>)
Photo == Obj(<<<<"MediaKey", Str("a")>>, <<"MediaURL", Str("b")>>>>)
Agent == Obj(<<<<"MemberKey", Str("a")>>, <<"MemberCity", Str("b")>>>>)
Attic == Obj(<<<<"RoomKey", Str("a")>>, <<"RoomType", Str("b")>>>>)

Listings ==
  {Obj(<<<<"ListingKey", Str("a")>>, <<"City", Str("MIA")>>, <<"X", Str("a")>>>>),
   Obj(<<<<"X", Str("b")>>, <<"City", Arr(<<Str("Miami"), Str("Else")>>)>>>>),
   Obj(<<<<"X", Num(5, 0)>>, <<"Rooms", Arr(<<Room, Attic>>)>>>>),
   Obj(<<<<"X", Arr(<<Str("a"), Str("12"), Num(1, 1)>>)>>, <<"@odata.id", Str("a")>>>>),
   Obj(<<<<"X", None0>>, <<"City", Str(" ")>>>>),
   Obj(<<<<"Photos", Arr(<<Photo>>)>>, <<"X", Num(40, 0)>>>>),
   Obj(<<<<"Photos", Arr(<<Obj(<<<<"MediaURL", Str("b")>>, <<"Y", Num(1, 0)>>>>)>>)>>>>),
   Obj(<<<<"Structure", Obj(<<<<"Y", Str("a")>>, <<"Attic", Attic>>>>)>>>>),
   Obj(<<<<"ListAgent", Agent>>, <<"Member", Obj(<<<<"X", Str("a")>>>>)>>>>),
   Obj(<<<<"Media", Obj(<<<<"MediaKey", Str("a")>>, <<"Photos", Photo>>>>)>>>>),
   None0}
Members ==
  {Agent, Obj(<<<<"MemberKey", Str("b")>>, <<"X", Str("a")>>>>),
   Obj(<<<<"Photos", Arr(<<Obj(<<<<"Order", Num(1, 0)>>>>)>>)>>, <<"Structure", Obj(<<<<"Attic", Room>>>>)>>>>)}

Plainly == [version |-> 20, strict |-> FALSE, schemaValidate |-> FALSE, runVariations |-> FALSE, identity |-> "none",
            expected |-> "none"]

\* The records of a resource come in two files, with one of another between them.
Few == {r \in Listings : r.kind = "object" /\ \E m \in ToSet(r.members) : m[1] \in {"Photos", "Structure"}}
MCInferenceCases ==
  {[options |-> Plainly, files |-> <<File("Property", <<first>>), File("Member", <<between>>), File("Property", <<a, b>>)>>] :
     first \in Listings, between \in Members, a \in Listings, b \in Few}

\* A local enumeration of a resource that is met under two names.
Kinds(field, a, b) ==
  Obj(<<<<field, Arr(<<Obj(<<<<"MediaKey", Str("a")>>, <<"MediaURL", Str("b")>>, <<"Kind", Str(a)>>>>), Obj(<<<<"Kind", Str(b)>>>>)>>)>>>>)
MCEnumerationCases ==
  {[options |-> Plainly, files |-> <<File("Property", <<Kinds(f, a, b), Kinds(g, c, d)>>)>>] :
     f \in {"Photos", "Media"}, g \in {"Photos", "Media"}, a \in {"a", "b"}, b \in {"a", "b", "12"}, c \in {"a", "b"},
     d \in {"a", "b", "c", "12"}}

\* Records without a fault, with what is only worth a warning, and with faults.
Good == {Obj(<<<<"ListingKey", Str("a")>>, <<"ListAgent", None0>>, <<"Rooms", Arr(<<Attic>>)>>>>)}
Lax  == {Obj(<<<<"ListingKey", Str("abc")>>, <<"Stories", Num(1, 1)>>, <<"City", Str("MIA,Here")>>>>), Obj(<<<<"Stories", Num(12, 0)>>>>)}
Bad  == {Obj(<<<<"ListingKey", None0>>, <<"RoomsTotal", Num(40, 0)>>, <<"Here", Str("a")>>>>),
         Obj(<<<<"Rooms", Arr(<<Room, Obj(<<<<"RoomKey", None0>>>>), None0>>)>>, <<"ListingDate", Str("a")>>>>),
         Obj(<<<<"Rooms", None0>>, <<"City", Num(1, 0)>>, <<"ListAgent", Str("a")>>>>), Num(1, 0)}
RecordLists == {<< >>} \cup {<<r>> : r \in Good \cup Lax \cup Bad} \cup {<<r, s, t>> : r \in Good \cup Bad, s \in Good, t \in Lax \cup Bad}

\* Every way a context can be wrong.
Contexts ==
  {Context("Property", v) : v \in {20, 21, 30}} \cup {Context("Here", 20)}
  \cup {[Context("Property", 20) EXCEPT !.wellFormed = FALSE, !.splits = s] : s \in BOOLEAN}
  \cup {[Context("Property", 20) EXCEPT !.readable = FALSE, !.wellFormed = FALSE, !.splits = FALSE]}
Files(lists, broken) ==
  {f \in {[context |-> c, odata |-> Absent, records |-> l, contextFirst |-> first, brokenAt |-> b] :
            c \in Contexts, l \in lists, first \in BOOLEAN, b \in broken}
         \cup {[context |-> Absent, odata |-> o, records |-> l, contextFirst |-> FALSE, brokenAt |-> b] :
                 o \in {Absent, "Property", "Here"}, l \in lists, b \in broken} :
     f.brokenAt <= Len(f.records) + 1}
Short == {<<r>> : r \in Good \cup {Num(1, 0)}} \cup {<<r, Num(1, 0), r>> : r \in Good}

Validating == [Plainly EXCEPT !.schemaValidate = TRUE]
OptionSets ==
  {[Validating EXCEPT !.version = v, !.strict = s] : v \in {Absent, 20}, s \in BOOLEAN}
  \cup {[Validating EXCEPT !.version = 30], [Validating EXCEPT !.identity = "partial"], [Validating EXCEPT !.expected = "other"],
        [Validating EXCEPT !.runVariations = TRUE, !.identity = "all", !.expected = "same"]}
MCVerdictCases ==
  {[options |-> o, files |-> <<f>>] : o \in {[Validating EXCEPT !.strict = s] : s \in BOOLEAN}, f \in Files(RecordLists, {0})}
  \cup {[options |-> o, files |-> <<f>>] : o \in OptionSets, f \in Files(Short, {0, 1, 2, 4})}
  \cup {[options |-> o, files |-> <<f, g>>] :
          o \in {[Validating EXCEPT !.version = Absent, !.strict = s] : s \in BOOLEAN}, f \in Files({<<r>> : r \in Good}, {0, 2}),
          g \in Files(Short, {0, 2})}
MCCases == MCInferenceCases \cup MCEnumerationCases \cup MCVerdictCases

-----------------------------------------------------------------------------
NoRcfRun ==
  /\ options = Plainly /\ files = << >> /\ stage = "none" /\ version = Absent /\ index = 1 /\ position = 0
  /\ batch = << >> /\ batchesValidated = 0 /\ stream = EmptyStream /\ inference = newInference /\ result = Running
NoReview ==
  /\ provider = [fields |-> {}, lookups |-> {}] /\ store = << >> /\ reportFile = None /\ pool = << >>
  /\ lockHeld = FALSE /\ update = None /\ last = [command |-> "none", exit |-> 0, sheet |-> None] /\ commands = 0

ReviewsInit == (Init /\ NoRcfRun) \/ (NoReview /\ RcfInit)
ReviewsNext == \/ stage = "none" /\ Next /\ UNCHANGED rcfVars
               \/ RcfNext /\ UNCHANGED vars
Reviews == ReviewsInit /\ [][ReviewsNext]_<<vars, rcfVars>>
=============================================================================
