-------------------------- MODULE MCCoreScenarios ---------------------------
(* A small instance of CoreScenarios: tables of up to two records, and of  *)
(* three where the sample ends before the resource does; and of CoreWalks: *)
(* up to four records on pages of one to three, up to two properties to    *)
(* expand with two records each.                                           *)
EXTENDS CoreWalks

(* Text in order of time, but for one value: the same instant as the first *)
(* value in another form, whose text comes last.                           *)
LatestText == CHOOSE v \in Values : \A w \in Values : w <= v
Earliest == CHOOSE v \in Values : \A w \in Values : v <= w
Written == [r \in Ranks |-> IF r = LatestText THEN Earliest ELSE r]
Plain(rep) == IF rep = "datetime" THEN Values ELSE Values \ {LatestText}

(* What a field of the standard and a local one may hold.                  *)
Cells(rep) == IF rep \in Multis THEN SUBSET Plain(rep) ELSE {{}} \cup {{v} : v \in Plain(rep)}

LocalCells(rep) == IF rep \in Multis THEN {{}, Plain(rep)}
                   ELSE {{}, {CHOOSE v \in Values \ {LatestText} : v \notin StandardValues}}

Rows(rep) == [standard : Cells(rep), local : LocalCells(rep)]

Tables(rep) ==
  {<<>>} \cup {<<a>> : a \in Rows(rep)} \cup {<<a, b>> : a, b \in Rows(rep)}
    \cup {<<a, a, b>> : a, b \in Rows(rep)}

Common ==
  [version |-> "2.1.0", odata |-> "4.01", kind |-> "required", hasKey |-> TRUE,
   served |-> "present", declared |-> "present", named |-> "none",
   published |-> Values, fullCoverage |-> FALSE]

Meets(rep, table) == Common @@ [rep |-> rep, table |-> table]

(* Every representation over every table.                                  *)
Tested == UNION {{Meets(rep, t) : t \in Tables(rep)} : rep \in Reps}

(* A named field, and a dictionary that knows no local value.              *)
Named == {[e EXCEPT !.named = "local"] : e \in UNION {{Meets(rep, <<a, b>>) :
            a, b \in Rows(rep)} : rep \in {"integer", "datetime", "COLLECTION_ENUM"}}}

(* A /Lookup that does not publish everything; a server of OData 4.0.      *)
Unpublished == {[e EXCEPT !.published = StandardValues, !.odata = o] :
                  o \in {"4.0", "4.01"},
                  e \in UNION {{Meets(rep, <<a, b>>) : a, b \in Rows(rep)} :
                                rep \in {"SINGLE_STRING", "COLLECTION_STRING"}}}

(* Presence, kinds of resource, versions and coverage, on two tables.      *)
Presences ==
  {Common @@ [rep |-> rep, table |-> t] : rep \in {"decimal", "SINGLE_STRING"},
     t \in {<<>>, <<[standard |-> {CHOOSE v \in Values : TRUE}, local |-> {}]>>}}

Routed == UNION {{[e EXCEPT !.version = v, !.kind = k, !.hasKey = h, !.served = s,
                           !.declared = d, !.fullCoverage = f] :
                   v \in {"2.0.0", "2.1.0"}, k \in {"required", "known", "unknown"},
                   h \in BOOLEAN, s \in Presence, d \in Presence, f \in BOOLEAN} :
                 e \in Presences}

AllEnvironments == Tested \cup Named \cup Unpublished \cup Routed

-----------------------------------------------------------------------------
Whole == [context |-> TRUE, paged |-> FALSE, entries |-> 1, names |-> TRUE, lists |-> TRUE]

RightServer ==
  [version |-> "2.1.0", odata |-> "4.01", kind |-> "required", document |-> Whole, declared |-> "present",
   table |-> <<"a">>, pageSize |-> 2, canWalk |-> TRUE, deviation |-> "none", navs |-> <<>>, report |-> <<>>]

(* Records, pages and deviations.                                          *)
Paged ==
  {[RightServer EXCEPT !.table = firstOf(<<"a", "b", "c", "d">>, n), !.pageSize = p, !.deviation = d, !.canWalk = w] :
     n \in 1..4, p \in 1..3, d \in Deviations, w \in BOOLEAN}

(* The provider and the decision.                                          *)
Documents == {[Whole EXCEPT !.context = c, !.paged = p, !.entries = e, !.names = n, !.lists = l] :
                c \in BOOLEAN, p \in BOOLEAN, e \in 0..1, n \in BOOLEAN, l \in BOOLEAN}
Provided == {[RightServer EXCEPT !.odata = "none"]} \cup
             {[RightServer EXCEPT !.document = doc, !.odata = "4.0", !.kind = k, !.declared = dec, !.version = v] :
               doc \in Documents, k \in {"required", "known", "unknown"},
               dec \in Presence, v \in {"2.0.0", "2.1.0"}}

(* Properties to expand.                                                   *)
AnItem(k, r) == [kind |-> k, rrk |-> r]
Related == {<<>>, <<AnItem("valid", "own")>>, <<AnItem("invalid", "none")>>,
            <<AnItem("valid", "other"), AnItem("invalid", "own")>>}
Parents == {<<>>} \cup {<<[key |-> k, items |-> i]>> : k \in BOOLEAN, i \in Related}
             \cup {<<[key |-> k, items |-> i], [key |-> TRUE, items |-> j]>> : k \in BOOLEAN, i, j \in Related}
Reports == {<<[name |-> "Property", compiles |-> p], [name |-> "Media", compiles |-> m]>> : p, m \in BOOLEAN}
             \cup {<<[name |-> "Property", compiles |-> TRUE]>>}
MediaNav(parents, paged, deviation) ==
  [target |-> "Media", parents |-> parents, paged |-> paged, deviation |-> deviation]
BadNav == MediaNav(<<[key |-> TRUE, items |-> <<AnItem("invalid", "own")>>]>>, FALSE, "none")
OneParent == {<<[key |-> TRUE, items |-> i]>> : i \in Related}
Expansions ==
  {<<MediaNav(p, g, "none")>> : p \in Parents, g \in BOOLEAN}
    \cup {<<MediaNav(p, g, d)>> : p \in OneParent, g \in BOOLEAN, d \in NavDeviations}
    \cup {<<BadNav, MediaNav(<<[key |-> TRUE, items |-> <<>>]>>, FALSE, d)>> : d \in NavDeviations}
Expanded == {[RightServer EXCEPT !.navs = n, !.report = r] : n \in Expansions, r \in Reports}

AllServers == Paged \cup Provided \cup Expanded
=============================================================================
