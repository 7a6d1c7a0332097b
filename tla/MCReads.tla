------------------------------- MODULE MCReads -------------------------------
(***************************************************************************)
(* What a client reads from the reference server: the filters it writes,   *)
(* each as it is parsed, translated and evaluated, and the queries it      *)
(* asks.  A behaviour is of the one or of the other: the steps of the two  *)
(* share nothing, and the run checks both.                                 *)
(***************************************************************************)
EXTENDS Filters, Queries

(* The comparisons, functions and lambdas that filters are built from.     *)

N == Property("N")          \* a number
S == Property("S")          \* a text
M == Property("M")          \* a collection
Num(t) == Literal("number", t)
Str(t) == Literal("string", t)
Is(v)  == Comparison("eq", Property("v"), Str(v))

MCSeeds == {Comparison("eq", N, Num("1")), Call("contains", <<S, Str("b")>>),
            Not(Comparison("ne", S, Str("a"))),
            Logical("or", Comparison("ne", S, Str("a")), Lambda("any", "v", M, Is("a")))}
MCAtoms ==
  {Comparison("eq", N, Num("1")), Comparison("ne", S, Str("a")),
   Call("contains", <<S, Str("b")>>), Lambda("any", "v", M, Is("a")),
   Comparison("gt", N, Num("-1")), Comparison("le", N, Num("1")),
   Comparison("eq", S, NullLiteral), Comparison("ne", NullLiteral, N),
   Comparison("in", N, Collection(<<Num("1"), Num("3")>>)),
   Comparison("ge", Arithmetic("mul", Arithmetic("add", N, Num("-1")), Num("2")), Num("3")),
   Comparison("lt", Num("1"), Arithmetic("sub", N, Arithmetic("add", Num("1"), Num("1")))),
   Comparison("lt", N, Call("length", <<S>>)),
   Comparison("eq", Call("indexof", <<Call("concat", <<S, Str("b")>>), Str("b")>>), N),
   Comparison("eq", Call("substring", <<S, Num("1")>>), Str("b")),
   Comparison("ne", Call("substring", <<S, Num("0"), Arithmetic("add", N, Num("-1"))>>), S),
   Call("startswith", <<S, Str("b")>>), Call("endswith", <<S, Str("b")>>),
   Lambda("any", "", M, TrueLiteral),
   Lambda("any", "v", M, Logical("or", Is("a"), Is("b"))),
   Lambda("all", "v", M, Is("a")),
   Lambda("any", "v", M, Logical("and", Is("a"), Is("b"))),
   Lambda("all", "v", M, Logical("and", Is("a"), Is("b"))),
   Lambda("any", "v", M, Comparison("lt", Num("-1"), Property("v"))),
   Lambda("all", "v", M, Logical("or", Is("a"), Comparison("eq", Str("b"), Property("v"))))}

MCTable == {[N |-> n, S |-> s, M |-> m] :
              n \in {Null, 1, 3}, s \in {Null, "a", "ab", "AB"}, m \in {Null, Absent, {}, {"a"}, {"a", "b"}}}
MCIdle    == [N |-> 1, S |-> "a", M |-> {}]

-----------------------------------------------------------------------------
(* A corner of the Data Dictionary with each way of finding the records of  *)
(* a navigation property: Media by resource and key, open houses by the key *)
(* of the listing, agents, offices and brokers by a key in the record.      *)

Resource(key, fields, expansions) == [key |-> key, fields |-> fields \cup {key}, expansions |-> expansions]
ToMany(target) == [target |-> target, isCollection |-> TRUE]
ToOne(target)  == [target |-> target, isCollection |-> FALSE]
MCMetadata ==
  [Property  |-> Resource("ListingKey", {"N", "AgentKey"},
                          [Media |-> ToMany("Media"), OpenHouse |-> ToMany("OpenHouse"),
                           Agent |-> ToOne("Member"), Rooms |-> ToMany("Rooms")]),
   OpenHouse |-> Resource("OpenHouseKey", {"ListingKey"}, [Listing |-> ToOne("Property"), Media |-> ToMany("Media")]),
   Member    |-> Resource("MemberKey", {"OfficeKey"}, [Media |-> ToMany("Media"), Office |-> ToOne("Office")]),
   Office    |-> Resource("OfficeKey", {"BrokerKey"}, [Broker |-> ToOne("Member")]),
   Media     |-> Resource("MediaKey", {"ResourceName", "ResourceRecordKey"}, << >>)]

Listing(key, n, agent)        == [ListingKey |-> key, N |-> n, AgentKey |-> agent]
OpenHouse(key, listing)       == [OpenHouseKey |-> key, ListingKey |-> listing]
MediaOf(key, resource, owner) == [MediaKey |-> key, ResourceName |-> resource, ResourceRecordKey |-> owner]

\* No listing, or up to three in any order of their keys, agent 9 unknown.
Listings == {<< >>, <<Listing(1, 2, 1)>>}
            \cup {<<Listing(2, n, a), Listing(1, 1, 1)>> : n \in {Nothing, 1, 2}, a \in {Nothing, 9}}
            \cup {<<Listing(3, n, 2), Listing(1, m, 1), Listing(2, 2, 1)>> : n \in {Nothing, 1, 2}, m \in {1, 2}}
MCDatabases ==
  {[Property  |-> listings,
    OpenHouse |-> <<OpenHouse(1, 1), OpenHouse(2, 1), OpenHouse(3, 2)>>,
    Member    |-> <<[MemberKey |-> 1, OfficeKey |-> 1], [MemberKey |-> 2, OfficeKey |-> Nothing]>>,
    Office    |-> <<[OfficeKey |-> 1, BrokerKey |-> 1]>>,
    Media     |-> <<MediaOf(1, "Property", 1), MediaOf(2, "Member", 1), MediaOf(3, "Property", 1),
                    MediaOf(4, "OpenHouse", 1)>>] : listings \in Listings}

Plain(name) == Expand(name, Unset, << >>)
Trees ==
  {<<Plain("Media")>>, <<Plain("OpenHouse"), Plain("Media")>>,
   <<Plain("Agent"), Plain("Rooms"), Plain("Other")>>,
   <<Expand("Agent", {"MemberKey"}, <<Plain("Office"), Plain("Media")>>), Plain("OpenHouse")>>,
   <<Expand("OpenHouse", {"ListingKey"}, <<Expand("Listing", {"N"}, <<Plain("Agent")>>)>>)>>,
   <<Expand("Agent", Unset, <<Expand("Office", {"Other"}, <<Expand("Broker", Unset, <<Plain("Office")>>)>>)>>)>>}
Selects == {Unset, {"N"}, {"AgentKey"}, {"ListingKey", "Other"}}
Orders  == {Unset} \cup {[field |-> f, desc |-> d] : f \in {"N", "Other"}, d \in BOOLEAN}
AtLeast2 == [field |-> "N", op |-> "ge", value |-> 2]

Query(which, select, order, top, skip, count, tree) ==
  [filter |-> which, select |-> select, orderby |-> order, top |-> top, skip |-> skip, count |-> count,
   expand |-> tree]
Whole(select, tree) == Query(Unset, select, Unset, Unset, 0, FALSE, tree)
OfListings(prefer, q) == [kind |-> "collection", resource |-> "Property", prefer |-> prefer, q |-> q]

MCRequests ==
  {OfListings(prefer, Query(which, Unset, o, top, skip, TRUE, tree)) :
     prefer \in {Unset, 1, 2}, which \in {Unset, AtLeast2}, o \in Orders \ {[field |-> "Other", desc |-> TRUE]}, top \in {Unset, 0, 1, 3},
     skip \in 0..2, tree \in {<< >>, <<Plain("OpenHouse"), Plain("Media")>>}}
  \cup {OfListings(Unset, Query(Unset, s, o, Unset, 0, FALSE, tree)) : s \in Selects, o \in Orders, tree \in Trees}
  \cup {[kind |-> "read", resource |-> "Property", key |-> k, q |-> Whole(s, tree)] :
           k \in {1, 2, 9}, s \in Selects, tree \in Trees \cup {Unset}}
  \cup {[kind |-> "navigation", resource |-> rn[1], key |-> k, q |-> Whole(Unset, <<Expand(rn[2], s, << >>)>>)] :
           rn \in {<<"Property", "Media">>, <<"Property", "OpenHouse">>, <<"Property", "Agent">>,
                   <<"Member", "Media">>, <<"Member", "Office">>},
           k \in {1, 2, 9}, s \in {Unset, {"ListingKey"}}}

-----------------------------------------------------------------------------
NoQuery  == navigationBindings = Bindings /\ request = NoRequest /\ link = None /\ pages = << >> /\ backend = "" /\ db = << >>
NoFilter == filter = Comparison("eq", Num("1"), Num("1"))

ReadsInit == (Init /\ NoQuery) \/ (NoFilter /\ Ask)
ReadsNext == \/ request = NoRequest /\ Next /\ UNCHANGED queryVars
             \/ request # NoRequest /\ Answer /\ UNCHANGED filter
Reads == ReadsInit /\ [][ReadsNext]_<<filter, queryVars>>
=============================================================================
