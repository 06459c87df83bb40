------------------------------ MODULE WfsReads ------------------------------
(***************************************************************************)
(* Reading a layer through services/wfs: Meta.Resolve finds the table of a *)
(* layer, its database and its columns and keeps them for a minute; then   *)
(* GetFeature counts what its filters match and streams a page of it.      *)
(* Each read is a statement of its own: the catalog, the tables and their  *)
(* rows change in between, and nothing of that drops a kept layer.         *)
(*                                                                         *)
(* One layer and one process are modelled: layers are kept under keys of   *)
(* their own, and the processes share nothing.  A time is the number of    *)
(* ticks since, up to TTL.  What a request asks for is drawn when it is    *)
(* first looked at, after the layer is resolved.                           *)
(***************************************************************************)
EXTENDS Integers, SequencesExt

CONSTANTS
    Requests,     \* requests in progress
    Tables,       \* tables a resource can name
    Dsns, Self,   \* databases a store can name; Self is the one of the catalog
    Columns,      \* names of columns
    Shapes,       \* the forms a table can have: [geom, cols], "" for no geometry
    Namesakes,    \* the forms of a table of the same name in another schema
    Idents,       \* the names identRe matches, which qi lets into a statement
    Features,     \* rows, by the value of their key
    Asks,         \* [Requests -> SUBSET Query]: what each of them may ask for
    TTL,          \* ticks a layer is kept
    MaxChanges,   \* bound: changes of the catalog, of tables and of rows
    MaxFaults     \* bound: failing statements and lost connections

ASSUME TTLAssumption == TTL \in Nat \ {0}
ASSUME BoundsAssumption == MaxChanges \in Nat /\ MaxFaults \in Nat
ASSUME SelfAssumption == Self \in Dsns /\ "" \notin Dsns /\ "" \notin Tables
NoTable == [geom |-> "", cols |-> {}]
ASSUME ShapesAssumption ==
    \A s \in Shapes \cup Namesakes :
        s.geom \in Columns \cup {""} /\ s.cols \subseteq Columns \ {s.geom}
ASSUME FiniteAssumption == IsFiniteSet(Requests) /\ IsFiniteSet(Features)
ASSUME KeysAssumption == Features \subseteq Int

VARIABLES
    resource,     \* the table the row of the resource names, "" without a row
    store,        \* the database the row of its store names, "" without a row
    shape,        \* [Dsns \X Tables -> Shapes]: the tables the search path finds
    namesake,     \* [Dsns \X Tables -> Namesakes]: those of other schemas
    rows,         \* [Dsns \X Tables -> SUBSET Features]
    cache,        \* the entry of the layer: [kept, layer, age, torn, behind]
    pools,        \* the databases whose pool is kept
    created,      \* [Dsns -> Nat]: the pools created and never closed
    req,          \* [Requests -> Request]
    changes, faults,  \* what is left of MaxChanges and MaxFaults
    quiet         \* history: ticks since the catalog or a table changed

world == << resource, store, shape, namesake, rows, changes, quiet >>
vars == << world, cache, pools, created, req, faults >>
-----------------------------------------------------------------------------
NoLayer == [table |-> "", dsn |-> "", geom |-> "", cols |-> {}]
NoEntry == [kept |-> FALSE, layer |-> NoLayer, age |-> 0, torn |-> FALSE, behind |-> FALSE]

\* A filter uses columns and selects rows; a bad one does not parse.
Filter == [cols : SUBSET Columns, sel : SUBSET Features, bad : BOOLEAN]
NoFilter == [cols |-> {}, sel |-> Features, bad |-> FALSE]

\* given: CQL_FILTER, FILTER, BBOX, featureID and the id of a stored query;
\* grant: the constraint of the rules; props: {} for all; limit: 0 for none.
Query == [kind : {"describe", "hits", "values", "json", "csv", "gml"},
          given : Seq(Filter), grant : Filter, props : SUBSET Columns,
          sort : {"", "ASC", "DESC"}, offset : Nat, limit : Nat]
NoQuery == [kind |-> "describe", given |-> <<>>, grant |-> NoFilter, props |-> {},
            sort |-> "", offset |-> 0, limit |-> 0]
\* A startIndex or a count below zero is taken as none.
ASSUME AsksAssumption == \A r \in Requests : Asks[r] \subseteq Query
Queries == {NoQuery} \cup UNION {Asks[r] : r \in Requests}

Resolving == {"cache", "resource", "store", "pool", "create", "geometry", "columns", "keep"}

\* history: torn, the catalog or a table changed while the layer was read; behind,
\* it changed since then; edited, a change followed the count; out: the rows sent.
Request == [pc : {"idle", "parse", "count", "query", "rows", "done"} \cup Resolving,
            layer : [table : Tables \cup {""}, dsn : Dsns \cup {""},
                     geom : Columns \cup {""}, cols : SUBSET Columns],
            torn : BOOLEAN, behind : BOOLEAN, q : Queries, matched : Nat, page : SUBSET Features,
            edited : BOOLEAN,
            answer : {"", "described", "hits", "page", "400", "500", "broken"},
            out : SUBSET Features]
Idle == [pc |-> "idle", layer |-> NoLayer, torn |-> FALSE, behind |-> FALSE, q |-> NoQuery, matched |-> 0,
         page |-> {}, edited |-> FALSE, answer |-> "", out |-> {}]

AllOf(s) == s.cols \cup ({s.geom} \ {""})
ShapeOf(l) == shape[l.dsn, l.table]
NamesakeOf(l) == namesake[l.dsn, l.table]

\* What is found under the name of the table, in whichever schema.
GeomsOf(l) == {ShapeOf(l).geom, NamesakeOf(l).geom} \ {""}
ColumnsOf(l) == AllOf(ShapeOf(l)) \cup AllOf(NamesakeOf(l))

\* The layer as it would be read now.
Current(l) ==
    /\ l.table = resource /\ l.table # ""
    /\ l.dsn = store /\ l.dsn # ""
    /\ l.geom \in GeomsOf(l) /\ l.cols = ColumnsOf(l) \ {l.geom}

Init ==
    /\ resource \in Tables /\ store \in Dsns
    /\ \E s \in Shapes : s.geom # "" /\ shape = [p \in Dsns \X Tables |-> s]
    /\ \E s \in Namesakes : namesake = [p \in Dsns \X Tables |-> s]
    /\ rows = [p \in Dsns \X Tables |-> Features]
    /\ cache = NoEntry
    /\ pools = {} /\ created = [d \in Dsns |-> 0]
    /\ req = [r \in Requests |-> Idle]
    /\ changes = MaxChanges /\ faults = MaxFaults
    /\ quiet = TTL

Become(r, new) == req' = [req EXCEPT ![r] = new]
Step(r, pc) == Become(r, [req[r] EXCEPT !.pc = pc])
Sent(r, a, S) == Become(r, [req[r] EXCEPT !.pc = "done", !.answer = a, !.out = S,
                              !.layer = NoLayer, !.torn = FALSE, !.behind = FALSE, !.page = {}])
Answered(r, a) == Sent(r, a, {})
Fault == faults > 0 /\ faults' = faults - 1
-----------------------------------------------------------------------------
(* Resolve.                                                                *)

Arrive(r) ==
    /\ req[r].pc = "idle"
    /\ Step(r, "cache")
    /\ UNCHANGED << world, cache, pools, created, faults >>

\* Slip: a layer is still taken from the cache at the end of its minute
LookupAtTTL(r) ==
    /\ req[r].pc = "cache"
    /\ IF cache.kept /\ cache.age <= TTL
       THEN Become(r, [req[r] EXCEPT !.pc = "parse", !.layer = cache.layer,
                                                  !.behind = cache.behind])
       ELSE Step(r, "resource")
    /\ UNCHANGED << world, cache, pools, created, faults >>

\* The layer that is kept, when it is younger than TTL.
Lookup(r) ==
    /\ req[r].pc = "cache"
    /\ IF cache.kept /\ cache.age < TTL
       THEN Become(r, [req[r] EXCEPT !.pc = "parse", !.layer = cache.layer,
                                                  !.behind = cache.behind])
       ELSE Step(r, "resource")
    /\ UNCHANGED << world, cache, pools, created, faults >>

ReadResource(r) ==
    /\ req[r].pc = "resource"
    /\ IF resource = "" THEN Answered(r, "400")
       ELSE Become(r, [req[r] EXCEPT !.pc = "store", !.layer.table = resource])
    /\ UNCHANGED << world, cache, pools, created, faults >>

ReadStore(r) ==
    /\ req[r].pc = "store"
    /\ IF store = "" THEN Answered(r, "400")
       ELSE Become(r, [req[r] EXCEPT !.pc = "pool", !.layer.dsn = store])
    /\ UNCHANGED << world, cache, pools, created, faults >>

\* poolFor: the catalog's own pool, or a pool that is kept.
FindPool(r) ==
    /\ req[r].pc = "pool"
    /\ Step(r, IF req[r].layer.dsn \in {Self} \cup pools THEN "geometry" ELSE "create")
    /\ UNCHANGED << world, cache, pools, created, faults >>

\* Slip: the new pool is not kept
CreatePoolUnkept(r) ==
    /\ req[r].pc = "create"
    /\ created' = [created EXCEPT ![req[r].layer.dsn] = @ + 1]
    /\ Step(r, "geometry")
    /\ UNCHANGED << world, cache, pools, faults >>

\* The new pool takes the place of one another request kept meanwhile.
CreatePool(r) ==
    /\ req[r].pc = "create"
    /\ created' = [created EXCEPT ![req[r].layer.dsn] = @ + 1]
    /\ pools' = pools \cup {req[r].layer.dsn}
    /\ Step(r, "geometry")
    /\ UNCHANGED << world, cache, faults >>

\* Slip: a table without a geometry is not refused
ReadGeometryAny(r) ==
    /\ req[r].pc = "geometry"
    /\ Become(r, [req[r] EXCEPT !.pc = "columns", !.layer.geom = ShapeOf(req[r].layer).geom])
    /\ UNCHANGED << world, cache, pools, created, faults >>

\* By the name of the table alone, one of those there are.
ReadGeometry(r) ==
    /\ req[r].pc = "geometry"
    /\ \/ GeomsOf(req[r].layer) = {} /\ Answered(r, "400")
       \/ \E geom \in GeomsOf(req[r].layer) :
            Become(r, [req[r] EXCEPT !.pc = "columns", !.layer.geom = geom])
    /\ UNCHANGED << world, cache, pools, created, faults >>

\* Slip: the columns are read in the database of the catalog
ReadColumnsOfCatalog(r) ==
    /\ req[r].pc = "columns"
    /\ Become(r, [req[r] EXCEPT !.pc = "keep",
                   !.layer.cols = ColumnsOf([req[r].layer EXCEPT !.dsn = Self]) \ {req[r].layer.geom}])
    /\ UNCHANGED << world, cache, pools, created, faults >>

\* By the name of the table alone, all of those there are.
ReadColumns(r) ==
    /\ req[r].pc = "columns"
    /\ Become(r, [req[r] EXCEPT !.pc = "keep",
                   !.layer.cols = ColumnsOf(req[r].layer) \ {req[r].layer.geom}])
    /\ UNCHANGED << world, cache, pools, created, faults >>

Keep(r) ==
    /\ req[r].pc = "keep"
    /\ cache' = [kept |-> TRUE, layer |-> req[r].layer, age |-> 0, torn |-> req[r].torn,
                 behind |-> req[r].torn]
    /\ Become(r, [req[r] EXCEPT !.pc = "parse", !.torn = FALSE, !.behind = req[r].torn])
    /\ UNCHANGED << world, pools, created, faults >>
-----------------------------------------------------------------------------
(* GetFeature, GetPropertyValue and DescribeFeatureType with the layer.    *)

\* Slip: of two filters the second is in force
AndExprSecond(a, b) == b
AndExpr(a, b) == [cols |-> a.cols \cup b.cols, sel |-> a.sel \cap b.sel, bad |-> FALSE]

\* A constraint of the rules that does not parse is passed over.
Where(q) ==
    LET given == FoldLeft(AndExpr, NoFilter, q.given)
    IN IF q.grant.bad THEN given ELSE AndExpr(given, q.grant)

\* parseGetFeature and whereClause.
Parse(r) ==
    /\ req[r].pc = "parse"
    /\ \E q \in Asks[r] :
         IF q.kind = "describe" THEN Answered(r, "described")
         ELSE IF (\E i \in DOMAIN q.given : q.given[i].bad) \/ ~(Where(q).cols \subseteq Idents)
              THEN Answered(r, "400")
         ELSE Become(r, [req[r] EXCEPT !.q = q, !.pc = "count"])
    /\ UNCHANGED << world, cache, pools, created, faults >>

\* What a statement with this filter and these columns finds, if it runs at all.
Runs(l, cols) == AllOf(ShapeOf(l)) # {} /\ cols \subseteq AllOf(ShapeOf(l))
Found(l, q) == rows[l.dsn, l.table] \cap Where(q).sel

CountMatched(r) ==
    /\ req[r].pc = "count"
    /\ LET l == req[r].layer
           q == req[r].q
       IN IF l.table \notin Idents \/ ~Runs(l, Where(q).cols) THEN Answered(r, "500")
          ELSE IF q.kind = "hits" THEN Answered(r, "hits")
          ELSE Become(r, [req[r] EXCEPT !.pc = "query", !.matched = Cardinality(Found(l, q))])
    /\ UNCHANGED << world, cache, pools, created, faults >>

SelectColumns(l, q) == IF q.props = {} THEN l.cols ELSE l.cols \cap q.props
\* The list of columns before the geometry must not be empty.
Selected(l, q) == IF q.kind = "values" THEN q.props ELSE SelectColumns(l, q) \cup {l.geom}
Selects(l, q) == q.kind = "values" \/ SelectColumns(l, q) # {}
\* What qi refuses is not sorted by.
Sorts(q) == q.sort # "" /\ "id" \in Idents
SortColumns(q) == IF Sorts(q) THEN {"id"} ELSE {}

\* ORDER BY, OFFSET and LIMIT: whether the row that has so many before it is shown
InPage(before, q) == before >= q.offset /\ (q.limit = 0 \/ before < q.offset + q.limit)
Before(x, y, q) == IF q.sort = "DESC" THEN x > y ELSE x < y

\* The pages a statement may return: without a sort PostgreSQL picks the order.
Pages(found, q) ==
    LET page(S, Lt(_, _)) == {x \in S : InPage(Cardinality({y \in S : Lt(y, x)}), q)}
        sorted == page(found, LAMBDA x, y : Before(x, y, q))
    IN IF Sorts(q) THEN {sorted}
       ELSE {S \in SUBSET found : Cardinality(S) = Cardinality(sorted)}

\* An error before the first row of values is an exception, of features a remark
\* in an answer that has begun.
StreamError(q) == IF q.kind = "values" THEN "500" ELSE "broken"

\* qi lets the names into the statement, and PostgreSQL knows them.
Spelled(l, q) == {l.table} \cup Selected(l, q) \subseteq Idents

RunQuery(r) ==
    /\ req[r].pc = "query"
    /\ LET l == req[r].layer
           q == req[r].q
       IN IF \/ ~Spelled(l, q) \/ ~Selects(l, q)
             \/ ~Runs(l, Where(q).cols \cup Selected(l, q) \cup SortColumns(q))
          THEN Answered(r, StreamError(q))
          ELSE \E page \in Pages(Found(l, q), q) :
                 Become(r, [req[r] EXCEPT !.pc = "rows", !.page = page])
    /\ UNCHANGED << world, cache, pools, created, faults >>

SendPage(r) ==
    /\ req[r].pc = "rows"
    /\ Sent(r, "page", req[r].page)
    /\ UNCHANGED << world, cache, pools, created, faults >>

\* The connection is lost between two rows.  GeoJSON and CSV have sent those
\* before, GML none; GetPropertyValue does not notice.
LosePage(r) ==
    /\ req[r].pc = "rows" /\ Fault
    /\ \E part \in SUBSET req[r].page :
         /\ req[r].q.kind = "gml" => part = {}
         /\ Sent(r, IF req[r].q.kind = "values" THEN "page" ELSE "broken", part)
    /\ UNCHANGED << world, cache, pools, created >>

Leave(r) ==
    /\ req[r].pc = "done"
    /\ Become(r, Idle)
    /\ UNCHANGED << world, cache, pools, created, faults >>

\* A statement of Resolve or the count fails, or a pool cannot be created.
StatementFails(r) ==
    /\ req[r].pc \in (Resolving \ {"cache", "pool", "keep"}) \cup {"count", "query"}
    /\ Fault
    /\ Answered(r, CASE req[r].pc \in Resolving -> "400"
                     [] req[r].pc = "count" -> "500"
                     [] OTHER -> StreamError(req[r].q))
    /\ UNCHANGED << world, cache, pools, created >>
-----------------------------------------------------------------------------
(* Others change the catalog, the tables and their rows; time passes.      *)

Change == changes > 0 /\ changes' = changes - 1

Tear ==
    /\ req' = [r \in Requests |-> [req[r] EXCEPT
         !.torn = @ \/ req[r].pc \in Resolving \ {"cache", "resource"},
         !.behind = @ \/ req[r].pc \in {"parse", "count", "query", "rows"},
         !.edited = @ \/ req[r].pc = "query"]]
    /\ cache' = [cache EXCEPT !.behind = @ \/ cache.kept]

ChangeCatalog ==
    /\ Change /\ quiet' = 0
    /\ \/ resource' \in (Tables \cup {""}) \ {resource} /\ UNCHANGED store
       \/ store' \in (Dsns \cup {""}) \ {store} /\ UNCHANGED resource
    /\ Tear
    /\ UNCHANGED << shape, namesake, rows, pools, created, faults >>

ChangeTable ==
    /\ Change /\ quiet' = 0
    /\ \E p \in Dsns \X Tables :
         \/ /\ \E s \in Shapes \ {shape[p]} : shape' = [shape EXCEPT ![p] = s]
            /\ UNCHANGED namesake
         \/ /\ \E s \in Namesakes \ {namesake[p]} : namesake' = [namesake EXCEPT ![p] = s]
            /\ UNCHANGED shape
    /\ Tear
    /\ UNCHANGED << resource, store, rows, pools, created, faults >>

EditRows ==
    /\ Change
    /\ \E p \in Dsns \X Tables, x \in Features :
         rows' = [rows EXCEPT ![p] = IF x \in @ THEN @ \ {x} ELSE @ \cup {x}]
    /\ req' = [r \in Requests |-> [req[r] EXCEPT !.edited = @ \/ req[r].pc = "query"]]
    /\ UNCHANGED << resource, store, shape, namesake, quiet, cache, pools, created, faults >>

Older(n) == IF n < TTL THEN n + 1 ELSE n

Tick ==
    /\ cache' = [cache EXCEPT !.age = IF cache.kept THEN Older(@) ELSE @]
    /\ quiet' = Older(quiet)
    /\ UNCHANGED << resource, store, shape, namesake, rows, changes, pools, created, req, faults >>

Proceed(r) ==
    \/ Lookup(r) \/ ReadResource(r) \/ ReadStore(r) \/ FindPool(r) \/ CreatePool(r)
    \/ ReadGeometry(r) \/ ReadColumns(r) \/ Keep(r)
    \/ Parse(r) \/ CountMatched(r) \/ RunQuery(r) \/ SendPage(r)

Next ==
    \/ \E r \in Requests : Arrive(r) \/ Proceed(r) \/ Leave(r)
                           \/ LosePage(r) \/ StatementFails(r)
    \/ ChangeCatalog \/ ChangeTable \/ EditRows \/ Tick

Spec == Init /\ [][Next]_vars

(* A request in progress proceeds and time passes. *)
FairSpec == Spec /\ WF_vars(Tick) /\ \A r \in Requests : WF_vars(Proceed(r))
-----------------------------------------------------------------------------
(* The state has its form; a layer that is kept, or in use, is complete.   *)
TypeOK ==
    /\ resource \in Tables \cup {""} /\ store \in Dsns \cup {""}
    /\ shape \in [Dsns \X Tables -> Shapes]
    /\ namesake \in [Dsns \X Tables -> Namesakes]
    /\ rows \in [Dsns \X Tables -> SUBSET Features]
    /\ req \in [Requests -> Request]
    /\ pools \subseteq Dsns \ {Self} /\ created \in [Dsns -> Nat]
    /\ changes \in 0..MaxChanges /\ faults \in 0..MaxFaults /\ quiet \in 0..TTL
    /\ cache.age \in 0..TTL
    /\ cache.kept => cache.layer.table # "" /\ cache.layer.dsn # "" /\ cache.layer.geom # ""
    /\ \A r \in Requests : req[r].pc \in {"parse", "count", "query", "rows"} =>
         req[r].layer.table # "" /\ req[r].layer.dsn # "" /\ req[r].layer.geom # ""

(* Requests that miss a pool at the same time each create one, and all but *)
(* the last are lost: never more than there were requests, however often   *)
(* the store is used later (poolFor, meta.go:131).                         *)
PoolsBounded == \A d \in Dsns : created[d] <= Cardinality(Requests)

(* A layer taken from the cache is at most a minute behind the catalog and *)
(* its table, provided nothing changed while it was read: then it is what  *)
(* the catalog says once a whole minute went by without a change           *)
(* (Resolve, cacheTTL).                                                    *)
Hit(r) == req[r].pc = "cache" /\ req'[r].pc = "parse"
HitsAreFresh ==
    [][\A r \in Requests : Hit(r) /\ quiet = TTL /\ ~cache.torn => Current(req'[r].layer)]_vars

(* The rows of an answer are rows every filter of the request selects, the *)
(* one of the rules included; unless somebody wrote in between they are as *)
(* many as the counted matches leave for the page, and although the        *)
(* connection may break no page is cut short unnoticed but one of          *)
(* GetPropertyValue (parseGetFeature, countMatched, streamGeoJSON).        *)
RowsAsAsked ==
    \A r \in Requests :
      LET q == req[r].q
          rest == IF req[r].matched > q.offset THEN req[r].matched - q.offset ELSE 0
          want == IF q.limit # 0 /\ q.limit < rest THEN q.limit ELSE rest
      IN req[r].answer \in {"page", "broken"} =>
           /\ ~q.grant.bad => req[r].out \subseteq q.grant.sel
           /\ \A i \in DOMAIN q.given : req[r].out \subseteq q.given[i].sel
           /\ req[r].answer = "page" /\ q.kind # "values" /\ ~req[r].edited =>
                Cardinality(req[r].out) = want

(* A request that asks for columns the layer has fails only if a call      *)
(* failed under it or the catalog or a table changed since the layer was   *)
(* first read: the three reads of a layer fit together, and its pool is    *)
(* the one of its table (getFeature's 500 and remark).  Excepted are a     *)
(* table whose name another schema has too, as the reads of a layer mix    *)
(* the two (meta.go:84-97), and names that qi refuses although PostgreSQL  *)
(* has them (encode.go:17).                                                *)
Fails(r) == req[r].pc # "done" /\ req'[r].answer \in {"500", "broken"}
AsksForItsColumns(r) ==
    LET l == req[r].layer
        q == req[r].q
    IN /\ Where(q).cols \cup Selected(l, q) \cup SortColumns(q) \subseteq l.cols \cup {l.geom}
       /\ Selects(l, q)
RefusedOnlyIfChanged ==
    [][\A r \in Requests :
         /\ Fails(r) /\ AsksForItsColumns(r) /\ ~req[r].behind
         /\ NamesakeOf(req[r].layer) = NoTable /\ Spelled(req[r].layer, req[r].q)
         => faults' < faults]_vars

(* Once nobody changes the catalog or a table any more, every request      *)
(* works in the end with the layer as it is: a layer that is kept expires, *)
(* although requests keep using it and no event drops it.                  *)
CurrentInTheEnd ==
    <>[](\A r \in Requests :
           req[r].pc \in {"parse", "count", "query", "rows"} => Current(req[r].layer))
=============================================================================
