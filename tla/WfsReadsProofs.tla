--------------------------- MODULE WfsReadsProofs ---------------------------
(***************************************************************************)
(* Proofs about WfsReads for any number of requests, tables, databases and *)
(* forms, and any time to keep a layer: what is kept or in use is complete *)
(* and no older than it may be, pools do not multiply, and a page has the  *)
(* rows that were asked for.                                               *)
(***************************************************************************)
EXTENDS WfsReads, FiniteSetTheorems, WellFoundedInduction, TLAPS

HasTable == {"store", "pool", "create", "geometry", "columns", "keep"}
HasDsn == HasTable \ {"store"}
HasGeom == {"columns", "keep"}
Using == {"parse", "count", "query", "rows"}

Layer == [table : Tables \cup {""}, dsn : Dsns \cup {""},
          geom : Columns \cup {""}, cols : SUBSET Columns]
Complete(l) == l.table # "" /\ l.dsn # "" /\ l.geom # ""

(* Each request has the parts of the layer that it has read so far.        *)
Formed(x) ==
    /\ x \in Request
    /\ x.pc # "done" => x.answer = ""
    /\ x.pc \in HasTable => x.layer.table # ""
    /\ x.pc \in HasDsn => x.layer.dsn # ""
    /\ x.pc = "create" => x.layer.dsn # Self
    /\ x.pc \in HasGeom => x.layer.geom # ""
    /\ x.pc \in Using => Complete(x.layer)

(* Those parts are what the catalog and the table say, unless torn.        *)
Fits(x) ==
    /\ x.pc \in HasTable /\ ~x.torn => x.layer.table = resource
    /\ x.pc \in HasDsn /\ ~x.torn => x.layer.dsn = store
    /\ x.pc \in HasGeom /\ ~x.torn => x.layer.geom \in GeomsOf(x.layer)
    /\ x.pc = "keep" /\ ~x.torn => x.layer.cols = ColumnsOf(x.layer) \ {x.layer.geom}
    /\ x.pc \in Using /\ ~x.behind => Current(x.layer)

(* A layer that is kept is current until something changes, and what       *)
(* changes then changed after it was kept.                                 *)
CacheFits ==
    /\ cache \in [kept : BOOLEAN, layer : Layer, age : 0..TTL,
                  torn : BOOLEAN, behind : BOOLEAN]
    /\ cache.kept => Complete(cache.layer)
    /\ cache.kept /\ ~cache.behind => Current(cache.layer)
    /\ cache.kept /\ cache.behind /\ ~cache.torn => quiet <= cache.age

(* The pools of a database are its first ones: as long as none is kept     *)
(* there is none, and each later one is of a request that saw none.        *)
Creating(d) == {r \in Requests : req[r].pc = "create" /\ req[r].layer.dsn = d}
PoolsCounted ==
    \A d \in Dsns : /\ d \notin pools => created[d] = 0
                    /\ created[d] + Cardinality(Creating(d)) <= Cardinality(Requests)

WorldOK ==
    /\ resource \in Tables \cup {""} /\ store \in Dsns \cup {""}
    /\ shape \in [Dsns \X Tables -> Shapes]
    /\ namesake \in [Dsns \X Tables -> Namesakes]
    /\ rows \in [Dsns \X Tables -> SUBSET Features]
    /\ changes \in 0..MaxChanges /\ quiet \in 0..TTL
CountersOK ==
    /\ pools \subseteq Dsns \ {Self} /\ created \in [Dsns -> Nat]
    /\ faults \in 0..MaxFaults
RequestsOK ==
    /\ DOMAIN req = Requests /\ req \in [Requests -> Request]
    /\ \A r \in Requests : Formed(req[r]) /\ Fits(req[r])

Inv == WorldOK /\ CountersOK /\ RequestsOK /\ CacheFits /\ PoolsCounted

LEMMA TTLRange == TTL \in Nat /\ 0 \in 0..TTL /\ TTL \in 0..TTL
BY TTLAssumption

-----------------------------------------------------------------------------
LEMMA InvImpliesTypeOK == Inv => TypeOK
BY DEF Inv, WorldOK, CountersOK, RequestsOK, CacheFits, TypeOK, Formed, Using, Complete

LEMMA IdleFormed == Formed(Idle) /\ Fits(Idle) /\ Idle.pc = "idle"
<1>1. Idle.pc = "idle" /\ Idle.answer = ""
  BY DEF Idle
<1>2. NoLayer \in Layer /\ NoQuery \in Queries
  BY DEF NoLayer, Layer, Queries
<1>3. Idle \in Request
  BY <1>2 DEF Idle, Request, Layer
<1> QED BY <1>1, <1>3 DEF Formed, Fits, HasTable, HasDsn, HasGeom, Using

(* A request that gets an answer keeps its form. *)
Answers == {"described", "hits", "page", "400", "500", "broken"}
LEMMA SentFormed ==
    ASSUME NEW r \in Requests, NEW a \in Answers, NEW S \in SUBSET Features,
           Inv, Sent(r, a, S)
    PROVE  \E new : /\ Become(r, new) /\ Formed(new) /\ Fits(new)
                    /\ new.pc = "done" /\ new.answer = a
<1> DEFINE new == [req[r] EXCEPT !.pc = "done", !.answer = a, !.out = S, !.layer = NoLayer,
                                 !.torn = FALSE, !.behind = FALSE, !.page = {}]
<1>1. req[r] \in Request
  BY DEF Inv, RequestsOK
<1>2. new.pc = "done" /\ new.answer = a
  BY <1>1 DEF Request
<1>3. new \in Request
  BY <1>1 DEF Request, NoLayer, Answers
<1>4. Formed(new) /\ Fits(new)
  BY <1>2, <1>3 DEF Formed, Fits, HasTable, HasDsn, HasGeom, Using
<1>5. Become(r, new)
  BY DEF Sent
<1> QED BY <1>2, <1>4, <1>5

(* A page is part of what a statement finds. *)
LEMMA PageWithin ==
    ASSUME NEW found, NEW q, NEW page \in Pages(found, q)
    PROVE  page \subseteq found
BY DEF Pages

LEMMA FoundWithin ==
    ASSUME Inv, NEW l \in Layer, Complete(l), NEW q
    PROVE  Found(l, q) \subseteq Features /\ Cardinality(Found(l, q)) \in Nat
<1>1. << l.dsn, l.table >> \in Dsns \X Tables
  BY DEF Layer, Complete
<1>2. Found(l, q) \subseteq Features
  BY <1>1 DEF Inv, WorldOK, Found
<1>3. IsFiniteSet(Found(l, q))
  BY <1>2, FiniteAssumption, FS_Subset
<1> QED BY <1>2, <1>3, FS_CardinalityType
-----------------------------------------------------------------------------
(* A step of a request: it moves on in its form, and does not create.      *)
Moves(r, new) == Become(r, new) /\ Formed(new) /\ Fits(new)

LEMMA MovesKeep ==
    ASSUME Inv, NEW r \in Requests, NEW new, Moves(r, new),
           UNCHANGED << resource, store, shape, namesake >>
    PROVE  RequestsOK'
<1>1. \A q \in Requests : req'[q] = IF q = r THEN new ELSE req[q]
  BY DEF Inv, RequestsOK, Moves, Become
<1>2. \A q \in Requests : Formed(req'[q]) /\ Fits(req'[q])
  BY <1>1 DEF Inv, RequestsOK, Moves
<1>3. \A q \in Requests : Formed(req[q])' /\ Fits(req[q])'
  BY <1>2 DEF Formed, Fits, Current, GeomsOf, ColumnsOf, ShapeOf, NamesakeOf, Complete
<1>4. req' \in [Requests -> Request] /\ DOMAIN req' = Requests
  BY <1>1 DEF Inv, RequestsOK, Moves, Become, Formed
<1> QED BY <1>3, <1>4 DEF RequestsOK

(* A step that only goes on to read.                                       *)
LEMMA LookMoves ==
    ASSUME Inv, NEW r \in Requests,
           Arrive(r) \/ Lookup(r) \/ ReadResource(r) \/ ReadStore(r) \/ Leave(r)
    PROVE  \E new : Moves(r, new) /\ new.pc # "create"
<1>1. /\ req[r] \in Request /\ Formed(req[r]) /\ Fits(req[r])
  BY DEF Inv, RequestsOK
<1>2. CASE Arrive(r)
  <2> DEFINE new == [req[r] EXCEPT !.pc = "cache"]
  <2>1. new \in Request /\ new.pc = "cache" /\ new.answer = ""
    BY <1>1, <1>2 DEF Request, Arrive, Formed, Resolving
  <2> QED BY <1>2, <2>1 DEF Moves, Formed, Fits, Arrive, Step, HasTable, HasDsn, HasGeom, Using
<1>3. CASE Leave(r)
  BY <1>3, IdleFormed DEF Leave, Moves
<1>4. CASE Lookup(r)
  <2>1. CASE cache.kept /\ cache.age < TTL
    <3> DEFINE new == [req[r] EXCEPT !.pc = "parse", !.layer = cache.layer,
                                     !.behind = cache.behind]
    <3>1. /\ cache.layer \in Layer /\ cache.behind \in BOOLEAN /\ Complete(cache.layer)
          /\ ~cache.behind => Current(cache.layer)
      BY <2>1 DEF Inv, CacheFits
    <3>2. /\ new \in Request /\ new.pc = "parse" /\ new.answer = ""
          /\ new.layer = cache.layer /\ new.behind = cache.behind
      BY <1>1, <1>4, <3>1 DEF Request, Lookup, Formed, Layer
    <3>3. Become(r, new)
      BY <1>4, <2>1 DEF Lookup
    <3> QED BY <3>1, <3>2, <3>3 DEF Moves, Formed, Fits, HasTable, HasDsn, HasGeom, Using
  <2>2. CASE ~(cache.kept /\ cache.age < TTL)
    <3> DEFINE new == [req[r] EXCEPT !.pc = "resource"]
    <3>1. new \in Request /\ new.pc = "resource" /\ new.answer = ""
      BY <1>1, <1>4 DEF Request, Lookup, Formed, Resolving
    <3>2. Become(r, new)
      BY <1>4, <2>2 DEF Lookup, Step
    <3> QED BY <3>1, <3>2 DEF Moves, Formed, Fits, HasTable, HasDsn, HasGeom, Using
  <2> QED BY <2>1, <2>2
<1>5. ASSUME Answered(r, "400")
      PROVE  \E new : Moves(r, new) /\ new.pc # "create"
  <2>1. "400" \in Answers /\ {} \in SUBSET Features /\ Sent(r, "400", {})
    BY <1>5 DEF Answers, Answered
  <2> QED BY <2>1, SentFormed DEF Moves
<1>6. CASE ReadResource(r)
  <2>1. CASE resource = ""
    BY <1>5, <1>6, <2>1 DEF ReadResource
  <2>2. CASE resource # ""
    <3> DEFINE new == [req[r] EXCEPT !.pc = "store", !.layer.table = resource]
    <3>1. resource \in Tables
      BY <2>2 DEF Inv, WorldOK
    <3>2. /\ new \in Request /\ new.pc = "store" /\ new.answer = ""
          /\ new.layer.table = resource
      BY <1>1, <1>6, <3>1 DEF Request, ReadResource, Formed, Resolving
    <3>3. Become(r, new)
      BY <1>6, <2>2 DEF ReadResource
    <3> QED BY <2>2, <3>2, <3>3 DEF Moves, Formed, Fits, HasTable, HasDsn, HasGeom, Using
  <2> QED BY <2>1, <2>2
<1>7. CASE ReadStore(r)
  <2>1. CASE store = ""
    BY <1>5, <1>7, <2>1 DEF ReadStore
  <2>2. CASE store # ""
    <3> DEFINE new == [req[r] EXCEPT !.pc = "pool", !.layer.dsn = store]
    <3>1. store \in Dsns
      BY <2>2 DEF Inv, WorldOK
    <3>2. /\ new \in Request /\ new.pc = "pool" /\ new.answer = "" /\ new.torn = req[r].torn
          /\ new.layer.table = req[r].layer.table /\ new.layer.dsn = store
      BY <1>1, <1>7, <3>1 DEF Request, ReadStore, Formed, Resolving
    <3>3. Become(r, new) /\ req[r].pc = "store"
      BY <1>7, <2>2 DEF ReadStore
    <3> QED BY <1>1, <2>2, <3>2, <3>3 DEF Moves, Formed, Fits, HasTable, HasDsn, HasGeom, Using
  <2> QED BY <2>1, <2>2
<1> QED BY <1>2, <1>3, <1>4, <1>6, <1>7

(* Reading the table of the layer.                                         *)
LEMMA TableMoves ==
    ASSUME Inv, NEW r \in Requests, ReadGeometry(r) \/ ReadColumns(r)
    PROVE  \E new : Moves(r, new) /\ new.pc # "create"
<1>1. /\ req[r] \in Request /\ Formed(req[r]) /\ Fits(req[r])
  BY DEF Inv, RequestsOK
<1> DEFINE l == req[r].layer
<1>2. l \in Layer /\ l.table \in Tables /\ l.dsn \in Dsns
  BY <1>1 DEF Request, Layer, Formed, ReadGeometry, ReadColumns, HasTable, HasDsn
<1>3. ShapeOf(l) \in Shapes /\ NamesakeOf(l) \in Namesakes
  BY <1>2 DEF Inv, WorldOK, ShapeOf, NamesakeOf
<1>4. GeomsOf(l) \subseteq Columns \ {""} /\ ColumnsOf(l) \in SUBSET Columns
  <2>1. \A s \in {ShapeOf(l), NamesakeOf(l)} :
          s.geom \in Columns \cup {""} /\ s.cols \in SUBSET Columns
    BY <1>3, ShapesAssumption
  <2> QED BY <2>1 DEF GeomsOf, ColumnsOf, AllOf
<1>5. CASE ReadGeometry(r)
  <2>1. CASE GeomsOf(l) = {} /\ Answered(r, "400")
    <3>1. "400" \in Answers /\ {} \in SUBSET Features /\ Sent(r, "400", {})
      BY <2>1 DEF Answers, Answered
    <3> QED BY <3>1, SentFormed DEF Moves
  <2>2. ASSUME NEW geom \in GeomsOf(l),
               Become(r, [req[r] EXCEPT !.pc = "columns", !.layer.geom = geom])
        PROVE  \E new : Moves(r, new) /\ new.pc # "create"
    <3> DEFINE new == [req[r] EXCEPT !.pc = "columns", !.layer.geom = geom]
    <3>0. geom \in Columns /\ geom # ""
      BY <1>4
    <3>1. /\ new \in Request /\ new.pc = "columns" /\ new.answer = "" /\ new.torn = req[r].torn
          /\ new.layer.table = l.table /\ new.layer.dsn = l.dsn /\ new.layer.geom = geom
      BY <1>1, <1>5, <3>0 DEF Request, ReadGeometry, Formed, Resolving
    <3>2. Become(r, new) /\ req[r].pc = "geometry"
      BY <1>5, <2>2 DEF ReadGeometry
    <3>3. GeomsOf(new.layer) = GeomsOf(l)
      BY <3>1 DEF GeomsOf, ShapeOf, NamesakeOf
    <3> HIDE DEF new, l
    <3>4. Formed(new)
      BY <1>2, <3>0, <3>1, SelfAssumption DEF Formed, HasTable, HasDsn, HasGeom, Using
    <3>5. Fits(new)
      BY <1>1, <2>2, <3>1, <3>2, <3>3 DEF Fits, HasTable, HasDsn, HasGeom, Using, l
    <3> QED BY <3>1, <3>2, <3>4, <3>5 DEF Moves
  <2> QED BY <1>5, <2>1, <2>2 DEF ReadGeometry
<1>6. CASE ReadColumns(r)
  <2> DEFINE cols == ColumnsOf(l) \ {l.geom}
             new == [req[r] EXCEPT !.pc = "keep", !.layer.cols = cols]
  <2>1. cols \in SUBSET Columns
    BY <1>4
  <2>2. /\ new \in Request /\ new.pc = "keep" /\ new.answer = "" /\ new.torn = req[r].torn
        /\ new.layer.table = l.table /\ new.layer.dsn = l.dsn /\ new.layer.geom = l.geom
        /\ new.layer.cols = cols
    BY <1>1, <1>6, <2>1 DEF Request, ReadColumns, Formed, Resolving
  <2>3. Become(r, new) /\ req[r].pc = "columns"
    BY <1>6 DEF ReadColumns
  <2>4. GeomsOf(new.layer) = GeomsOf(l) /\ ColumnsOf(new.layer) = ColumnsOf(l)
    BY <2>2 DEF GeomsOf, ColumnsOf, ShapeOf, NamesakeOf
  <2>5. new.layer.cols = ColumnsOf(new.layer) \ {new.layer.geom}
    BY <2>2, <2>4
  <2>6. l.geom # ""
    BY <1>1, <2>3 DEF Formed, HasGeom
  <2> HIDE DEF new, cols, l
  <2>7. Formed(new)
    BY <1>2, <2>2, <2>6, SelfAssumption DEF Formed, HasTable, HasDsn, HasGeom, Using
  <2>8. Fits(new)
    BY <1>1, <2>2, <2>3, <2>4, <2>5 DEF Fits, HasTable, HasDsn, HasGeom, Using, l
  <2> QED BY <2>2, <2>3, <2>7, <2>8 DEF Moves
<1> QED BY <1>5, <1>6

(* Finding a pool, or the need of one.                                     *)
LEMMA PoolMoves ==
    ASSUME Inv, NEW r \in Requests, FindPool(r) \/ CreatePool(r)
    PROVE  \E new : /\ Moves(r, new)
                    /\ new.pc = "create" => FindPool(r) /\ new.layer.dsn \notin pools
<1>1. /\ req[r] \in Request /\ Formed(req[r]) /\ Fits(req[r])
  BY DEF Inv, RequestsOK
<1>2. ASSUME NEW pc \in {"geometry", "create"}, Step(r, pc), req[r].pc \in {"pool", "create"},
             pc = "create" => FindPool(r) /\ req[r].layer.dsn \notin {Self} \cup pools
      PROVE  \E new : /\ Moves(r, new)
                      /\ new.pc = "create" => FindPool(r) /\ new.layer.dsn \notin pools
  <2> DEFINE new == [req[r] EXCEPT !.pc = pc]
  <2>1. /\ new \in Request /\ new.pc = pc /\ new.answer = "" /\ new.torn = req[r].torn
        /\ new.layer = req[r].layer
    BY <1>1, <1>2 DEF Request, Formed, Resolving
  <2>2. Become(r, new)
    BY <1>2 DEF Step
  <2> HIDE DEF new
  <2> QED BY <1>1, <1>2, <2>1, <2>2 DEF Moves, Formed, Fits, HasTable, HasDsn, HasGeom, Using
<1>3. CASE FindPool(r)
  BY <1>2, <1>3 DEF FindPool
<1>4. CASE CreatePool(r)
  BY <1>2, <1>4 DEF CreatePool
<1> QED BY <1>3, <1>4

(* The layer is complete: it is kept, and used.                            *)
LEMMA KeepMoves ==
    ASSUME Inv, NEW r \in Requests, Keep(r)
    PROVE  /\ \E new : Moves(r, new) /\ new.pc # "create"
           /\ CacheFits'
<1>1. /\ req[r] \in Request /\ Formed(req[r]) /\ Fits(req[r])
  BY DEF Inv, RequestsOK
<1>2. req[r].pc = "keep" /\ req[r].torn \in BOOLEAN /\ req[r].layer \in Layer
  BY <1>1 DEF Keep, Request, Layer
<1>3. Complete(req[r].layer)
  BY <1>1, <1>2 DEF Formed, Complete, HasTable, HasDsn, HasGeom
<1>4. ~req[r].torn => Current(req[r].layer)
  BY <1>1, <1>2, <1>3 DEF Fits, Current, GeomsOf, ColumnsOf, ShapeOf, NamesakeOf, Complete,
                          HasTable, HasDsn, HasGeom
<1>5. \E new : Moves(r, new) /\ new.pc # "create"
  <2> DEFINE new == [req[r] EXCEPT !.pc = "parse", !.torn = FALSE, !.behind = req[r].torn]
  <2>1. /\ new \in Request /\ new.pc = "parse" /\ new.answer = ""
        /\ new.layer = req[r].layer /\ new.behind = req[r].torn
    BY <1>1, <1>2 DEF Request, Formed, Resolving
  <2>2. Become(r, new)
    BY DEF Keep
  <2> HIDE DEF new
  <2> QED BY <1>3, <1>4, <2>1, <2>2 DEF Moves, Formed, Fits, HasTable, HasDsn, HasGeom, Using
<1>6. CacheFits'
  <2> DEFINE entry == [kept |-> TRUE, layer |-> req[r].layer, age |-> 0, torn |-> req[r].torn,
                       behind |-> req[r].torn]
  <2>1. cache' = entry /\ UNCHANGED << resource, store, shape, namesake >>
    BY DEF Keep, world
  <2>2. entry \in [kept : BOOLEAN, layer : Layer, age : 0..TTL, torn : BOOLEAN, behind : BOOLEAN]
    BY <1>2, TTLRange
  <2>3. Current(cache.layer)' <=> Current(req[r].layer)
    BY <2>1 DEF Current, GeomsOf, ColumnsOf, ShapeOf, NamesakeOf
  <2> QED BY <1>3, <1>4, <2>1, <2>2, <2>3 DEF CacheFits, Complete
<1> QED BY <1>5, <1>6

(* What the request asks for is carried out with the layer.                *)
LEMMA AnswerMoves ==
    ASSUME Inv, NEW r \in Requests, NEW a \in Answers, NEW S \in SUBSET Features, Sent(r, a, S)
    PROVE  \E new : Moves(r, new) /\ new.pc # "create"
BY SentFormed DEF Moves

LEMMA UseMoves ==
    ASSUME Inv, NEW r \in Requests,
           Parse(r) \/ CountMatched(r) \/ RunQuery(r) \/ SendPage(r) \/ LosePage(r)
                    \/ StatementFails(r)
    PROVE  \E new : Moves(r, new) /\ new.pc # "create"
<1>1. /\ req[r] \in Request /\ Formed(req[r]) /\ Fits(req[r])
  BY DEF Inv, RequestsOK
<1>2. req[r].layer \in Layer /\ req[r].page \in SUBSET Features
  BY <1>1 DEF Request, Layer
<1>3. ASSUME NEW a \in Answers, Answered(r, a)
      PROVE  \E new : Moves(r, new) /\ new.pc # "create"
  BY <1>3, AnswerMoves DEF Answered
<1>4. ASSUME req[r].pc \in Using, NEW new, Become(r, new), new \in Request, new.pc \in Using,
             new.answer = "", new.layer = req[r].layer, new.behind = req[r].behind
      PROVE  \E x : Moves(r, x) /\ x.pc # "create"
  <2>1. Formed(new) /\ Fits(new)
    BY <1>1, <1>4 DEF Formed, Fits, HasTable, HasDsn, HasGeom, Using
  <2> QED BY <1>4, <2>1 DEF Moves, Using
<1>5. CASE Parse(r)
  <2>1. PICK q \in Asks[r] :
          \/ Answered(r, "described") \/ Answered(r, "400")
          \/ Become(r, [req[r] EXCEPT !.q = q, !.pc = "count"])
    BY <1>5 DEF Parse
  <2>2. CASE Become(r, [req[r] EXCEPT !.q = q, !.pc = "count"])
    <3> DEFINE new == [req[r] EXCEPT !.q = q, !.pc = "count"]
    <3>1. q \in Queries
      BY DEF Queries
    <3>2. req[r].pc = "parse" /\ req[r].answer = ""
      BY <1>1, <1>5 DEF Parse, Formed
    <3>3. /\ new \in Request /\ new.pc = "count" /\ new.answer = ""
          /\ new.layer = req[r].layer /\ new.behind = req[r].behind
      BY <1>1, <3>1, <3>2 DEF Request
    <3> HIDE DEF new
    <3> QED BY <1>4, <2>2, <3>2, <3>3 DEF Using, new
  <2> QED BY <1>3, <2>1, <2>2 DEF Answers
<1>6. CASE CountMatched(r)
  <2> DEFINE n == Cardinality(Found(req[r].layer, req[r].q))
  <2>1. \/ Answered(r, "500") \/ Answered(r, "hits")
        \/ Become(r, [req[r] EXCEPT !.pc = "query", !.matched = n])
    BY <1>6 DEF CountMatched
  <2>2. CASE Become(r, [req[r] EXCEPT !.pc = "query", !.matched = n])
    <3> DEFINE new == [req[r] EXCEPT !.pc = "query", !.matched = n]
    <3>1. req[r].pc = "count" /\ req[r].answer = "" /\ Complete(req[r].layer)
      BY <1>1, <1>6 DEF CountMatched, Formed, Using
    <3>2. n \in Nat
      BY <1>2, <3>1, FoundWithin
    <3>3. /\ new \in Request /\ new.pc = "query" /\ new.answer = ""
          /\ new.layer = req[r].layer /\ new.behind = req[r].behind
      <4> HIDE DEF n
      <4> QED BY <1>1, <3>1, <3>2 DEF Request
    <3> HIDE DEF new
    <3> QED BY <1>4, <2>2, <3>1, <3>3 DEF Using, new
  <2> QED BY <1>3, <2>1, <2>2 DEF Answers
<1>7. CASE RunQuery(r)
  <2>1. \/ Answered(r, "500") \/ Answered(r, "broken")
        \/ \E page \in Pages(Found(req[r].layer, req[r].q), req[r].q) :
             Become(r, [req[r] EXCEPT !.pc = "rows", !.page = page])
    BY <1>7 DEF RunQuery, StreamError
  <2>2. ASSUME NEW page \in Pages(Found(req[r].layer, req[r].q), req[r].q),
               Become(r, [req[r] EXCEPT !.pc = "rows", !.page = page])
        PROVE  \E x : Moves(r, x) /\ x.pc # "create"
    <3> DEFINE new == [req[r] EXCEPT !.pc = "rows", !.page = page]
    <3>1. req[r].pc = "query" /\ req[r].answer = "" /\ Complete(req[r].layer)
      BY <1>1, <1>7 DEF RunQuery, Formed, Using
    <3>2. page \in SUBSET Features
      BY <1>2, <3>1, FoundWithin, PageWithin
    <3>3. /\ new \in Request /\ new.pc = "rows" /\ new.answer = ""
          /\ new.layer = req[r].layer /\ new.behind = req[r].behind
      BY <1>1, <3>1, <3>2 DEF Request
    <3> HIDE DEF new
    <3> QED BY <1>4, <2>2, <3>1, <3>3 DEF Using, new
  <2> QED BY <1>3, <2>1, <2>2 DEF Answers
<1>8. CASE SendPage(r) \/ LosePage(r)
  <2>1. \E a \in Answers, S \in SUBSET Features : Sent(r, a, S)
    BY <1>2, <1>8 DEF SendPage, LosePage, Answers
  <2> QED BY <2>1, AnswerMoves
<1>9. CASE StatementFails(r)
  <2>1. \E a \in Answers : Answered(r, a)
    BY <1>9 DEF StatementFails, StreamError, Answers
  <2> QED BY <1>3, <2>1
<1> QED BY <1>5, <1>6, <1>7, <1>8, <1>9
-----------------------------------------------------------------------------
(* How many create a pool.                                                 *)
LEMMA CreatingCount ==
    ASSUME NEW S, NEW T, S \subseteq T, T \subseteq Requests
    PROVE  /\ Cardinality(S) \in Nat /\ Cardinality(T) \in Nat
           /\ Cardinality(S) <= Cardinality(T)
           /\ \A r \in T \ S : Cardinality(S) + 1 <= Cardinality(T)
<1>1. IsFiniteSet(T) /\ IsFiniteSet(S)
  BY FiniteAssumption, FS_Subset
<1>2. Cardinality(S) \in Nat /\ Cardinality(T) \in Nat /\ Cardinality(S) <= Cardinality(T)
  BY <1>1, FS_CardinalityType, FS_Subset
<1>3. ASSUME NEW r \in T \ S PROVE Cardinality(S) + 1 <= Cardinality(T)
  <2>1. S \cup {r} \subseteq T /\ IsFiniteSet(S \cup {r})
    BY <1>1, <1>3, FS_Subset
  <2>2. Cardinality(S \cup {r}) = Cardinality(S) + 1
    BY <1>1, <1>3, FS_AddElement
  <2>3. Cardinality(S \cup {r}) <= Cardinality(T)
    BY <1>1, <2>1, FS_Subset
  <2> QED BY <2>2, <2>3
<1> QED BY <1>2, <1>3

LEMMA CreatingMoves ==
    ASSUME Inv, NEW r \in Requests, NEW new, Moves(r, new), NEW d
    PROVE  /\ Creating(d) \subseteq Requests /\ Creating(d)' \subseteq Requests
           /\ ~(new.pc = "create" /\ new.layer.dsn = d) =>
                Creating(d)' \subseteq Creating(d) \ {r}
<1>1. \A q \in Requests : req'[q] = IF q = r THEN new ELSE req[q]
  BY DEF Inv, RequestsOK, Moves, Become
<1> QED BY <1>1 DEF Creating

LEMMA MovesKeepPools ==
    ASSUME Inv, NEW r \in Requests, NEW new, Moves(r, new), UNCHANGED << pools, created >>,
           new.pc = "create" => new.layer.dsn \notin pools
    PROVE  PoolsCounted'
<1> SUFFICES ASSUME NEW d \in Dsns
             PROVE /\ d \notin pools => created[d] = 0
                   /\ created[d] + Cardinality(Creating(d)') <= Cardinality(Requests)
  BY DEF PoolsCounted
<1>1. /\ d \notin pools => created[d] = 0
      /\ created[d] + Cardinality(Creating(d)) <= Cardinality(Requests)
      /\ created[d] \in Nat
  BY DEF Inv, PoolsCounted, CountersOK
<1>2. Creating(d) \subseteq Requests /\ Creating(d)' \subseteq Requests
  BY CreatingMoves
<1>3. CASE new.pc = "create" /\ new.layer.dsn = d
  <2>1. created[d] = 0
    BY <1>1, <1>3
  <2>2. Cardinality(Creating(d)') \in Nat /\ Cardinality(Creating(d)') <= Cardinality(Requests)
    BY <1>2, CreatingCount
  <2> QED BY <2>1, <2>2
<1>4. CASE ~(new.pc = "create" /\ new.layer.dsn = d)
  <2>1. Creating(d)' \subseteq Creating(d)
    BY <1>4, CreatingMoves
  <2>2. /\ Cardinality(Creating(d)') \in Nat /\ Cardinality(Creating(d)) \in Nat
        /\ Cardinality(Creating(d)') <= Cardinality(Creating(d))
        /\ Cardinality(Requests) \in Nat
    BY <1>2, <2>1, CreatingCount
  <2> QED BY <1>1, <2>2
<1> QED BY <1>1, <1>3, <1>4

LEMMA CreateKeepsPools ==
    ASSUME Inv, NEW r \in Requests, CreatePool(r), NEW new, Moves(r, new), new.pc # "create"
    PROVE  PoolsCounted' /\ CountersOK'
<1> DEFINE c == req[r].layer.dsn
<1>1. req[r] \in Request /\ Formed(req[r]) /\ req[r].pc = "create"
  BY DEF Inv, RequestsOK, CreatePool
<1>2. c \in Dsns \ {Self}
  BY <1>1 DEF Request, Formed, HasDsn, HasTable
<1>3. /\ created \in [Dsns -> Nat] /\ created' = [created EXCEPT ![c] = @ + 1]
      /\ pools' = pools \cup {c} /\ faults' = faults
  BY DEF Inv, CountersOK, CreatePool
<1>4. CountersOK'
  BY <1>2, <1>3 DEF Inv, CountersOK
<1>5. ASSUME NEW d \in Dsns
      PROVE  /\ d \notin pools' => created'[d] = 0
             /\ created'[d] + Cardinality(Creating(d)') <= Cardinality(Requests)
  <2>1. /\ d \notin pools => created[d] = 0
        /\ created[d] + Cardinality(Creating(d)) <= Cardinality(Requests)
        /\ created[d] \in Nat
    BY <1>3 DEF Inv, PoolsCounted
  <2>2. /\ Creating(d) \subseteq Requests /\ Creating(d)' \subseteq Creating(d) \ {r}
    BY CreatingMoves
  <2>3. CASE d = c
    <3>1. r \in Creating(d) \ Creating(d)'
      BY <1>1, <2>2, <2>3 DEF Creating
    <3>2. /\ Cardinality(Creating(d)') \in Nat /\ Cardinality(Creating(d)) \in Nat
          /\ Cardinality(Creating(d)') + 1 <= Cardinality(Creating(d))
          /\ Cardinality(Requests) \in Nat
      BY <2>2, <3>1, CreatingCount
    <3>3. created'[d] = created[d] + 1 /\ d \in pools'
      BY <1>3, <2>3
    <3> QED BY <2>1, <3>2, <3>3
  <2>4. CASE d # c
    <3>1. created'[d] = created[d] /\ (d \notin pools' => d \notin pools)
      BY <1>3, <2>4
    <3>2. /\ Cardinality(Creating(d)') \in Nat /\ Cardinality(Creating(d)) \in Nat
          /\ Cardinality(Creating(d)') <= Cardinality(Creating(d))
          /\ Cardinality(Requests) \in Nat
      BY <2>2, CreatingCount
    <3> QED BY <2>1, <3>1, <3>2
  <2> QED BY <2>3, <2>4
<1> QED BY <1>4, <1>5 DEF PoolsCounted
-----------------------------------------------------------------------------
LEMMA RequestKeepsInv ==
    ASSUME Inv, NEW r \in Requests,
           Arrive(r) \/ Proceed(r) \/ Leave(r) \/ LosePage(r) \/ StatementFails(r)
    PROVE  Inv'
<1>1. UNCHANGED << resource, store, shape, namesake, rows, changes, quiet >> /\ WorldOK'
  <2>1. UNCHANGED << resource, store, shape, namesake, rows, changes, quiet >>
    BY DEF Arrive, Proceed, Leave, LosePage, StatementFails, Lookup, ReadResource, ReadStore,
           FindPool, CreatePool, ReadGeometry, ReadColumns, Keep, Parse, CountMatched, RunQuery,
           SendPage, world
  <2> QED BY <2>1 DEF Inv, WorldOK
<1>2. CASE Keep(r)
  <2>1. PICK new : Moves(r, new) /\ new.pc # "create"
    BY <1>2, KeepMoves
  <2>2. UNCHANGED << pools, created, faults >>
    BY <1>2 DEF Keep
  <2>3. CountersOK'
    BY <2>2 DEF Inv, CountersOK
  <2> QED BY <1>1, <1>2, <2>1, <2>2, <2>3, KeepMoves, MovesKeep, MovesKeepPools DEF Inv
<1>3. ASSUME UNCHANGED cache PROVE CacheFits'
  BY <1>1, <1>3 DEF Inv, CacheFits, Current, GeomsOf, ColumnsOf,
                                         ShapeOf, NamesakeOf, Complete
<1>4. CASE FindPool(r) \/ CreatePool(r)
  <2>1. PICK new : /\ Moves(r, new)
                   /\ new.pc = "create" => FindPool(r) /\ new.layer.dsn \notin pools
    BY <1>4, PoolMoves
  <2>2. RequestsOK' /\ CacheFits'
    BY <1>1, <1>3, <1>4, <2>1, MovesKeep DEF FindPool, CreatePool
  <2>3. CASE FindPool(r)
    <3>1. UNCHANGED << pools, created, faults >>
      BY <2>3 DEF FindPool
    <3>2. CountersOK' /\ PoolsCounted'
      BY <2>1, <3>1, MovesKeepPools DEF Inv, CountersOK
    <3> QED BY <1>1, <2>2, <3>2 DEF Inv
  <2>4. CASE CreatePool(r)
    <3>1. new.pc # "create"
      BY <2>1, <2>4 DEF FindPool, CreatePool
    <3> QED BY <1>1, <2>1, <2>2, <2>4, <3>1, CreateKeepsPools DEF Inv
  <2> QED BY <1>4, <2>3, <2>4
<1>5. ASSUME NEW new, Moves(r, new), new.pc # "create", UNCHANGED << cache, pools, created >>,
             faults' = faults \/ Fault
      PROVE  Inv'
  <2>1. faults' \in 0..MaxFaults
    BY <1>5, BoundsAssumption DEF Inv, CountersOK, Fault
  <2>2. CountersOK'
    BY <1>5, <2>1 DEF Inv, CountersOK
  <2> QED BY <1>1, <1>3, <1>5, <2>2, MovesKeep, MovesKeepPools DEF Inv
<1>6. CASE Arrive(r) \/ Lookup(r) \/ ReadResource(r) \/ ReadStore(r) \/ Leave(r)
  <2>1. UNCHANGED << cache, pools, created, faults >>
    BY <1>6 DEF Arrive, Lookup, ReadResource, ReadStore, Leave
  <2> QED BY <1>5, <1>6, <2>1, LookMoves
<1>7. CASE ReadGeometry(r) \/ ReadColumns(r)
  <2>1. UNCHANGED << cache, pools, created, faults >>
    BY <1>7 DEF ReadGeometry, ReadColumns
  <2> QED BY <1>5, <1>7, <2>1, TableMoves
<1>8. CASE Parse(r) \/ CountMatched(r) \/ RunQuery(r) \/ SendPage(r) \/ LosePage(r)
           \/ StatementFails(r)
  <2>1. UNCHANGED << cache, pools, created >> /\ (faults' = faults \/ Fault)
    BY <1>8 DEF Parse, CountMatched, RunQuery, SendPage, LosePage, StatementFails
  <2> QED BY <1>5, <1>8, <2>1, UseMoves
<1> QED BY <1>2, <1>4, <1>6, <1>7, <1>8 DEF Proceed
-----------------------------------------------------------------------------
(* What others do: requests keep their place and their layer.              *)
Stay == \A r \in Requests : req'[r].pc = req[r].pc /\ req'[r].layer = req[r].layer

LEMMA StayKeepsPools ==
    ASSUME Inv, Stay, UNCHANGED << pools, created >>
    PROVE  PoolsCounted'
<1>1. \A d \in Dsns : Creating(d)' = Creating(d)
  BY DEF Creating, Stay
<1> QED BY <1>1 DEF Inv, PoolsCounted

LEMMA TearKeeps ==
    ASSUME Inv, Tear, quiet' = 0
    PROVE  RequestsOK' /\ CacheFits' /\ Stay
<1>1. ASSUME NEW r \in Requests
      PROVE  /\ req'[r] \in Request /\ Formed(req'[r]) /\ Fits(req[r])'
             /\ req'[r].pc = req[r].pc /\ req'[r].layer = req[r].layer
  <2> DEFINE x == req[r]
             new == [x EXCEPT !.torn = @ \/ x.pc \in Resolving \ {"cache", "resource"},
                              !.behind = @ \/ x.pc \in {"parse", "count", "query", "rows"},
                              !.edited = @ \/ x.pc = "query"]
  <2>1. x \in Request /\ Formed(x)
    BY <1>1 DEF Inv, RequestsOK
  <2>2. req'[r] = new
    BY <1>1 DEF Tear
  <2>3. /\ new.pc = x.pc /\ new.layer = x.layer /\ new.answer = x.answer
        /\ x.pc \in HasTable => new.torn
        /\ x.pc \in Using => new.behind
    BY <2>1 DEF Request, Resolving, HasTable, Using
  <2>4. new \in Request
    BY <2>1 DEF Request
  <2> HIDE DEF new, x
  <2>5. Formed(new)
    BY <2>1, <2>3, <2>4 DEF Formed
  <2>6. Fits(req[r])'
    BY <2>2, <2>3 DEF Fits, HasTable, HasDsn, HasGeom
  <2> QED BY <2>2, <2>3, <2>4, <2>5, <2>6 DEF x
<1>2. DOMAIN req' = Requests /\ req' \in [Requests -> Request]
  BY <1>1 DEF Tear
<1>3. CacheFits'
  <2>1. cache \in [kept : BOOLEAN, layer : Layer, age : 0..TTL, torn : BOOLEAN, behind : BOOLEAN]
    BY DEF Inv, CacheFits
  <2>2. cache' = [cache EXCEPT !.behind = @ \/ cache.kept]
    BY DEF Tear
  <2>3. /\ cache' \in [kept : BOOLEAN, layer : Layer, age : 0..TTL,
                       torn : BOOLEAN, behind : BOOLEAN]
        /\ cache'.kept = cache.kept /\ cache'.layer = cache.layer /\ cache'.age = cache.age
        /\ cache.kept => cache'.behind
    BY <2>1, <2>2
  <2>4. quiet' <= cache'.age
    BY <2>1, <2>3, TTLRange
  <2> QED BY <2>3, <2>4 DEF Inv, CacheFits, Complete
<1>4. \A r \in Requests : Formed(req[r])'
  BY <1>1 DEF Formed, Complete
<1> QED BY <1>1, <1>2, <1>3, <1>4 DEF RequestsOK, Stay

LEMMA ChangeCount == ASSUME Inv, Change PROVE changes' \in 0..MaxChanges
<1>1. \A n \in 0..MaxChanges : n > 0 => n - 1 \in 0..MaxChanges
  BY BoundsAssumption
<1>2. changes \in 0..MaxChanges
  BY DEF Inv, WorldOK
<1> QED BY <1>1, <1>2 DEF Change

LEMMA ChangeKeepsInv == ASSUME Inv, ChangeCatalog \/ ChangeTable PROVE Inv'
<1>1. quiet' = 0 /\ Tear /\ Change /\ UNCHANGED << rows, pools, created, faults >>
  BY DEF ChangeCatalog, ChangeTable
<1>2. resource' \in Tables \cup {""} /\ store' \in Dsns \cup {""}
  BY DEF ChangeCatalog, ChangeTable, Inv, WorldOK
<1>3. shape' \in [Dsns \X Tables -> Shapes] /\ namesake' \in [Dsns \X Tables -> Namesakes]
  <2>1. shape \in [Dsns \X Tables -> Shapes] /\ namesake \in [Dsns \X Tables -> Namesakes]
    BY DEF Inv, WorldOK
  <2>2. CASE ChangeCatalog
    BY <2>1, <2>2 DEF ChangeCatalog
  <2>3. CASE ChangeTable
    <3>1. PICK p \in Dsns \X Tables :
            \/ /\ \E s \in Shapes : shape' = [shape EXCEPT ![p] = s]
               /\ UNCHANGED namesake
            \/ /\ \E s \in Namesakes : namesake' = [namesake EXCEPT ![p] = s]
               /\ UNCHANGED shape
      BY <2>3 DEF ChangeTable
    <3> QED BY <2>1, <3>1
  <2> QED BY <2>2, <2>3
<1>4. changes' \in 0..MaxChanges
  BY <1>1, ChangeCount
<1>5. WorldOK'
  BY <1>1, <1>2, <1>3, <1>4, TTLRange DEF Inv, WorldOK
<1>6. CountersOK'
  BY <1>1 DEF Inv, CountersOK
<1> QED BY <1>1, <1>5, <1>6, TearKeeps, StayKeepsPools DEF Inv

LEMMA EditKeepsInv == ASSUME Inv, EditRows PROVE Inv'
<1>1. Change /\ UNCHANGED << resource, store, shape, namesake, quiet, cache, pools, created, faults >>
  BY DEF EditRows
<1>2. rows' \in [Dsns \X Tables -> SUBSET Features]
  <2>1. PICK p \in Dsns \X Tables, x \in Features :
          rows' = [rows EXCEPT ![p] = IF x \in @ THEN @ \ {x} ELSE @ \cup {x}]
    BY DEF EditRows
  <2>2. rows \in [Dsns \X Tables -> SUBSET Features]
    BY DEF Inv, WorldOK
  <2> QED BY <2>1, <2>2
<1>3. ASSUME NEW r \in Requests
      PROVE  /\ req'[r] \in Request /\ Formed(req[r])' /\ Fits(req[r])'
             /\ req'[r].pc = req[r].pc /\ req'[r].layer = req[r].layer
  <2>1. req[r] \in Request /\ Formed(req[r]) /\ Fits(req[r])
    BY DEF Inv, RequestsOK
  <2>2. req'[r] = [req[r] EXCEPT !.edited = @ \/ req[r].pc = "query"]
    BY DEF EditRows
  <2>3. /\ req'[r] \in Request /\ req'[r].pc = req[r].pc /\ req'[r].layer = req[r].layer
        /\ req'[r].answer = req[r].answer
        /\ req'[r].torn = req[r].torn /\ req'[r].behind = req[r].behind
    BY <2>1, <2>2 DEF Request
  <2>4. Formed(req[r])'
    BY <2>1, <2>3 DEF Formed, Complete
  <2>5. Fits(req[r])'
    BY <1>1, <2>1, <2>3 DEF Fits, Current, GeomsOf, ColumnsOf, ShapeOf, NamesakeOf
  <2> QED BY <2>3, <2>4, <2>5
<1>4. DOMAIN req' = Requests
  BY DEF EditRows
<1>5. req' \in [Requests -> Request]
  BY <1>3 DEF EditRows
<1>6. changes' \in 0..MaxChanges
  BY <1>1, ChangeCount
<1>7. WorldOK' /\ CountersOK' /\ CacheFits'
  BY <1>1, <1>2, <1>6 DEF Inv, WorldOK, CountersOK, CacheFits, Current, GeomsOf,
                          ColumnsOf, ShapeOf, NamesakeOf, Complete
<1>8. RequestsOK'
  BY <1>3, <1>4, <1>5 DEF RequestsOK
<1> QED BY <1>1, <1>3, <1>7, <1>8, StayKeepsPools DEF Inv, Stay

LEMMA OlderFits ==
    ASSUME NEW m \in 0..TTL, NEW n \in 0..TTL
    PROVE  Older(n) \in 0..TTL /\ (m <= n => Older(m) <= Older(n))
BY TTLRange DEF Older

LEMMA TickKeepsInv == ASSUME Inv, Tick PROVE Inv'
<1>1. /\ UNCHANGED << resource, store, shape, namesake, rows, changes, pools, created, req, faults >>
      /\ quiet' = Older(quiet) /\ quiet \in 0..TTL
  BY DEF Tick, Inv, WorldOK
<1>2. WorldOK' /\ CountersOK' /\ RequestsOK'
  <2>1. \A l : /\ Current(l)' = Current(l) /\ Complete(l)' = Complete(l)
               /\ GeomsOf(l)' = GeomsOf(l) /\ ColumnsOf(l)' = ColumnsOf(l)
    BY <1>1 DEF Current, GeomsOf, ColumnsOf, ShapeOf, NamesakeOf, Complete
  <2>2. WorldOK' /\ CountersOK'
    BY <1>1, OlderFits DEF Inv, WorldOK, CountersOK
  <2>3. RequestsOK'
    BY <1>1, <2>1 DEF Inv, RequestsOK, Formed, Fits
  <2> QED BY <2>2, <2>3
<1>3. CacheFits'
  <2>1. cache \in [kept : BOOLEAN, layer : Layer, age : 0..TTL, torn : BOOLEAN, behind : BOOLEAN]
    BY DEF Inv, CacheFits
  <2>2. cache' = [cache EXCEPT !.age = IF cache.kept THEN Older(@) ELSE @]
    BY DEF Tick
  <2>3. /\ cache'.kept = cache.kept /\ cache'.layer = cache.layer
        /\ cache'.torn = cache.torn /\ cache'.behind = cache.behind
        /\ cache'.age = IF cache.kept THEN Older(cache.age) ELSE cache.age
    BY <2>1, <2>2
  <2>4. cache' \in [kept : BOOLEAN, layer : Layer, age : 0..TTL, torn : BOOLEAN, behind : BOOLEAN]
    <3>1. Older(cache.age) \in 0..TTL
      BY <2>1, OlderFits
    <3> QED BY <2>1, <2>2, <3>1
  <2>5. cache.kept /\ quiet <= cache.age => quiet' <= cache'.age
    BY <1>1, <2>1, <2>3, OlderFits
  <2> QED BY <1>1, <2>3, <2>4, <2>5 DEF Inv, CacheFits, Current, GeomsOf, ColumnsOf,
                                         ShapeOf, NamesakeOf, Complete
<1>4. PoolsCounted'
  BY <1>1, StayKeepsPools DEF Stay
<1> QED BY <1>2, <1>3, <1>4 DEF Inv
-----------------------------------------------------------------------------
LEMMA InitInv == ASSUME Init PROVE Inv
<1>1. req = [r \in Requests |-> Idle] /\ cache = NoEntry /\ pools = {}
      /\ created = [d \in Dsns |-> 0] /\ faults = MaxFaults /\ changes = MaxChanges /\ quiet = TTL
  BY DEF Init
<1>2. WorldOK
  <2>1. changes \in 0..MaxChanges
    BY <1>1, BoundsAssumption
  <2> QED BY <1>1, <2>1, TTLRange DEF Init, WorldOK
<1>3. CountersOK
  <2>1. faults \in 0..MaxFaults
    BY <1>1, BoundsAssumption
  <2> QED BY <1>1, <2>1 DEF CountersOK
<1>4. RequestsOK
  BY <1>1, IdleFormed DEF RequestsOK, Formed
<1>5. CacheFits
  <2>1. NoLayer \in Layer
    BY DEF NoLayer, Layer
  <2> QED BY <1>1, <2>1, TTLRange DEF NoEntry, CacheFits
<1>6. PoolsCounted
  <2>1. \A d \in Dsns : Creating(d) = {}
    BY <1>1, IdleFormed DEF Creating
  <2>2. Cardinality({}) = 0 /\ Cardinality(Requests) \in Nat
    BY FiniteAssumption, FS_EmptySet, FS_CardinalityType
  <2> QED BY <1>1, <2>1, <2>2 DEF PoolsCounted
<1> QED BY <1>2, <1>3, <1>4, <1>5, <1>6 DEF Inv

LEMMA NextInv == ASSUME Inv, [Next]_vars PROVE Inv'
<1>1. CASE UNCHANGED vars
  <2>1. WorldOK' /\ CountersOK'
    BY <1>1 DEF vars, world, Inv, WorldOK, CountersOK
  <2>2. \A l : /\ Current(l)' = Current(l)
               /\ GeomsOf(l)' = GeomsOf(l) /\ ColumnsOf(l)' = ColumnsOf(l)
    BY <1>1 DEF vars, world, Current, GeomsOf, ColumnsOf, ShapeOf, NamesakeOf
  <2>3. RequestsOK'
    BY <1>1, <2>2 DEF vars, world, Inv, RequestsOK, Formed, Fits
  <2>4. CacheFits'
    BY <1>1, <2>2 DEF vars, world, Inv, CacheFits
  <2>5. PoolsCounted'
    BY <1>1 DEF vars, Inv, PoolsCounted, Creating
  <2> QED BY <2>1, <2>3, <2>4, <2>5 DEF Inv
<1> QED BY <1>1, RequestKeepsInv, ChangeKeepsInv, EditKeepsInv, TickKeepsInv DEF Next

THEOREM Invariance == Spec => []Inv
BY InitInv, NextInv, PTL DEF Spec

(* Whatever requests, changes and failures there are, the state keeps its  *)
(* form, and a layer that is kept, or in use, has its table, its database  *)
(* and its geometry (Resolve).                                             *)
THEOREM WfsReadsTypeCorrect == Spec => []TypeOK
BY Invariance, InvImpliesTypeOK, PTL

(* Of no database more pools are created than there are requests at a time *)
(* (poolFor).                                                              *)
THEOREM PoolsStayFew == Spec => []PoolsBounded
<1>1. ASSUME Inv PROVE PoolsBounded
  <2> SUFFICES ASSUME NEW d \in Dsns PROVE created[d] <= Cardinality(Requests)
    BY DEF PoolsBounded
  <2>1. created[d] + Cardinality(Creating(d)) <= Cardinality(Requests) /\ created[d] \in Nat
    BY <1>1 DEF Inv, PoolsCounted, CountersOK
  <2>2. Cardinality(Creating(d)) \in Nat /\ Cardinality(Requests) \in Nat
    BY CreatingCount DEF Creating
  <2> QED BY <2>1, <2>2
<1> QED BY <1>1, Invariance, PTL
-----------------------------------------------------------------------------
Acts(r) == Arrive(r) \/ Proceed(r) \/ Leave(r) \/ LosePage(r) \/ StatementFails(r)

(* A step changes at most the place of the request that takes it.          *)
LEMMA OthersStay ==
    ASSUME Inv, NEW r \in Requests, Acts(r), NEW q \in Requests, q # r
    PROVE  req'[q] = req[q]
<1>1. \E new : Moves(r, new)
  BY LookMoves, TableMoves, PoolMoves, KeepMoves, UseMoves DEF Acts, Proceed
<1> QED BY <1>1 DEF Moves, Become, Inv, RequestsOK

LEMMA WhoActs ==
    ASSUME Inv, [Next]_vars, NEW r \in Requests
    PROVE  \/ req'[r].pc = req[r].pc /\ req'[r].answer = req[r].answer
           \/ Acts(r)
<1>1. CASE \E q \in Requests : Acts(q)
  BY <1>1, OthersStay
<1>2. CASE ChangeCatalog \/ ChangeTable \/ EditRows
  <2>1. req[r] \in Request
    BY DEF Inv, RequestsOK
  <2>2. CASE EditRows
    <3>1. req'[r] = [req[r] EXCEPT !.edited = @ \/ req[r].pc = "query"]
      BY <2>2 DEF EditRows
    <3> QED BY <2>1, <3>1 DEF Request
  <2>3. CASE ChangeCatalog \/ ChangeTable
    <3>1. req'[r] = [req[r] EXCEPT
             !.torn = @ \/ req[r].pc \in Resolving \ {"cache", "resource"},
             !.behind = @ \/ req[r].pc \in {"parse", "count", "query", "rows"},
             !.edited = @ \/ req[r].pc = "query"]
      BY <2>3 DEF ChangeCatalog, ChangeTable, Tear
    <3> QED BY <2>1, <3>1 DEF Request
  <2> QED BY <1>2, <2>2, <2>3
<1>3. CASE Tick \/ UNCHANGED vars
  BY <1>3 DEF Tick, vars
<1> QED BY <1>1, <1>2, <1>3 DEF Next, Acts

(* A layer taken from the cache was current at some moment of the last     *)
(* minute, unless a change tore it while it was read (Resolve).            *)
THEOREM LayersAreFresh == Spec => HitsAreFresh
<1>1. ASSUME Inv, [Next]_vars, NEW r \in Requests, Hit(r), quiet = TTL, ~cache.torn
      PROVE  Current(req'[r].layer)
  <2>0. DOMAIN req = Requests
    BY <1>1 DEF Inv, RequestsOK
  <2>1. req[r] \in Request /\ req[r].pc = "cache" /\ req'[r].pc = "parse"
    BY <1>1 DEF Inv, RequestsOK, Hit
  <2>2. Acts(r)
    BY <1>1, <2>1, WhoActs
  <2>3. Lookup(r)
    BY <2>1, <2>2 DEF Acts, Proceed, Arrive, Leave, LosePage, StatementFails, ReadResource,
          ReadStore, FindPool, CreatePool, ReadGeometry, ReadColumns, Keep, Parse, CountMatched,
          RunQuery, SendPage, Resolving
  <2>4. CASE cache.kept /\ cache.age < TTL
    <3>1. req'[r].layer = cache.layer
      <4>1. req'[r] = [req[r] EXCEPT !.pc = "parse", !.layer = cache.layer,
                                     !.behind = cache.behind]
        BY <2>0, <2>3, <2>4 DEF Lookup, Become
      <4> QED BY <2>1, <4>1 DEF Request
    <3>2. cache.age \in 0..TTL /\ cache.behind \in BOOLEAN
          /\ (cache.behind => quiet <= cache.age)
          /\ (~cache.behind => Current(cache.layer))
      BY <1>1, <2>4 DEF Inv, CacheFits
    <3>3. ~(TTL <= cache.age)
      BY <2>4, <3>2, TTLRange
    <3> QED BY <1>1, <3>1, <3>2, <3>3
  <2>5. CASE ~(cache.kept /\ cache.age < TTL)
    <3>1. req'[r].pc = "resource"
      <4>1. req'[r] = [req[r] EXCEPT !.pc = "resource"]
        BY <2>0, <2>3, <2>5 DEF Lookup, Step, Become
      <4> QED BY <2>1, <4>1 DEF Request
    <3> QED BY <2>1, <3>1
  <2> QED BY <2>4, <2>5
<1>2. ASSUME Inv, [Next]_vars
      PROVE  [\A r \in Requests :
                Hit(r) /\ quiet = TTL /\ ~cache.torn => Current(req'[r].layer)]_vars
  BY <1>1, <1>2
<1> QED BY <1>2, Invariance, PTL DEF HitsAreFresh, Spec

(* The columns a current layer names are those the table has, if no other  *)
(* table has its name.                                                     *)
LEMMA CurrentRuns ==
    ASSUME NEW l \in Layer, Current(l), Complete(l), NamesakeOf(l) = NoTable
    PROVE  AllOf(ShapeOf(l)) = l.cols \cup {l.geom}
<1>1. NamesakeOf(l).geom = "" /\ NamesakeOf(l).cols = {}
  <2>1. NoTable.geom = "" /\ NoTable.cols = {}
    BY DEF NoTable
  <2> QED BY <2>1
<1>2. GeomsOf(l) = {ShapeOf(l).geom} \ {""} /\ ColumnsOf(l) = AllOf(ShapeOf(l))
  BY <1>1 DEF GeomsOf, ColumnsOf, AllOf
<1>3. l.geom \in GeomsOf(l) /\ l.cols = ColumnsOf(l) \ {l.geom}
  BY DEF Current
<1>4. l.geom \in AllOf(ShapeOf(l))
  BY <1>2, <1>3 DEF AllOf
<1> QED BY <1>2, <1>3, <1>4

(* A request that asks for columns its layer has, by names qi lets into    *)
(* statements, of a table whose name no other schema has, fails only when  *)
(* a call fails, or the layer is behind (getFeature).                      *)
THEOREM RefusalsHaveACause == Spec => RefusedOnlyIfChanged
<1>1. ASSUME Inv, [Next]_vars, NEW r \in Requests,
             Fails(r), AsksForItsColumns(r), ~req[r].behind,
             NamesakeOf(req[r].layer) = NoTable, Spelled(req[r].layer, req[r].q)
      PROVE  faults' < faults
  <2> DEFINE l == req[r].layer
             q == req[r].q
  <2>1. req[r] \in Request /\ Formed(req[r]) /\ Fits(req[r]) /\ DOMAIN req = Requests
    BY <1>1 DEF Inv, RequestsOK
  <2>2. req[r].answer = "" /\ req'[r].answer \in {"500", "broken"} /\ req[r].pc # "done"
    BY <1>1, <2>1 DEF Formed, Fails
  <2>3. Acts(r)
    BY <1>1, <2>2, WhoActs
  <2>4. ASSUME Fault PROVE faults' < faults
    <3>1. faults \in 0..MaxFaults
      BY <1>1 DEF Inv, CountersOK
    <3>2. \A n \in 0..MaxFaults : n - 1 < n
      BY BoundsAssumption
    <3> QED BY <2>4, <3>1, <3>2 DEF Fault
  <2>5. CASE StatementFails(r) \/ LosePage(r)
    BY <2>4, <2>5 DEF StatementFails, LosePage
  <2>6. ASSUME req[r].pc \in Using
        PROVE  /\ AllOf(ShapeOf(l)) = l.cols \cup {l.geom} /\ AllOf(ShapeOf(l)) # {}
               /\ Where(q).cols \cup Selected(l, q) \cup SortColumns(q) \subseteq AllOf(ShapeOf(l))
               /\ Selects(l, q)
    <3>1. Current(l) /\ Complete(l) /\ l \in Layer
      BY <1>1, <2>1, <2>6 DEF Fits, Formed, Request, Layer
    <3>2. AllOf(ShapeOf(l)) = l.cols \cup {l.geom}
      BY <1>1, <3>1, CurrentRuns
    <3> QED BY <1>1, <3>2 DEF AsksForItsColumns
  <2>7. ASSUME NEW x, Become(r, x), x.answer \notin {"500", "broken"} PROVE FALSE
    BY <2>1, <2>2, <2>7 DEF Become
  <2>8. CASE CountMatched(r)
    <3>1. Runs(l, Where(q).cols) /\ l.table \in Idents
      BY <1>1, <2>6, <2>8 DEF CountMatched, Runs, Using, Spelled
    <3>2. \/ Sent(r, "hits", {})
          \/ \E n : Become(r, [req[r] EXCEPT !.pc = "query", !.matched = n])
      BY <2>8, <3>1 DEF CountMatched, Answered
    <3> QED BY <2>1, <2>2, <2>7, <3>2 DEF Sent, Request
  <2>9. CASE RunQuery(r)
    <3>1. Runs(l, Where(q).cols \cup Selected(l, q) \cup SortColumns(q)) /\ Selects(l, q)
      BY <2>6, <2>9 DEF RunQuery, Runs, Using
    <3>2. \E page : Become(r, [req[r] EXCEPT !.pc = "rows", !.page = page])
      BY <1>1, <2>9, <3>1 DEF RunQuery
    <3> QED BY <2>1, <2>2, <2>7, <3>2 DEF Request
  <2>10. CASE SendPage(r)
    <3>1. Sent(r, "page", req[r].page)
      BY <2>10 DEF SendPage
    <3> QED BY <2>1, <2>7, <3>1 DEF Sent, Request
  <2>11. CASE Parse(r)
    <3>1. \/ Sent(r, "described", {}) \/ Sent(r, "400", {})
          \/ \E p : Become(r, [req[r] EXCEPT !.q = p, !.pc = "count"])
      BY <2>11 DEF Parse, Answered
    <3> QED BY <2>1, <2>2, <2>7, <3>1 DEF Sent, Request
  <2>12. CASE Arrive(r) \/ Leave(r)
    <3>1. Become(r, Idle) \/ Step(r, "cache")
      BY <2>12 DEF Arrive, Leave
    <3> QED BY <2>1, <2>2, <2>7, <3>1 DEF Step, Request, Idle
  <2>13. CASE Lookup(r) \/ ReadResource(r) \/ ReadStore(r)
    <3>1. \/ \E pc : Step(r, pc)
          \/ Sent(r, "400", {})
          \/ \E c, b : Become(r, [req[r] EXCEPT !.pc = "parse", !.layer = c, !.behind = b])
          \/ \E t : Become(r, [req[r] EXCEPT !.pc = "store", !.layer.table = t])
          \/ \E d : Become(r, [req[r] EXCEPT !.pc = "pool", !.layer.dsn = d])
      BY <2>13 DEF Lookup, ReadResource, ReadStore, Answered
    <3> QED BY <2>1, <2>2, <2>7, <3>1 DEF Step, Sent, Request
  <2>14. CASE FindPool(r) \/ CreatePool(r) \/ ReadGeometry(r) \/ ReadColumns(r) \/ Keep(r)
    <3>1. \/ \E pc : Step(r, pc)
          \/ Sent(r, "400", {})
          \/ \E g : Become(r, [req[r] EXCEPT !.pc = "columns", !.layer.geom = g])
          \/ \E c : Become(r, [req[r] EXCEPT !.pc = "keep", !.layer.cols = c])
          \/ \E b : Become(r, [req[r] EXCEPT !.pc = "parse", !.torn = FALSE, !.behind = b])
      BY <2>14 DEF FindPool, CreatePool, ReadGeometry, ReadColumns, Keep, Answered
    <3> QED BY <2>1, <2>2, <2>7, <3>1 DEF Step, Sent, Request
  <2> QED BY <2>3, <2>5, <2>8, <2>9, <2>10, <2>11, <2>12, <2>13, <2>14 DEF Acts, Proceed
<1>2. ASSUME Inv, [Next]_vars
      PROVE  [\A r \in Requests :
                /\ Fails(r) /\ AsksForItsColumns(r) /\ ~req[r].behind
                /\ NamesakeOf(req[r].layer) = NoTable /\ Spelled(req[r].layer, req[r].q)
                => faults' < faults]_vars
  BY <1>1, <1>2
<1> QED BY <1>2, Invariance, PTL DEF RefusedOnlyIfChanged, Spec
-----------------------------------------------------------------------------
(* Lists of filters.                                                       *)

LEMMA Least ==
    ASSUME NEW T, T \subseteq Nat, T # {}
    PROVE  \E n \in T : \A m \in T : n <= m
<1>1. PICK n \in T : \A m \in T : << m, n >> \notin OpToRel(<, Nat)
  BY NatLessThanWellFounded, WFMin
<1>2. \A m \in T : ~(m < n)
  BY <1>1 DEF OpToRel
<1> QED BY <1>2

(* Filters joined one after the other select what each of them selects.    *)
Within(S, given) == {x \in Features : \A i \in S : x \in given[i].sel}
ColsOf(S, given) == UNION {given[i].cols : i \in S}
JoinOf(S, given) ==
    [cols |-> ColsOf(S, given), sel |-> Within(S, given), bad |-> FALSE]

Joins(g, given) ==
    g = [S \in SUBSET DOMAIN given |->
           IF S = {} THEN NoFilter ELSE AndExpr(g[S \ {Max(S)}], given[Max(S)])]
Joined(given) == CHOOSE g : Joins(g, given)

LEMMA FoldIsJoined ==
    ASSUME NEW given
    PROVE  FoldLeft(AndExpr, NoFilter, given) = Joined(given)[DOMAIN given]
BY DEF FoldLeft, MapThenFoldSet, Joined, Joins

LEMMA MaxFacts ==
    ASSUME NEW N \in Nat, NEW S, S \subseteq 1..N, S # {}
    PROVE  Max(S) \in S /\ \A i \in S : i <= Max(S)
<1> DEFINE T == {k \in Nat : N - k \in S}
<1>1. T \subseteq Nat /\ T # {}
  <2>1. PICK i \in S : TRUE
    OBVIOUS
  <2>2. N - i \in Nat /\ N - (N - i) = i
    BY <2>1
  <2> QED BY <2>1, <2>2
<1>2. PICK k \in T : \A m \in T : k <= m
  <2> HIDE DEF T
  <2> QED BY <1>1, Least
<1>3. N - k \in S /\ k \in Nat
  BY <1>2
<1>4. ASSUME NEW i \in S PROVE N - k >= i
  <2>1. N - i \in Nat /\ N - (N - i) = i
    OBVIOUS
  <2>2. N - i \in T
    BY <2>1
  <2>3. k <= N - i
    BY <1>2, <2>2
  <2> QED BY <1>3, <2>1, <2>3
<1>5. \E x \in S : \A y \in S : x >= y
  BY <1>3, <1>4
<1>6. Max(S) \in S /\ \A y \in S : Max(S) >= y
  BY <1>5 DEF Max
<1> QED BY <1>6

LEMMA JoinOfNone ==
    ASSUME NEW given PROVE JoinOf({}, given) = NoFilter
BY DEF JoinOf, ColsOf, Within, NoFilter

LEMMA JoinOfMore ==
    ASSUME NEW given \in Seq(Filter), NEW S \in SUBSET DOMAIN given, NEW m \in S
    PROVE  JoinOf(S, given) = AndExpr(JoinOf(S \ {m}, given), given[m])
<1>1. given[m] \in Filter /\ given[m].sel \subseteq Features
  <2>1. m \in DOMAIN given /\ given[m] \in Filter
    OBVIOUS
  <2> QED BY <2>1 DEF Filter
<1>2. ColsOf(S, given) = ColsOf(S \ {m}, given) \cup given[m].cols
  <2>1. \A c, U : c \in ColsOf(U, given) <=> \E i \in U : c \in given[i].cols
    BY DEF ColsOf
  <2> QED BY <2>1
<1>3. Within(S, given) = Within(S \ {m}, given) \cap given[m].sel
  BY <1>1 DEF Within
<1> QED BY <1>2, <1>3 DEF JoinOf, AndExpr

LEMMA JoinedFacts ==
    ASSUME NEW given \in Seq(Filter)
    PROVE  FoldLeft(AndExpr, NoFilter, given) = JoinOf(DOMAIN given, given)
<1> DEFINE N == Len(given)
           D == DOMAIN given
           f == [S \in SUBSET D |-> JoinOf(S, given)]
           g == Joined(given)
<1>1. N \in Nat /\ D = 1..N
  OBVIOUS
<1>2. ASSUME NEW S \in SUBSET D, S # {}
      PROVE  /\ Max(S) \in S /\ S \ {Max(S)} \in SUBSET D
             /\ \A i \in S : i <= Max(S)
  BY <1>1, <1>2, MaxFacts
<1>3. Joins(f, given)
  <2>1. ASSUME NEW S \in SUBSET D
        PROVE  f[S] = IF S = {} THEN NoFilter ELSE AndExpr(f[S \ {Max(S)}], given[Max(S)])
    BY <1>2, JoinOfNone, JoinOfMore
  <2>2. f = [S \in SUBSET D |-> f[S]]
    OBVIOUS
  <2> HIDE DEF f
  <2> QED BY <2>1, <2>2 DEF Joins
<1>4. Joins(g, given)
  BY <1>3 DEF Joined
<1>5. \A S \in SUBSET D :
        g[S] = IF S = {} THEN NoFilter ELSE AndExpr(g[S \ {Max(S)}], given[Max(S)])
  <2> HIDE DEF g
  <2> QED BY <1>4 DEF Joins
<1> HIDE DEF g
<1>6. \A n \in Nat : n <= N => g[1..n] = f[1..n]
  <2> DEFINE T == {n \in Nat : n <= N /\ g[1..n] # f[1..n]}
  <2> SUFFICES ASSUME T # {} PROVE FALSE
    OBVIOUS
  <2>1. PICK n \in T : \A m \in T : n <= m
    <3>1. T \subseteq Nat
      OBVIOUS
    <3> HIDE DEF T
    <3> QED BY <3>1, Least
  <2>2. 1..n \in SUBSET D /\ n \in Nat
    BY <1>1, <2>1
  <2>3. n # 0
    <3>1. 1..0 = {} /\ f[{}] = NoFilter
      BY JoinOfNone
    <3>2. g[{}] = NoFilter
      BY <1>5
    <3> QED BY <2>1, <3>1, <3>2
  <2>4. n - 1 \in Nat /\ n - 1 \notin T
    <3>1. n - 1 \in Nat /\ ~(n <= n - 1)
      BY <2>2, <2>3
    <3> HIDE DEF T
    <3> QED BY <2>1, <3>1
  <2>5. g[1..(n - 1)] = f[1..(n - 1)]
    BY <1>1, <2>1, <2>4
  <2>6. 1..n # {} /\ Max(1..n) = n /\ (1..n) \ {n} = 1..(n - 1)
    <3>1. n \in 1..n
      BY <2>2, <2>3
    <3>2. Max(1..n) \in 1..n /\ n <= Max(1..n)
      BY <1>2, <2>2, <3>1
    <3> QED BY <2>2, <3>1, <3>2
  <2>7. g[1..n] = AndExpr(f[1..(n - 1)], given[n])
    BY <1>5, <2>2, <2>5, <2>6
  <2>8. f[1..n] = AndExpr(f[1..(n - 1)], given[n])
    <3>1. 1..(n - 1) \in SUBSET D /\ n \in 1..n
      BY <2>2, <2>6, <2>3
    <3>2. f[1..n] = JoinOf(1..n, given) /\ f[1..(n - 1)] = JoinOf(1..(n - 1), given)
      BY <2>2, <3>1
    <3>3. JoinOf(1..n, given) = AndExpr(JoinOf((1..n) \ {n}, given), given[n])
      BY <2>2, <3>1, JoinOfMore
    <3> QED BY <2>6, <3>2, <3>3
  <2> QED BY <2>1, <2>7, <2>8
<1>7. g[D] = JoinOf(D, given)
  <2>1. f[D] = JoinOf(D, given)
    OBVIOUS
  <2> HIDE DEF f, D, N
  <2>2. g[1..N] = f[1..N]
    BY <1>1, <1>6
  <2> QED BY <1>1, <2>1, <2>2
<1> QED BY <1>7, FoldIsJoined DEF g

(* What is found is selected by every filter that is in force.             *)
LEMMA WhereSelects ==
    ASSUME NEW q \in Query
    PROVE  /\ Where(q).sel \subseteq Features
           /\ \A i \in DOMAIN q.given : Where(q).sel \subseteq q.given[i].sel
           /\ ~q.grant.bad => Where(q).sel \subseteq q.grant.sel
<1> DEFINE given == FoldLeft(AndExpr, NoFilter, q.given)
<1>1. given = JoinOf(DOMAIN q.given, q.given)
  BY JoinedFacts DEF Query
<1> HIDE DEF given
<1>2. given.sel \subseteq Features /\ \A i \in DOMAIN q.given : given.sel \subseteq q.given[i].sel
  BY <1>1 DEF JoinOf, Within
<1>3. Where(q) = IF q.grant.bad THEN given ELSE AndExpr(given, q.grant)
  BY DEF Where, given
<1> QED BY <1>2, <1>3 DEF AndExpr
-----------------------------------------------------------------------------
(* The rows of a page by their places.                                     *)
Ahead(x, found, q) == {y \in found : Before(y, x, q)}
Place(found, q) == [x \in found |-> Cardinality(Ahead(x, found, q))]
Sorted(found, q) == {x \in found : InPage(Cardinality(Ahead(x, found, q)), q)}
Places(n, q) == {k \in 0..(n - 1) : InPage(k, q)}

Want(n, q) ==
    LET rest == IF n > q.offset THEN n - q.offset ELSE 0
    IN IF q.limit # 0 /\ q.limit < rest THEN q.limit ELSE rest

LEMMA PagesAsSorted ==
    ASSUME NEW found, NEW q, NEW page \in Pages(found, q)
    PROVE  page \subseteq found /\ Cardinality(page) = Cardinality(Sorted(found, q))
BY DEF Pages, Sorted, Ahead

(* Each row has a place of its own, and every place is taken.              *)
LEMMA PlacesAreTaken ==
    ASSUME NEW found \in SUBSET Features, NEW q
    PROVE  Place(found, q) \in Bijection(found, 0..(Cardinality(found) - 1))
<1> DEFINE n == Cardinality(found)
           place == Place(found, q)
<1>1. IsFiniteSet(found) /\ n \in Nat
  BY FiniteAssumption, FS_Subset, FS_CardinalityType
<1>2. /\ \A x \in found : ~Before(x, x, q)
      /\ \A x, y, z \in found : Before(x, y, q) /\ Before(y, z, q) => Before(x, z, q)
      /\ \A x, y \in found : x = y \/ Before(x, y, q) \/ Before(y, x, q)
  <2>1. \A x \in found : x \in Int
    BY KeysAssumption
  <2> QED BY <2>1 DEF Before
<1>3. ASSUME NEW x \in found
      PROVE  /\ IsFiniteSet(Ahead(x, found, q)) /\ Cardinality(Ahead(x, found, q)) \in 0..(n - 1)
             /\ place[x] = Cardinality(Ahead(x, found, q))
  <2>1. Ahead(x, found, q) \subseteq found /\ x \notin Ahead(x, found, q)
    BY <1>2 DEF Ahead
  <2>2. /\ IsFiniteSet(Ahead(x, found, q)) /\ Cardinality(Ahead(x, found, q)) <= n
        /\ Cardinality(Ahead(x, found, q)) \in Nat
    BY <1>1, <2>1, FS_Subset, FS_CardinalityType
  <2>3. Cardinality(Ahead(x, found, q)) # n
    BY <1>1, <2>1, FS_Subset
  <2>4. place[x] = Cardinality(Ahead(x, found, q))
    BY DEF Place
  <2> QED BY <1>1, <2>2, <2>3, <2>4
<1>4. ASSUME NEW x \in found, NEW y \in found, Before(x, y, q) PROVE place[x] < place[y]
  <2>1. Ahead(x, found, q) \subseteq Ahead(y, found, q)
    BY <1>2, <1>4 DEF Ahead
  <2>2. Ahead(x, found, q) # Ahead(y, found, q)
    BY <1>2, <1>4 DEF Ahead
  <2>3. /\ Cardinality(Ahead(x, found, q)) <= Cardinality(Ahead(y, found, q))
        /\ Cardinality(Ahead(x, found, q)) # Cardinality(Ahead(y, found, q))
    BY <1>3, <2>1, <2>2, FS_Subset
  <2> QED BY <1>1, <1>3, <2>3
<1>5. place = [x \in found |-> place[x]]
  BY DEF Place
<1> HIDE DEF place
<1>6. place \in [found -> 0..(n - 1)]
  BY <1>3, <1>5
<1>7. ASSUME NEW x \in found, NEW y \in found, place[x] = place[y] PROVE x = y
  <2>1. place[x] \in Int /\ ~Before(x, y, q) /\ ~Before(y, x, q)
    BY <1>1, <1>3, <1>4, <1>7
  <2> QED BY <1>2, <2>1
<1>8. place \in Injection(found, 0..(n - 1))
  BY <1>6, <1>7 DEF Injection, IsInjective
<1>9. IsFiniteSet(0..(n - 1)) /\ Cardinality(0..(n - 1)) = n
  BY <1>1, FS_Interval
<1>10. place \in Surjection(found, 0..(n - 1))
  BY <1>1, <1>8, <1>9, FS_Injection
<1> QED BY <1>8, <1>10 DEF Bijection, place

LEMMA PlacesCount ==
    ASSUME NEW n \in Nat, NEW q \in Query
    PROVE  IsFiniteSet(Places(n, q)) /\ Cardinality(Places(n, q)) = Want(n, q)
<1>1. q.offset \in Nat /\ q.limit \in Nat
  BY DEF Query
<1> DEFINE hi == IF q.limit # 0 /\ q.offset + q.limit < n THEN q.offset + q.limit - 1 ELSE n - 1
<1>2. hi \in Int /\ hi <= n - 1
  BY <1>1
<1>3. Places(n, q) = q.offset..hi
  BY <1>1 DEF Places, InPage
<1>4. Want(n, q) = IF q.offset > hi THEN 0 ELSE hi - q.offset + 1
  BY <1>1 DEF Want
<1> HIDE DEF hi
<1>5. /\ IsFiniteSet(q.offset..hi)
      /\ Cardinality(q.offset..hi) = IF q.offset > hi THEN 0 ELSE hi - q.offset + 1
  <2>1. \A a, b \in Int : IsFiniteSet(a..b) /\ Cardinality(a..b) = IF a > b THEN 0 ELSE b - a + 1
    BY FS_Interval
  <2>2. q.offset \in Int
    BY <1>1
  <2> QED BY <1>2, <2>1, <2>2
<1> QED BY <1>3, <1>4, <1>5

(* A page has as many rows as the matches leave for it.                    *)
LEMMA PageCount ==
    ASSUME NEW found \in SUBSET Features, NEW q \in Query, NEW page \in Pages(found, q)
    PROVE  page \subseteq found /\ Cardinality(page) = Want(Cardinality(found), q)
<1> DEFINE n == Cardinality(found)
           place == Place(found, q)
           sorted == Sorted(found, q)
           f == [x \in sorted |-> place[x]]
<1>1. page \subseteq found /\ Cardinality(page) = Cardinality(sorted)
  BY PagesAsSorted
<1>2. n \in Nat /\ IsFiniteSet(sorted) /\ sorted \subseteq found
  <2>1. IsFiniteSet(found) /\ sorted \subseteq found
    BY FiniteAssumption, FS_Subset DEF Sorted
  <2> QED BY <2>1, FS_Subset, FS_CardinalityType
<1>3. /\ \A x \in found : place[x] \in 0..(n - 1)
      /\ \A x, y \in found : place[x] = place[y] => x = y
      /\ \A k \in 0..(n - 1) : \E x \in found : place[x] = k
  BY PlacesAreTaken DEF Bijection, Injection, IsInjective, Surjection
<1>4. \A x \in found : x \in sorted <=> InPage(place[x], q)
  BY DEF Sorted, Place
<1> HIDE DEF place, sorted, n
<1>5. f \in [sorted -> Places(n, q)]
  BY <1>2, <1>3, <1>4 DEF Places
<1>6. \A x, y \in sorted : f[x] = f[y] => x = y
  BY <1>2, <1>3
<1>7. \A k \in Places(n, q) : \E x \in sorted : f[x] = k
  BY <1>3, <1>4 DEF Places
<1> HIDE DEF f
<1>8. f \in Bijection(sorted, Places(n, q))
  BY <1>5, <1>6, <1>7 DEF Bijection, Injection, IsInjective, Surjection
<1>9. Cardinality(sorted) = Cardinality(Places(n, q))
  <2>1. ExistsBijection(sorted, Places(n, q))
    BY <1>8 DEF ExistsBijection
  <2> QED BY <1>2, <2>1, FS_Bijection
<1> QED BY <1>1, <1>2, <1>9, PlacesCount DEF n
-----------------------------------------------------------------------------
(* The page of a request.                                                  *)

(* The count is that of the rows as they are until somebody writes; a page *)
(* is as long as the count leaves it, and so is what is sent of it unless  *)
(* the connection breaks.                                                  *)
Paged(x) ==
    /\ x.pc = "query" /\ ~x.edited => x.matched = Cardinality(Found(x.layer, x.q))
    /\ x.pc = "rows" =>
         /\ x.page \subseteq Where(x.q).sel
         /\ ~x.edited => Cardinality(x.page) = Want(x.matched, x.q)
    /\ x.answer \in {"page", "broken"} => x.out \subseteq Where(x.q).sel
    /\ x.answer = "page" /\ x.q.kind # "values" /\ ~x.edited =>
         Cardinality(x.out) = Want(x.matched, x.q)
AllPaged == \A r \in Requests : Paged(req[r])

Quiet(x) == x.pc \notin {"query", "rows"} /\ x.answer \notin {"page", "broken"}

LEMMA IdleIsQuiet == Idle.pc = "idle" /\ Idle.answer = ""
BY DEF Idle

LEMMA BecomePaged ==
    ASSUME Inv, AllPaged, UNCHANGED rows, NEW r \in Requests, NEW new, Become(r, new),
           Paged(new) \/ Quiet(new)
    PROVE  AllPaged'
<1>1. \A q \in Requests : req'[q] = IF q = r THEN new ELSE req[q]
  BY DEF Inv, RequestsOK, Become
<1>2. \A x : Paged(x)' <=> Paged(x)
  <2>1. \A x : Found(x.layer, x.q)' = Found(x.layer, x.q)
    BY DEF Found
  <2> QED BY <2>1 DEF Paged
<1>3. Paged(new)
  BY DEF Paged, Quiet
<1>4. \A q \in Requests : Paged(req'[q])
  BY <1>1, <1>3 DEF AllPaged
<1>5. \A q \in Requests : Paged(req[q])'
  <2>1. \A x : Found(x.layer, x.q)' = Found(x.layer, x.q)
    BY DEF Found
  <2> QED BY <1>4, <2>1 DEF Paged
<1> QED BY <1>5 DEF AllPaged

LEMMA SentPaged ==
    ASSUME Inv, AllPaged, UNCHANGED rows, NEW r \in Requests, NEW a \in Answers, NEW S,
           Sent(r, a, S),
           a \in {"page", "broken"} => S \subseteq Where(req[r].q).sel,
           a = "page" /\ req[r].q.kind # "values" /\ ~req[r].edited =>
             Cardinality(S) = Want(req[r].matched, req[r].q)
    PROVE  AllPaged'
<1> DEFINE new == [req[r] EXCEPT !.pc = "done", !.answer = a, !.out = S, !.layer = NoLayer,
                                 !.torn = FALSE, !.behind = FALSE, !.page = {}]
<1>1. req[r] \in Request
  BY DEF Inv, RequestsOK
<1>2. /\ new.pc = "done" /\ new.answer = a /\ new.out = S /\ new.q = req[r].q
      /\ new.matched = req[r].matched /\ new.edited = req[r].edited
  BY <1>1 DEF Request
<1>3. Become(r, new)
  BY DEF Sent
<1> HIDE DEF new
<1>4. Paged(new)
  BY <1>2 DEF Paged
<1> QED BY <1>3, <1>4, BecomePaged

(* Until it counts, a request shows nothing.                               *)
LEMMA ResolvingIsQuiet ==
    ASSUME Inv, NEW r \in Requests,
           \/ Arrive(r) \/ Lookup(r) \/ ReadResource(r) \/ ReadStore(r) \/ FindPool(r)
           \/ CreatePool(r) \/ ReadGeometry(r) \/ ReadColumns(r) \/ Keep(r) \/ Parse(r)
           \/ Leave(r)
    PROVE  \E new : Become(r, new) /\ Quiet(new)
<1>1. req[r] \in Request /\ (req[r].pc # "done" => req[r].answer = "")
  BY DEF Inv, RequestsOK, Formed
<1>2. ASSUME NEW a \in {"400", "described"}, Sent(r, a, {})
      PROVE  \E new : Become(r, new) /\ Quiet(new)
  <2> DEFINE new == [req[r] EXCEPT !.pc = "done", !.answer = a, !.out = {}, !.layer = NoLayer,
                                   !.torn = FALSE, !.behind = FALSE, !.page = {}]
  <2>1. new.pc = "done" /\ new.answer = a
    BY <1>1 DEF Request
  <2>2. Become(r, new)
    BY <1>2 DEF Sent
  <2> QED BY <2>1, <2>2 DEF Quiet
<1>3. CASE Leave(r)
  <2>1. Become(r, Idle)
    BY <1>3 DEF Leave
  <2> QED BY <2>1, IdleIsQuiet DEF Quiet
<1>4. ASSUME NEW pc \in {"cache", "resource", "geometry", "create"}, Step(r, pc),
             req[r].pc # "done"
      PROVE  \E new : Become(r, new) /\ Quiet(new)
  <2>1. Quiet([req[r] EXCEPT !.pc = pc])
    BY <1>1, <1>4 DEF Request, Quiet
  <2> QED BY <1>4, <2>1 DEF Step
<1>5. CASE Arrive(r)
  BY <1>4, <1>5 DEF Arrive
<1>6. CASE Lookup(r)
  <2>1. req[r].pc = "cache"
    BY <1>6 DEF Lookup
  <2>2. CASE cache.kept /\ cache.age < TTL
    <3> DEFINE new == [req[r] EXCEPT !.pc = "parse", !.layer = cache.layer,
                                     !.behind = cache.behind]
    <3>1. Become(r, new)
      BY <1>6, <2>2 DEF Lookup
    <3>2. Quiet(new)
      BY <1>1, <2>1 DEF Request, Quiet
    <3> QED BY <3>1, <3>2
  <2>3. CASE ~(cache.kept /\ cache.age < TTL)
    BY <1>4, <1>6, <2>1, <2>3 DEF Lookup
  <2> QED BY <2>2, <2>3
<1>7. CASE ReadResource(r)
  <2>1. req[r].pc = "resource"
    BY <1>7 DEF ReadResource
  <2>2. \/ Sent(r, "400", {})
        \/ Become(r, [req[r] EXCEPT !.pc = "store", !.layer.table = resource])
    BY <1>7 DEF ReadResource, Answered
  <2>3. Quiet([req[r] EXCEPT !.pc = "store", !.layer.table = resource])
    BY <1>1, <2>1 DEF Request, Quiet
  <2> QED BY <1>2, <2>2, <2>3
<1>8. CASE ReadStore(r)
  <2>1. req[r].pc = "store"
    BY <1>8 DEF ReadStore
  <2>2. \/ Sent(r, "400", {})
        \/ Become(r, [req[r] EXCEPT !.pc = "pool", !.layer.dsn = store])
    BY <1>8 DEF ReadStore, Answered
  <2>3. Quiet([req[r] EXCEPT !.pc = "pool", !.layer.dsn = store])
    BY <1>1, <2>1 DEF Request, Quiet
  <2> QED BY <1>2, <2>2, <2>3
<1>9. CASE FindPool(r) \/ CreatePool(r)
  BY <1>4, <1>9 DEF FindPool, CreatePool
<1>10. CASE ReadGeometry(r)
  <2>1. req[r].pc = "geometry"
    BY <1>10 DEF ReadGeometry
  <2>2. PICK g : \/ Sent(r, "400", {})
                 \/ Become(r, [req[r] EXCEPT !.pc = "columns", !.layer.geom = g])
    BY <1>10 DEF ReadGeometry, Answered
  <2>3. Quiet([req[r] EXCEPT !.pc = "columns", !.layer.geom = g])
    BY <1>1, <2>1 DEF Request, Quiet
  <2> QED BY <1>2, <2>2, <2>3
<1>11. CASE ReadColumns(r)
  <2> DEFINE c == ColumnsOf(req[r].layer) \ {req[r].layer.geom}
  <2>1. req[r].pc = "columns" /\ Become(r, [req[r] EXCEPT !.pc = "keep", !.layer.cols = c])
    BY <1>11 DEF ReadColumns
  <2>2. Quiet([req[r] EXCEPT !.pc = "keep", !.layer.cols = c])
    BY <1>1, <2>1 DEF Request, Quiet
  <2> QED BY <2>1, <2>2
<1>12. CASE Keep(r)
  <2> DEFINE new == [req[r] EXCEPT !.pc = "parse", !.torn = FALSE, !.behind = req[r].torn]
  <2>1. req[r].pc = "keep" /\ Become(r, new)
    BY <1>12 DEF Keep
  <2>2. Quiet(new)
    BY <1>1, <2>1 DEF Request, Quiet
  <2> QED BY <2>1, <2>2
<1>13. CASE Parse(r)
  <2>1. PICK q \in Asks[r] : \/ Sent(r, "described", {}) \/ Sent(r, "400", {})
                             \/ Become(r, [req[r] EXCEPT !.q = q, !.pc = "count"])
    BY <1>13 DEF Parse, Answered
  <2>2. req[r].pc = "parse"
    BY <1>13 DEF Parse
  <2>3. Quiet([req[r] EXCEPT !.q = q, !.pc = "count"])
    BY <1>1, <2>2 DEF Request, Quiet
  <2> QED BY <1>2, <2>1, <2>3
<1> QED BY <1>3, <1>5, <1>6, <1>7, <1>8, <1>9, <1>10, <1>11, <1>12, <1>13

LEMMA UsePaged ==
    ASSUME Inv, AllPaged, NEW r \in Requests,
           CountMatched(r) \/ RunQuery(r) \/ SendPage(r) \/ LosePage(r) \/ StatementFails(r)
    PROVE  AllPaged'
<1> DEFINE l == req[r].layer
           q == req[r].q
<1>1. req[r] \in Request /\ Formed(req[r]) /\ Paged(req[r])
  BY DEF Inv, RequestsOK, AllPaged
<1>2. UNCHANGED rows
  BY DEF CountMatched, RunQuery, SendPage, LosePage, StatementFails, world
<1>3. q \in Query /\ l \in Layer
  <2>1. NoQuery \in Query
    BY DEF NoQuery, NoFilter, Query, Filter
  <2>2. q \in Queries /\ l \in Layer
    BY <1>1 DEF Request, Layer
  <2> QED BY <2>1, <2>2, AsksAssumption DEF Queries
<1>4. ASSUME NEW a \in {"400", "500", "hits", "broken"}, Answered(r, a) PROVE AllPaged'
  <2>1. a \in Answers /\ Sent(r, a, {})
    BY <1>4 DEF Answers, Answered
  <2> QED BY <1>2, <2>1, SentPaged
<1>5. CASE CountMatched(r)
  <2> DEFINE n == Cardinality(Found(l, q))
             new == [req[r] EXCEPT !.pc = "query", !.matched = n]
  <2>1. Answered(r, "500") \/ Answered(r, "hits") \/ Become(r, new)
    BY <1>5 DEF CountMatched
  <2>2. req[r].answer = ""
    BY <1>1, <1>5 DEF CountMatched, Formed
  <2>3. /\ new.pc = "query" /\ new.answer = "" /\ new.matched = n
        /\ new.layer = l /\ new.q = q
    BY <1>1, <2>2 DEF Request
  <2> HIDE DEF new
  <2>4. Paged(new)
    BY <2>3 DEF Paged
  <2> QED BY <1>2, <1>4, <2>1, <2>4, BecomePaged
<1>6. CASE RunQuery(r)
  <2>1. \/ Answered(r, "500") \/ Answered(r, "broken")
        \/ \E page \in Pages(Found(l, q), q) :
             Become(r, [req[r] EXCEPT !.pc = "rows", !.page = page])
    BY <1>6 DEF RunQuery, StreamError
  <2>2. ASSUME NEW page \in Pages(Found(l, q), q),
               Become(r, [req[r] EXCEPT !.pc = "rows", !.page = page])
        PROVE  AllPaged'
    <3> DEFINE new == [req[r] EXCEPT !.pc = "rows", !.page = page]
    <3>1. req[r].pc = "query" /\ req[r].answer = "" /\ Complete(l)
      BY <1>1, <1>6 DEF RunQuery, Formed, Using
    <3>2. Found(l, q) \subseteq Features
      BY <1>3, <3>1, FoundWithin
    <3>3. page \subseteq Found(l, q) /\ Cardinality(page) = Want(Cardinality(Found(l, q)), q)
      BY <1>3, <3>2, PageCount
    <3>4. /\ new.pc = "rows" /\ new.answer = "" /\ new.page = page /\ new.q = q
          /\ new.matched = req[r].matched /\ new.edited = req[r].edited
      BY <1>1, <3>1 DEF Request
    <3>5. Become(r, new)
      BY <2>2
    <3> HIDE DEF new
    <3>6. ~req[r].edited => req[r].matched = Cardinality(Found(l, q))
      BY <1>1, <3>1 DEF Paged
    <3>7. page \subseteq Where(q).sel
      BY <3>3 DEF Found
    <3>8. Paged(new)
      BY <3>3, <3>4, <3>6, <3>7 DEF Paged
    <3> QED BY <1>2, <3>5, <3>8, BecomePaged
  <2> QED BY <1>4, <2>1, <2>2
<1>7. CASE SendPage(r)
  <2>1. /\ req[r].pc = "rows" /\ Sent(r, "page", req[r].page)
    BY <1>7 DEF SendPage
  <2>2. "page" \in Answers
    BY DEF Answers
  <2> QED BY <1>1, <1>2, <2>1, <2>2, SentPaged DEF Paged
<1>8. CASE LosePage(r)
  <2>1. PICK part \in SUBSET req[r].page :
          Sent(r, IF q.kind = "values" THEN "page" ELSE "broken", part)
    BY <1>8 DEF LosePage
  <2> DEFINE a == IF q.kind = "values" THEN "page" ELSE "broken"
  <2>2. a \in Answers /\ (a = "page" => q.kind = "values")
    BY DEF Answers
  <2>3. part \subseteq Where(q).sel
    BY <1>1, <1>8, <2>1 DEF LosePage, Paged
  <2>4. Sent(r, a, part)
    BY <2>1
  <2> HIDE DEF a
  <2> QED BY <1>2, <2>2, <2>3, <2>4, SentPaged
<1>9. CASE StatementFails(r)
  <2>1. Answered(r, "400") \/ Answered(r, "500") \/ Answered(r, "broken")
    BY <1>9 DEF StatementFails, StreamError
  <2> QED BY <1>4, <2>1
<1> QED BY <1>5, <1>6, <1>7, <1>8, <1>9

(* Who writes before the page was read is seen by the request.             *)
LEMMA WorldPaged ==
    ASSUME Inv, AllPaged, ChangeCatalog \/ ChangeTable \/ EditRows
    PROVE  AllPaged'
<1> SUFFICES ASSUME NEW r \in Requests PROVE Paged(req[r])'
  BY DEF AllPaged
<1>1. req[r] \in Request /\ Paged(req[r])
  BY DEF Inv, RequestsOK, AllPaged
<1>2. CASE EditRows
  <2>1. req'[r] = [req[r] EXCEPT !.edited = @ \/ req[r].pc = "query"]
    BY <1>2 DEF EditRows
  <2>2. /\ req'[r].pc = req[r].pc /\ req'[r].q = req[r].q /\ req'[r].matched = req[r].matched
        /\ req'[r].page = req[r].page /\ req'[r].answer = req[r].answer
        /\ req'[r].out = req[r].out /\ req'[r].edited = (req[r].edited \/ req[r].pc = "query")
    BY <1>1, <2>1 DEF Request
  <2> QED BY <1>1, <2>2 DEF Paged
<1>3. CASE ChangeCatalog \/ ChangeTable
  <2>1. req'[r] = [req[r] EXCEPT
             !.torn = @ \/ req[r].pc \in Resolving \ {"cache", "resource"},
             !.behind = @ \/ req[r].pc \in {"parse", "count", "query", "rows"},
             !.edited = @ \/ req[r].pc = "query"]
    BY <1>3 DEF ChangeCatalog, ChangeTable, Tear
  <2>2. /\ req'[r].pc = req[r].pc /\ req'[r].q = req[r].q /\ req'[r].matched = req[r].matched
        /\ req'[r].page = req[r].page /\ req'[r].answer = req[r].answer
        /\ req'[r].out = req[r].out /\ req'[r].edited = (req[r].edited \/ req[r].pc = "query")
    BY <1>1, <2>1 DEF Request
  <2> QED BY <1>1, <2>2 DEF Paged
<1> QED BY <1>2, <1>3

LEMMA NextPaged == ASSUME Inv, AllPaged, [Next]_vars PROVE AllPaged'
<1>1. CASE \E r \in Requests : \/ Arrive(r) \/ Lookup(r) \/ ReadResource(r) \/ ReadStore(r)
                               \/ FindPool(r) \/ CreatePool(r) \/ ReadGeometry(r)
                               \/ ReadColumns(r) \/ Keep(r) \/ Parse(r) \/ Leave(r)
  <2>1. PICK r \in Requests : \/ Arrive(r) \/ Lookup(r) \/ ReadResource(r) \/ ReadStore(r)
                              \/ FindPool(r) \/ CreatePool(r) \/ ReadGeometry(r)
                              \/ ReadColumns(r) \/ Keep(r) \/ Parse(r) \/ Leave(r)
    BY <1>1
  <2>2. PICK new : Become(r, new) /\ Quiet(new)
    BY <2>1, ResolvingIsQuiet
  <2>3. UNCHANGED rows
    BY <2>1 DEF Arrive, Lookup, ReadResource, ReadStore, FindPool, CreatePool, ReadGeometry,
                ReadColumns, Keep, Parse, Leave, world
  <2> QED BY <2>2, <2>3, BecomePaged
<1>2. CASE \E r \in Requests : \/ CountMatched(r) \/ RunQuery(r) \/ SendPage(r)
                               \/ LosePage(r) \/ StatementFails(r)
  BY <1>2, UsePaged
<1>3. CASE ChangeCatalog \/ ChangeTable \/ EditRows
  BY <1>3, WorldPaged
<1>4. CASE Tick \/ UNCHANGED vars
  <2>1. UNCHANGED << rows, req >>
    BY <1>4 DEF Tick, vars, world
  <2> QED BY <2>1 DEF AllPaged, Paged, Found
<1> QED BY <1>1, <1>2, <1>3, <1>4 DEF Next, Proceed

THEOREM PagesInvariance == Spec => [](Inv /\ AllPaged)
<1>1. Init => AllPaged
  <2> SUFFICES ASSUME Init, NEW r \in Requests PROVE Paged(req[r])
    BY DEF AllPaged
  <2>1. req[r].pc = "idle" /\ req[r].answer = ""
    BY IdleIsQuiet DEF Init
  <2> QED BY <2>1 DEF Paged
<1> QED BY <1>1, InitInv, NextInv, NextPaged, PTL DEF Spec

(* Every row that is sent is one that each filter of the request selects,  *)
(* the constraint of the rules included, however many filters there are;   *)
(* and a page has all the rows its place in the count leaves for it unless *)
(* somebody wrote in between (parseGetFeature, countMatched, the encoders).*)
THEOREM PagesAreAsAsked == Spec => []RowsAsAsked
<1>1. ASSUME Inv, AllPaged, NEW r \in Requests, req[r].answer \in {"page", "broken"}
      PROVE  LET q == req[r].q
                 rest == IF req[r].matched > q.offset THEN req[r].matched - q.offset ELSE 0
                 want == IF q.limit # 0 /\ q.limit < rest THEN q.limit ELSE rest
             IN /\ ~q.grant.bad => req[r].out \subseteq q.grant.sel
                /\ \A i \in DOMAIN q.given : req[r].out \subseteq q.given[i].sel
                /\ req[r].answer = "page" /\ q.kind # "values" /\ ~req[r].edited =>
                     Cardinality(req[r].out) = want
  <2> DEFINE q == req[r].q
  <2>1. q \in Query
    <3>1. NoQuery \in Query
      BY DEF NoQuery, NoFilter, Query, Filter
    <3>2. q \in Queries
      BY <1>1 DEF Inv, RequestsOK, Request
    <3> QED BY <3>1, <3>2, AsksAssumption DEF Queries
  <2>2. Paged(req[r])
    BY <1>1 DEF AllPaged
  <2>3. req[r].out \subseteq Where(q).sel
    BY <1>1, <2>2 DEF Paged
  <2>4. /\ ~q.grant.bad => req[r].out \subseteq q.grant.sel
        /\ \A i \in DOMAIN q.given : req[r].out \subseteq q.given[i].sel
    BY <2>1, <2>3, WhereSelects
  <2>5. req[r].answer = "page" /\ q.kind # "values" /\ ~req[r].edited =>
          Cardinality(req[r].out) = Want(req[r].matched, q)
    BY <2>2 DEF Paged
  <2> QED BY <2>4, <2>5 DEF Want
<1>2. Inv /\ AllPaged => RowsAsAsked
  BY <1>1 DEF RowsAsAsked
<1> QED BY <1>2, PagesInvariance, PTL
=============================================================================
