--------------------------- MODULE CatalogProofs ---------------------------
(***************************************************************************)
(* Proofs about Catalog for any number of workspaces, stores, names and    *)
(* requests, whatever they ask for and from whatever catalog they start:   *)
(* the rows keep their keys and references, a change of what tiles show is *)
(* announced, and a delete without recurse spares what it could count.     *)
(***************************************************************************)
EXTENDS Catalog, TLAPS

Cascades == {"deleteWorkspace", "deleteStoreH", "v1DeleteStore"}

LEMMA HandlerOps ==
    DOMAIN Handler = {"createWorkspace", "updateWorkspace", "deleteWorkspace", "createStoreH",
        "updateStoreH", "deleteStoreH", "v1CreateStore", "v1UpdateStore", "v1DeleteStore",
        "createFeatureType", "deleteFeatureType", "createCoverage", "deleteCoverage",
        "updateLayer", "deleteLayer", "v1PatchLayer", "v1PatchFeatureType", "v1Ingest",
        "v1RegisterCoverage", "createStyle", "createStyleWS", "updateStyle", "deleteStyle",
        "v1CreateStyle", "v1UpdateStyle", "v1DeleteStyle"}
BY DEF Handler

(* The handlers tiles hear, and the others.                                *)
HeardSteps(op, s) ==
    \/ /\ op \in {"createFeatureType", "createCoverage"}
       /\ s = << "CreateResource", "CreateLayer", "Publish" >>
    \/ op = "deleteFeatureType" /\ s = << "DeleteResource", "Publish" >>
    \/ op = "deleteFeatureType" /\ s = << "DropLayer", "DeleteResource", "Publish" >>
    \/ op = "updateLayer" /\ s = << "GetLayer", "UpdateLayer", "Publish" >>
    \/ op = "deleteLayer" /\ s = << "DeleteLayer", "Publish" >>
    \/ op = "v1PatchLayer" /\ s = << "PatchLayer", "Publish" >>
    \/ op = "v1PatchFeatureType" /\ s = << "PatchFeatureType", "Publish" >>
    \/ /\ op = "v1Ingest"
       /\ s = << "IngestGeoJSON", "EnsureWorkspace", "EnsureStore", "CreateResource",
                 "EnsureLayer", "Publish" >>
    \/ /\ op = "v1RegisterCoverage"
       /\ s = << "EnsureWorkspace", "EnsureStore", "CreateResource", "EnsureLayer", "Publish" >>

QuietSteps(op, s) ==
    \/ op = "createWorkspace" /\ s = << "CreateWorkspace", "Publish" >>
    \/ op = "updateWorkspace" /\ s = << "UpdateWorkspace", "Publish" >>
    \/ op \in {"createStoreH", "v1CreateStore"} /\ s = << "CreateStore", "Publish" >>
    \/ op = "updateStoreH" /\ s = << "UpdateStore", "Publish" >>
    \/ op = "v1UpdateStore" /\ s = << "UpdateStore" >>
    \/ op = "deleteCoverage" /\ s = << "DeleteResource", "Publish" >>
    \/ op = "deleteCoverage" /\ s = << "DropLayer", "DeleteResource", "Publish" >>
    \/ op \in {"createStyle", "createStyleWS"} /\ s = << "CreateStyle", "Publish" >>
    \/ op = "updateStyle" /\ s = << "GetStyle", "UpdateStyle", "Publish" >>
    \/ op = "deleteStyle" /\ s = << "DeleteStyle", "Publish" >>
    \/ op = "v1CreateStyle" /\ s = << "CreateStyle" >>
    \/ op = "v1UpdateStyle" /\ s = << "UpdateStyle", "Publish" >>
    \/ op = "v1DeleteStyle" /\ s = << "DeleteStyle" >>

(* The deletes of a workspace or a store, without and with recurse.        *)
CountedSteps(op, s) ==
    \/ op = "deleteWorkspace" /\ s = << "CountStores", "DeleteWorkspace", "Publish" >>
    \/ op = "deleteStoreH" /\ s = << "CountResources", "DeleteStore", "Publish" >>
    \/ op = "v1DeleteStore" /\ s = << "CountResources", "DeleteStore" >>

CascadeSteps(op, s) ==
    \/ op = "deleteWorkspace" /\ s = << "DeleteWorkspace", "Publish" >>
    \/ op = "deleteStoreH" /\ s = << "DeleteStore", "Publish" >>
    \/ op = "v1DeleteStore" /\ s = << "DeleteStore" >>

LEMMA HandlerSteps ==
    ASSUME NEW op \in DOMAIN Handler
    PROVE  HeardSteps(op, Handler[op]) \/ QuietSteps(op, Handler[op]) \/ CountedSteps(op, Handler[op])
BY HandlerOps DEF HeardSteps, QuietSteps, CountedSteps, Handler,
    createWorkspace, updateWorkspace, deleteWorkspace, createStoreH, updateStoreH,
    deleteStoreH, v1CreateStore, v1UpdateStore, v1DeleteStore, createFeatureType,
    deleteFeatureType, createCoverage, deleteCoverage, updateLayer, deleteLayer,
    v1PatchLayer, v1PatchFeatureType, v1Ingest, v1RegisterCoverage, createStyle,
    createStyleWS, updateStyle, deleteStyle, v1CreateStyle, v1UpdateStyle, v1DeleteStyle

LEMMA CallSteps ==
    ASSUME NEW call \in Call
    PROVE  \/ HeardSteps(call.op, StepsOf(call)) \/ QuietSteps(call.op, StepsOf(call))
           \/ ~call.recurse /\ CountedSteps(call.op, StepsOf(call))
           \/ call.recurse /\ CascadeSteps(call.op, StepsOf(call))
<1>1. call.op \in DOMAIN Handler /\ call.recurse \in BOOLEAN
  BY DEF Call
<1>2. CASE ~call.recurse
  BY <1>1, <1>2, HandlerSteps DEF StepsOf
<1>3. CASE call.recurse
  <2>1. StepsOf(call) = Recursing[call.op]
    BY <1>3 DEF StepsOf
  <2>2. CASE call.op = "deleteWorkspace"
    BY <1>3, <2>1, <2>2 DEF CascadeSteps, Recursing, Handler, deleteWorkspace
  <2>3. CASE call.op = "deleteStoreH"
    BY <1>3, <2>1, <2>3 DEF CascadeSteps, Recursing, Handler, deleteStoreH
  <2>4. CASE call.op = "v1DeleteStore"
    BY <1>3, <2>1, <2>4 DEF CascadeSteps, Recursing, Handler, v1DeleteStore
  <2>5. CASE call.op = "deleteFeatureType"
    BY <1>3, <2>1, <2>5 DEF HeardSteps, Recursing, Handler, deleteFeatureType
  <2>6. CASE call.op = "deleteCoverage"
    BY <1>3, <2>1, <2>6 DEF QuietSteps, Recursing, Handler, deleteCoverage
  <2>7. CASE call.op \notin Cascades \cup {"deleteFeatureType", "deleteCoverage"}
    <3>1. StepsOf(call) = Handler[call.op]
      BY <1>1, <2>1, <2>7 DEF Recursing, Cascades
    <3>2. ~CountedSteps(call.op, Handler[call.op])
      BY <2>7 DEF CountedSteps, Cascades
    <3> QED BY <1>1, <3>1, <3>2, HandlerSteps
  <2> QED BY <2>2, <2>3, <2>4, <2>5, <2>6, <2>7 DEF Cascades
<1> QED BY <1>1, <1>2, <1>3

(* No handler takes a step twice, or makes two stores.                     *)
LEMMA StepsDistinct ==
    ASSUME NEW call \in Call,
           NEW i \in 1 .. Len(StepsOf(call)), NEW j \in 1 .. Len(StepsOf(call))
    PROVE  /\ Len(StepsOf(call)) \in Nat
           /\ StepsOf(call)[i] = StepsOf(call)[j] => i = j
           /\ StepsOf(call)[i] = "CreateStore" => StepsOf(call)[j] # "EnsureStore"
BY CallSteps DEF HeardSteps, QuietSteps, CountedSteps, CascadeSteps

OfResources == {"CreateResource", "PatchFeatureType", "IngestGeoJSON"}
OfLayers == {"CreateLayer", "EnsureLayer", "UpdateLayer", "PatchLayer"}
OfUnheard == {"UpdateStore", "CreateStyle", "UpdateStyle", "DeleteStyle"}

LEMMA HeardFacts ==
    ASSUME NEW op, NEW s, HeardSteps(op, s), NEW i \in 1 .. Len(s)
    PROVE  /\ op \in Heard
           /\ s[i] = "Publish" <=> i = Len(s)
           /\ s[i] \notin {"DeleteStore", "DeleteWorkspace"}
           /\ s[i] \notin OfUnheard
           /\ s[i] = "IngestGeoJSON" => op = "v1Ingest"
           /\ s[i] = "GetLayer" => i # Len(s)
<1> USE DEF OfUnheard
<1>1. op \in Heard
  BY DEF HeardSteps, Heard
<1>2. CASE s = << "CreateResource", "CreateLayer", "Publish" >>
  BY <1>1, <1>2
<1>3. CASE op = "deleteFeatureType" /\ s = << "DeleteResource", "Publish" >>
  BY <1>1, <1>3
<1>4. CASE op = "deleteFeatureType" /\ s = << "DropLayer", "DeleteResource", "Publish" >>
  BY <1>1, <1>4
<1>5. CASE s = << "GetLayer", "UpdateLayer", "Publish" >>
  BY <1>1, <1>5
<1>6. CASE s = << "DeleteLayer", "Publish" >>
  BY <1>1, <1>6
<1>7. CASE s = << "PatchLayer", "Publish" >>
  BY <1>1, <1>7
<1>8. CASE s = << "PatchFeatureType", "Publish" >>
  BY <1>1, <1>8
<1>9. CASE /\ op = "v1Ingest"
           /\ s = << "IngestGeoJSON", "EnsureWorkspace", "EnsureStore", "CreateResource",
                     "EnsureLayer", "Publish" >>
  BY <1>1, <1>9
<1>10. CASE s = << "EnsureWorkspace", "EnsureStore", "CreateResource", "EnsureLayer", "Publish" >>
  BY <1>1, <1>10
<1> QED BY <1>2, <1>3, <1>4, <1>5, <1>6, <1>7, <1>8, <1>9, <1>10 DEF HeardSteps

LEMMA QuietFacts ==
    ASSUME NEW op, NEW s, QuietSteps(op, s), NEW i \in 1 .. Len(s)
    PROVE  /\ op \notin Heard
           /\ s[i] \in {"DeleteResource", "DeleteLayer", "DropLayer"} => op = "deleteCoverage"
           /\ s[i] \in OfUnheard => op \in Unheard
           /\ s[i] \notin OfResources \cup OfLayers
           /\ s[i] \notin {"DeleteStore", "DeleteWorkspace", "GetLayer"}
BY DEF QuietSteps, Heard, Unheard, OfResources, OfLayers, OfUnheard

LEMMA CountedFacts ==
    ASSUME NEW op, NEW s, CountedSteps(op, s), NEW i \in 1 .. Len(s)
    PROVE  /\ op \notin Heard /\ op \in Cascades
           /\ s[i] = "DeleteStore" => i = 2 /\ s[1] = "CountResources"
           /\ s[i] = "DeleteWorkspace" => i = 2 /\ s[1] = "CountStores"
           /\ s[i] \notin OfResources \cup OfLayers \cup OfUnheard
           /\ s[i] \notin {"DeleteResource", "DeleteLayer", "DropLayer", "GetLayer"}
BY DEF CountedSteps, Heard, Cascades, OfResources, OfLayers, OfUnheard

LEMMA CascadeFacts ==
    ASSUME NEW op, NEW s, CascadeSteps(op, s), NEW i \in 1 .. Len(s)
    PROVE  /\ op \notin Heard /\ op \in Cascades
           /\ s[i] \notin OfResources \cup OfLayers \cup OfUnheard
           /\ s[i] \notin {"DeleteResource", "DeleteLayer", "DropLayer", "GetLayer"}
BY DEF CascadeSteps, Heard, Cascades, OfResources, OfLayers, OfUnheard

(* The events that tiles hear are the last step of their handlers, which   *)
(* are all that change what tiles show but for the cascades, the stores,   *)
(* the styles and deleted coverages.                                       *)
LEMMA StepsAnnounced ==
    ASSUME NEW call \in Call, NEW i \in 1 .. Len(StepsOf(call))
    PROVE  /\ call.op \in Heard => (StepsOf(call)[i] = "Publish" <=> i = Len(StepsOf(call)))
           /\ StepsOf(call)[i] \in OfResources \cup OfLayers => call.op \in Heard
           /\ StepsOf(call)[i] \in {"DeleteResource", "DeleteLayer", "DropLayer"} =>
                call.op \in Heard \cup Unheard
           /\ StepsOf(call)[i] \in OfUnheard => call.op \in Unheard
           /\ StepsOf(call)[i] \in {"DeleteStore", "DeleteWorkspace"} => call.op \in Cascades
           /\ StepsOf(call)[i] = "IngestGeoJSON" => call.op = "v1Ingest"
           /\ StepsOf(call)[i] = "GetLayer" => i # Len(StepsOf(call))
<1>1. "deleteCoverage" \in Unheard /\ "IngestGeoJSON" \in OfResources
  BY DEF Unheard, OfResources
<1>2. CASE HeardSteps(call.op, StepsOf(call))
  BY <1>2, HeardFacts
<1>3. CASE QuietSteps(call.op, StepsOf(call))
  BY <1>1, <1>3, QuietFacts
<1>4. CASE CountedSteps(call.op, StepsOf(call))
  BY <1>1, <1>4, CountedFacts
<1>5. CASE CascadeSteps(call.op, StepsOf(call))
  BY <1>1, <1>5, CascadeFacts
<1> QED BY <1>2, <1>3, <1>4, <1>5, CallSteps

(* Without recurse a delete counts first.                                  *)
LEMMA StepsCounted ==
    ASSUME NEW call \in Call, ~call.recurse, NEW i \in 1 .. Len(StepsOf(call))
    PROVE  /\ StepsOf(call)[i] = "DeleteStore" => i = 2 /\ StepsOf(call)[1] = "CountResources"
           /\ StepsOf(call)[i] = "DeleteWorkspace" => i = 2 /\ StepsOf(call)[1] = "CountStores"
BY CallSteps, HeardFacts, QuietFacts, CountedFacts
-----------------------------------------------------------------------------
(* A request that has steps left stands at one of them, a new one at the   *)
(* first.                                                                  *)
ProgressOK ==
    \A r \in Requests :
        /\ req[r].status \in {"new", "running"} => req[r].at \in 1 .. Len(StepsOf(CallOf(r)))
        /\ req[r].status = "new" => req[r].at = 1

(* A row was there at the start or its author has made it, which no        *)
(* request does twice.                                                     *)
Done(p, steps) ==
    \E i \in 1 .. Len(StepsOf(CallOf(p))) :
        i < req[p].at /\ StepsOf(CallOf(p))[i] \in steps

StoreMade(x) == x.by \in Requests => Done(x.by, {"CreateStore", "EnsureStore"})
ResourceMade(x) == x.by \in Requests => Done(x.by, {"CreateResource"})

AuthorsOK ==
    /\ \A x \in stores : StoreMade(x)
    /\ \A x \in resources : ResourceMade(x)
    /\ \A r \in Requests :
         /\ \A y \in req[r].seen \cap Store : StoreMade(y)
         /\ \A y \in req[r].seen \cap Resource : ResourceMade(y)

(* Between the count and the delete only rows can come into the way whose  *)
(* authors had not made them when the delete came in.                      *)
SparedOK ==
    \A r \in Requests : ~CallOf(r).recurse =>
        /\ AtStep(r, {"DeleteStore"}) =>
             \A x \in resources, y \in req[r].seen \cap Resource :
               x.ws = CallOf(r).ws /\ x.store = CallOf(r).store => x.by # y.by
        /\ AtStep(r, {"DeleteWorkspace"}) =>
             /\ \A x \in stores, y \in req[r].seen \cap Store :
                  x.ws = CallOf(r).ws => x.by # y.by
             /\ \A x \in resources, y \in req[r].seen \cap Resource :
                  x.ws = CallOf(r).ws => x.by # y.by

(* A change that no event has followed, and who made it.                   *)
PendingOK ==
    \A k \in LayerKeys : \A r \in pending[k] :
        \/ CallOf(r).op \in Cascades \cup Unheard
        \/ CallOf(r).op = "v1Ingest" /\ k # KeyOf(CallOf(r))
        \/ CallOf(r).op \in Heard /\ k = KeyOf(CallOf(r)) /\ req[r].status # "ok"

Inv == TypeOK /\ ProgressOK /\ AuthorsOK /\ SparedOK /\ PendingOK

USE BudgetAssumption, SeederAssumption, DefaultsAssumption, CatalogsAssumption, CallsAssumption,
    IdentAssumption
-----------------------------------------------------------------------------
(* How the requests move: one takes its step, goes ahead or ends.          *)

TablesOK == WellFormed([workspaces |-> workspaces, stores |-> stores,
                        resources |-> resources, layers |-> layers, styles |-> styles])

Others(r) == \A q \in Requests : q # r => req'[q] = req[q]

Ahead(r) ==
    /\ req'[r].call = req[r].call /\ req'[r].seen = req[r].seen
    /\ req'[r].at = req[r].at + 1
    /\ req'[r].status = IF req[r].at = Len(StepsOf(CallOf(r))) THEN "ok" ELSE "running"

Gone(r) ==
    /\ req'[r].call = req[r].call /\ req'[r].seen = req[r].seen
    /\ req'[r].at = req[r].at
    /\ req'[r].status \in {"error", "mute", "killed"}

LEMMA CallType == ASSUME TypeOK, NEW r \in Requests PROVE CallOf(r) \in Call
BY CallsAssumption DEF TypeOK, Request, CallOf

LEMMA AdvanceFacts ==
    ASSUME req \in [Requests -> Request], NEW r \in Requests, Advance(r)
    PROVE  req' \in [Requests -> Request] /\ Others(r) /\ Ahead(r)
<1>1. req[r] \in Request
  OBVIOUS
<1>2. PICK st \in {"ok", "running"} :
        /\ st = IF req[r].at = Len(StepsOf(CallOf(r))) THEN "ok" ELSE "running"
        /\ req' = [req EXCEPT ![r].at = @ + 1, ![r].status = st]
  BY DEF Advance
<1>3. [req[r] EXCEPT !.at = @ + 1, !.status = st] \in Request
  <2>1. req[r].at + 1 \in Nat
    BY <1>1 DEF Request
  <2>2. \A n \in Nat : [req[r] EXCEPT !.at = n, !.status = st] \in Request
    BY <1>1 DEF Request
  <2> QED BY <2>1, <2>2
<1>4. req'[r] = [req[r] EXCEPT !.at = @ + 1, !.status = st]
  BY <1>2
<1>5. req' \in [Requests -> Request]
  BY <1>2, <1>3
<1>6. Ahead(r)
  BY <1>1, <1>2, <1>4 DEF Ahead, Request
<1> QED BY <1>2, <1>5, <1>6 DEF Others

LEMMA GotoFacts ==
    ASSUME req \in [Requests -> Request], NEW r \in Requests,
           NEW st \in {"error", "mute", "killed"}, Goto(r, st)
    PROVE  req' \in [Requests -> Request] /\ Others(r) /\ Gone(r)
<1>1. req[r] \in Request /\ req' = [req EXCEPT ![r].status = st]
  BY DEF Goto
<1>2. [req[r] EXCEPT !.status = st] \in Request
  BY <1>1 DEF Request
<1>3. req'[r] = [req[r] EXCEPT !.status = st]
  BY <1>1
<1> QED BY <1>1, <1>2, <1>3 DEF Others, Gone, Request

LEMMA RefuseFacts ==
    ASSUME req \in [Requests -> Request], NEW r \in Requests, Refuse(r)
    PROVE  /\ req' \in [Requests -> Request] /\ Others(r)
           /\ Gone(r) \/ (AtStep(r, Unchecked) /\ Ahead(r))
BY AdvanceFacts, GotoFacts DEF Refuse

(* A request at one of its steps.                                          *)
LEMMA AtFacts ==
    ASSUME TypeOK, ProgressOK, NEW r \in Requests, NEW steps, AtStep(r, steps)
    PROVE  /\ CallOf(r) \in Call /\ req[r].status = "running"
           /\ req[r].at \in 1 .. Len(StepsOf(CallOf(r)))
           /\ StepsOf(CallOf(r))[req[r].at] \in steps
BY CallType DEF AtStep, ProgressOK

LEMMA GetLayerFacts ==
    ASSUME TypeOK, ProgressOK, NEW r \in Requests, GetLayer(r)
    PROVE  /\ req' \in [Requests -> Request] /\ Others(r)
           /\ Gone(r) \/ Ahead(r)
<1> DEFINE rows == LayersOf(CallOf(r).ws, CallOf(r).name)
<1>1. req \in [Requests -> Request] /\ req[r] \in Request
  BY DEF TypeOK
<1>2. CASE rows = {}
  <2>1. Refuse(r) /\ ~AtStep(r, Unchecked)
    BY <1>2 DEF GetLayer, AtStep, Unchecked
  <2> QED BY <1>1, <2>1, RefuseFacts
<1>3. CASE rows # {}
  <2>1. req' = [req EXCEPT ![r].at = @ + 1, ![r].read = rows]
    BY <1>3 DEF GetLayer
  <2>2. rows \subseteq Layer
    BY DEF TypeOK, WellFormed, LayersOf
  <2>3. /\ AtStep(r, {"GetLayer"}) /\ req[r].status = "running"
        /\ req[r].at # Len(StepsOf(CallOf(r)))
    BY AtFacts, StepsAnnounced DEF GetLayer
  <2> HIDE DEF rows
  <2>4. req'[r] = [req[r] EXCEPT !.at = @ + 1, !.read = rows]
    BY <1>1, <2>1
  <2>5. [req[r] EXCEPT !.at = @ + 1, !.read = rows] \in Request
    <3>1. req[r].at + 1 \in Nat
      BY <1>1 DEF Request
    <3>2. \A n \in Nat : [req[r] EXCEPT !.at = n, !.read = rows] \in Request
      BY <1>1, <2>2 DEF Request
    <3> QED BY <3>1, <3>2
  <2>6. req' \in [Requests -> Request] /\ Others(r)
    BY <1>1, <2>1, <2>4, <2>5 DEF Others
  <2>7. Ahead(r)
    BY <1>1, <2>3, <2>4 DEF Ahead, Request
  <2> QED BY <2>6, <2>7
<1> QED BY <1>2, <1>3
-----------------------------------------------------------------------------
(* The statements keep types, keys and references.                         *)

LEMMA WorkspaceTables ==
    ASSUME TablesOK, NEW r \in Requests, CallOf(r) \in Call,
           CreateWorkspace(r) \/ UpdateWorkspace(r) \/ DeleteWorkspace(r)
    PROVE  TablesOK'
<1>1. CallOf(r).ws \in Workspaces /\ CallOf(r).to \in Workspaces
  BY DEF Call
<1>2. CASE CreateWorkspace(r)
  BY <1>1, <1>2 DEF CreateWorkspace, TablesOK, WellFormed
<1>3. CASE UpdateWorkspace(r)
  BY <1>1, <1>3 DEF UpdateWorkspace, TablesOK, WellFormed
<1>4. CASE DeleteWorkspace(r)
  BY <1>1, <1>4 DEF DeleteWorkspace, TablesOK, WellFormed, tables
<1> QED BY <1>2, <1>3, <1>4

LEMMA StoreTables ==
    ASSUME TablesOK, NEW r \in Requests, CallOf(r) \in Call,
           CreateStore(r) \/ UpdateStore(r) \/ DeleteStore(r)
    PROVE  TablesOK'
<1>1. /\ CallOf(r).ws \in Workspaces /\ CallOf(r).store \in StoreNames
      /\ CallOf(r).conn \in Conns
  BY DEF Call
<1>2. CASE CreateStore(r)
  BY <1>1, <1>2 DEF CreateStore, TablesOK, WellFormed, StoresOf, Store, Authors
<1>3. CASE DeleteStore(r)
  BY <1>1, <1>3 DEF DeleteStore, TablesOK, WellFormed, StoresOf
<1>4. CASE UpdateStore(r)
  <2> DEFINE c == CallOf(r)
             rows == {s \in StoresOf(c.ws, c.store) : s.conn \in Rasters <=> c.conn \in Rasters}
             Moving(s) == [s EXCEPT !.conn = c.conn]
  <2>1. stores' = (stores \ rows) \cup {Moving(s) : s \in rows}
    BY <1>4 DEF UpdateStore
  <2>2. UNCHANGED << workspaces, resources, layers, styles >>
    BY <1>4 DEF UpdateStore
  <2>3. /\ rows \subseteq stores /\ stores \subseteq Store
        /\ \A s \in rows : s.ws = c.ws /\ s.name = c.store
    BY DEF StoresOf, TablesOK, WellFormed
  <2>4. \A s \in Store : Moving(s) \in Store /\ Moving(s).ws = s.ws /\ Moving(s).name = s.name
    BY <1>1 DEF Store
  <2> HIDE DEF rows, Moving
  <2>5. \A s \in stores' : s \in Store /\ \E y \in stores :
          /\ s.ws = y.ws /\ s.name = y.name
          /\ IF y \in rows THEN s = Moving(y) ELSE s = y
    BY <2>1, <2>3, <2>4
  <2>6. \A y \in stores : \E s \in stores' : s.ws = y.ws /\ s.name = y.name
    BY <2>1, <2>3, <2>4
  <2>7. \A s, y \in stores' : s.ws = y.ws /\ s.name = y.name => s = y
    BY <2>5 DEF TablesOK, WellFormed
  <2>8. \A s \in stores' : s.ws \in workspaces
    BY <2>5 DEF TablesOK, WellFormed
  <2>9. \A x \in resources : \E s \in stores' : s.ws = x.ws /\ s.name = x.store
    BY <2>6 DEF TablesOK, WellFormed
  <2> QED BY <2>2, <2>5, <2>7, <2>8, <2>9 DEF TablesOK, WellFormed
<1> QED BY <1>2, <1>3, <1>4

LEMMA ResourceTables ==
    ASSUME TablesOK, NEW r \in Requests, CallOf(r) \in Call,
           CreateResource(r) \/ DeleteResource(r) \/ PatchFeatureType(r)
    PROVE  TablesOK'
<1>1. /\ CallOf(r).ws \in Workspaces /\ CallOf(r).store \in StoreNames
      /\ CallOf(r).name \in Names /\ CallOf(r).native \in Names
      /\ KindOf(CallOf(r)) \in Kinds
      /\ CallOf(r).meta \in Metas \cup {Keep}
  BY DEF Call, KindOf, Kinds
<1>2. CASE CreateResource(r)
  <2> DEFINE c == CallOf(r)
             row == [ws |-> c.ws, store |-> c.store, name |-> c.name,
                     native |-> IF c.op = "v1Ingest" THEN c.name ELSE c.native,
                     kind |-> KindOf(c), meta |-> CHOOSE m \in Metas : TRUE, by |-> r]
  <2>1. row \in Resource
    BY <1>1, DefaultsAssumption DEF Resource, Authors
  <2>2. row.ws = c.ws /\ row.store = c.store /\ row.name = c.name
    OBVIOUS
  <2>3. \/ UNCHANGED << workspaces, stores, resources, layers, styles >>
        \/ /\ UNCHANGED << workspaces, stores, layers, styles >>
           /\ StoresOf(c.ws, c.store) # {} /\ ResourcesOf(c.ws, c.store, c.name) = {}
           /\ resources' = resources \cup {row}
    BY <1>2 DEF CreateResource
  <2> HIDE DEF row
  <2>4. QED BY <2>1, <2>2, <2>3 DEF TablesOK, WellFormed, StoresOf, ResourcesOf
<1>3. CASE DeleteResource(r)
  BY <1>1, <1>3 DEF DeleteResource, TablesOK, WellFormed, ResourcesOf
<1>4. CASE PatchFeatureType(r)
  BY <1>1, <1>4 DEF PatchFeatureType, TablesOK, WellFormed, FeatureTypes, KeyOf, Resource
<1> QED BY <1>2, <1>3, <1>4

LEMMA LayersReplaced ==
    ASSUME TablesOK, UNCHANGED << workspaces, stores, resources, styles >>,
           NEW ws, NEW name, NEW rows \in SUBSET Layer,
           \A l \in rows : l.ws = ws /\ l.name = name /\ ws \in workspaces,
           \A l, m \in rows : l = m,
           layers' = (layers \ LayersOf(ws, name)) \cup rows
    PROVE  TablesOK'
BY DEF TablesOK, WellFormed, LayersOf

LEMMA LayerTables ==
    ASSUME TablesOK, NEW r \in Requests, CallOf(r) \in Call, req[r] \in Request,
           CreateLayer(r) \/ UpdateLayer(r) \/ PatchLayer(r) \/ DeleteLayer(r)
    PROVE  TablesOK'
<1> DEFINE c == CallOf(r)
           rows == LayersOf(c.ws, c.name)
<1>1. /\ c.ws \in Workspaces /\ c.name \in Names
      /\ c.style \in Styles \cup {Keep}
      /\ req[r].read \subseteq Layer
  BY DEF Call, Request
<1>2. /\ rows \subseteq Layer /\ \A l, m \in rows : l = m
      /\ \A l \in rows : l.ws = c.ws /\ l.name = c.name /\ c.ws \in workspaces
  BY DEF TablesOK, WellFormed, LayersOf
<1>3. CASE CreateLayer(r)
  <2> DEFINE row == [ws |-> c.ws, name |-> c.name,
                     type |-> IF KindOf(c) = "coverage" THEN "RASTER" ELSE "VECTOR",
                     style |-> CHOOSE s \in Styles : TRUE, enabled |-> TRUE]
  <2>1. row \in Layer /\ row.ws = c.ws /\ row.name = c.name
    BY <1>1, DefaultsAssumption DEF Layer
  <2>2. \/ UNCHANGED << workspaces, stores, resources, layers, styles >>
        \/ /\ UNCHANGED << workspaces, stores, resources, styles >>
           /\ c.ws \in workspaces /\ rows = {} /\ layers' = layers \cup {row}
    BY <1>3 DEF CreateLayer
  <2> HIDE DEF row
  <2>3. CASE UNCHANGED << workspaces, stores, resources, layers, styles >>
    BY <2>3 DEF TablesOK
  <2>4. CASE /\ UNCHANGED << workspaces, stores, resources, styles >>
             /\ c.ws \in workspaces /\ rows = {} /\ layers' = layers \cup {row}
    BY <2>1, <2>4 DEF TablesOK, WellFormed, LayersOf
  <2> QED BY <2>2, <2>3, <2>4
<1>4. CASE UpdateLayer(r)
  <2>1. PICK old \in req[r].read :
          LET style == IF c.style = Keep THEN old.style ELSE c.style IN
          /\ UNCHANGED << workspaces, stores, resources, styles >>
          /\ layers' = (layers \ rows) \cup
               {[l EXCEPT !.style = style, !.enabled = old.enabled] : l \in rows}
    BY <1>4 DEF UpdateLayer
  <2> DEFINE style == IF c.style = Keep THEN old.style ELSE c.style
             changed == {[l EXCEPT !.style = style, !.enabled = old.enabled] : l \in rows}
  <2>2. style \in Styles /\ old.enabled \in BOOLEAN
    BY <1>1 DEF Layer
  <2>3. layers' = (layers \ LayersOf(c.ws, c.name)) \cup changed
    BY <2>1
  <2> HIDE DEF style
  <2>4. /\ changed \in SUBSET Layer
        /\ \A l \in changed : l.ws = c.ws /\ l.name = c.name /\ c.ws \in workspaces
    <3>1. \A l \in Layer :
            LET new == [l EXCEPT !.style = style, !.enabled = old.enabled]
            IN  new \in Layer /\ new.ws = l.ws /\ new.name = l.name
      BY <2>2 DEF Layer
    <3> QED BY <1>2, <3>1
  <2>5. \A l, m \in changed : l = m
    BY <1>2
  <2> QED BY <2>1, <2>3, <2>4, <2>5, LayersReplaced
<1>5. CASE PatchLayer(r)
  <2> DEFINE Patched(l) == [l EXCEPT !.style = IF c.style = Keep THEN @ ELSE c.style,
                               !.enabled = IF c.enabled = Keep THEN @ ELSE c.enabled = "true"]
             changed == {Patched(l) : l \in rows}
  <2>1. /\ UNCHANGED << workspaces, stores, resources, styles >>
        /\ layers' = (layers \ LayersOf(c.ws, c.name)) \cup changed
    BY <1>5 DEF PatchLayer
  <2>2. \A l \in Layer :
          Patched(l) \in Layer /\ Patched(l).ws = l.ws /\ Patched(l).name = l.name
    BY <1>1 DEF Layer
  <2> HIDE DEF Patched
  <2>3. /\ changed \in SUBSET Layer
        /\ \A l \in changed : l.ws = c.ws /\ l.name = c.name /\ c.ws \in workspaces
    BY <1>2, <2>2
  <2>4. \A l, m \in changed : l = m
    BY <1>2
  <2> QED BY <2>1, <2>3, <2>4, LayersReplaced
<1>6. CASE DeleteLayer(r)
  BY <1>6 DEF DeleteLayer, TablesOK, WellFormed, LayersOf
<1> QED BY <1>3, <1>4, <1>5, <1>6

LEMMA StyleTables ==
    ASSUME TablesOK, NEW r \in Requests, CallOf(r) \in Call,
           CreateStyle(r) \/ UpdateStyle(r) \/ DeleteStyle(r)
    PROVE  TablesOK'
<1> DEFINE c == CallOf(r)
           rows == StylesOf(ScopeOf(c), c.style)
<1>1. /\ c.style \in Styles \cup {Keep} /\ c.body \in Bodies
      /\ ScopeOf(c) \in Workspaces \cup {Global}
  BY DEF Call, ScopeOf
<1>2. rows \subseteq Style /\ \A y, z \in rows : y = z
  BY DEF TablesOK, WellFormed, StylesOf
<1>3. CASE CreateStyle(r)
  BY <1>1, <1>3 DEF CreateStyle, TablesOK, WellFormed, StylesOf, Style
<1>4. CASE UpdateStyle(r)
  <2> DEFINE Edited(y) == [y EXCEPT !.body = c.body]
  <2>1. styles' = (styles \ rows) \cup {Edited(y) : y \in rows}
    BY <1>4 DEF UpdateStyle
  <2>2. UNCHANGED << workspaces, stores, resources, layers >>
    BY <1>4 DEF UpdateStyle
  <2>3. \A y \in Style : Edited(y) \in Style /\ Edited(y).ws = y.ws /\ Edited(y).name = y.name
    BY <1>1 DEF Style
  <2> HIDE DEF Edited
  <2>4. QED BY <1>2, <2>1, <2>2, <2>3 DEF TablesOK, WellFormed, StylesOf
<1>5. CASE DeleteStyle(r)
  BY <1>5 DEF DeleteStyle, TablesOK, WellFormed, StylesOf
<1> QED BY <1>3, <1>4, <1>5
-----------------------------------------------------------------------------
(* What a step of a request does: it moves the request, and makes rows of  *)
(* its own or keeps the authors of those there are.                        *)

Step(r) ==
    \/ WorkspaceStep(r) \/ StoreStep(r) \/ ResourceStep(r) \/ LayerStep(r)
    \/ StyleStep(r)
    \/ Publish(r) \/ PublishFails(r) \/ StatementFails(r) \/ Kill(r)

Moved(r) ==
    req' \in [Requests -> Request] /\ Others(r) /\ (Ahead(r) \/ Gone(r))

MadeStores(r) ==
    \A x \in stores' :
        \/ \E y \in stores : x.ws = y.ws /\ x.by = y.by
        \/ x.by = r /\ Ahead(r) /\ AtStep(r, {"CreateStore", "EnsureStore"})

MadeResources(r) ==
    \A x \in resources' :
        \/ \E y \in resources : x.ws = y.ws /\ x.store = y.store /\ x.by = y.by
        \/ x.by = r /\ Ahead(r) /\ AtStep(r, {"CreateResource"})

LEMMA StepRunning == ASSUME NEW r \in Requests, Step(r) PROVE req[r].status = "running"
BY DEF Step, WorkspaceStep, StoreStep, ResourceStep, LayerStep, StyleStep, AtStep,
     CreateStyle, GetStyle, UpdateStyle, DeleteStyle,
     CreateWorkspace, UpdateWorkspace, CountStores, DeleteWorkspace, CreateStore,
     UpdateStore, CountResources, DeleteStore, CreateResource, DeleteResource,
     PatchFeatureType, IngestGeoJSON, CreateLayer, GetLayer, UpdateLayer, PatchLayer,
     DeleteLayer, Publish, PublishFails, StatementFails, Kill

LEMMA StepMoves ==
    ASSUME TypeOK, ProgressOK, NEW r \in Requests, Step(r) PROVE Moved(r)
<1>1. req \in [Requests -> Request]
  BY DEF TypeOK
<1>2. \/ Advance(r) \/ Refuse(r) \/ GetLayer(r)
      \/ Goto(r, "mute") \/ Goto(r, "killed")
  <2>1. CASE WorkspaceStep(r)
    BY <2>1 DEF WorkspaceStep, CreateWorkspace, UpdateWorkspace, CountStores, DeleteWorkspace
  <2>2. CASE StoreStep(r)
    BY <2>2 DEF StoreStep, CreateStore, UpdateStore, CountResources, DeleteStore
  <2>3. CASE ResourceStep(r)
    BY <2>3 DEF ResourceStep, CreateResource, DeleteResource, PatchFeatureType, IngestGeoJSON
  <2>4. CASE LayerStep(r)
    <3>1. CASE UpdateLayer(r)
      BY <3>1 DEF UpdateLayer
    <3> QED BY <2>4, <3>1 DEF LayerStep, CreateLayer, PatchLayer, DeleteLayer
  <2>5. CASE StyleStep(r)
    BY <2>5 DEF StyleStep, CreateStyle, GetStyle, UpdateStyle, DeleteStyle
  <2> QED BY <2>1, <2>2, <2>3, <2>4, <2>5 DEF Step, Publish, PublishFails, StatementFails, Kill
<1> QED BY <1>1, <1>2, AdvanceFacts, RefuseFacts, GotoFacts, GetLayerFacts DEF Moved

(* The statements that leave the stores and the resources alone.           *)
LEMMA RowsUntouched ==
    ASSUME NEW r \in Requests, Step(r),
           ~DeleteWorkspace(r), ~CreateStore(r), ~UpdateStore(r), ~DeleteStore(r),
           ~CreateResource(r), ~DeleteResource(r), ~PatchFeatureType(r)
    PROVE  UNCHANGED << stores, resources >>
<1>1. CASE WorkspaceStep(r) \/ StoreStep(r) \/ ResourceStep(r)
  BY <1>1 DEF WorkspaceStep, StoreStep, ResourceStep, CreateWorkspace, UpdateWorkspace,
              CountStores, CountResources, IngestGeoJSON, tables
<1>2. CASE LayerStep(r)
  <2>1. CASE UpdateLayer(r)
    BY <2>1 DEF UpdateLayer
  <2> QED BY <1>2, <2>1 DEF LayerStep, CreateLayer, GetLayer, PatchLayer, DeleteLayer, tables
<1>3. CASE StyleStep(r)
  BY <1>3 DEF StyleStep, CreateStyle, GetStyle, UpdateStyle, DeleteStyle, tables
<1> QED BY <1>1, <1>2, <1>3 DEF Step, Publish, PublishFails, StatementFails, Kill, tables

LEMMA StepMakes ==
    ASSUME TypeOK, ProgressOK, NEW r \in Requests, Step(r)
    PROVE  MadeStores(r) /\ MadeResources(r)
<1>1. req \in [Requests -> Request] /\ resources \subseteq Resource /\ stores \subseteq Store
  BY DEF TypeOK, WellFormed
<1>2. CASE DeleteWorkspace(r)
  BY <1>2 DEF DeleteWorkspace, MadeStores, MadeResources, tables
<1>3. CASE CreateStore(r)
  <2>1. UNCHANGED resources /\ AtStep(r, {"CreateStore", "EnsureStore"})
    BY <1>3 DEF CreateStore
  <2>2. \/ UNCHANGED stores
        \/ Advance(r) /\ \A x \in stores' : x \in stores \/ x.by = r
    BY <1>3 DEF CreateStore
  <2> QED BY <1>1, <2>1, <2>2, AdvanceFacts DEF MadeStores, MadeResources
<1>4. CASE DeleteStore(r)
  BY <1>4 DEF DeleteStore, MadeStores, MadeResources
<1>5. CASE CreateResource(r)
  <2>1. UNCHANGED stores /\ AtStep(r, {"CreateResource"})
    BY <1>5 DEF CreateResource
  <2>2. \/ UNCHANGED resources
        \/ Advance(r) /\ \A x \in resources' : x \in resources \/ x.by = r
    BY <1>5 DEF CreateResource
  <2> QED BY <1>1, <2>1, <2>2, AdvanceFacts DEF MadeStores, MadeResources
<1>6. CASE DeleteResource(r)
  BY <1>6 DEF DeleteResource, MadeStores, MadeResources
<1>7. CASE PatchFeatureType(r)
  <2>1. UNCHANGED stores
    BY <1>7 DEF PatchFeatureType
  <2>2. \A x \in resources' :
          x \in resources \/ \E y \in resources : x = [y EXCEPT !.meta = CallOf(r).meta]
    BY <1>7 DEF PatchFeatureType, FeatureTypes
  <2> QED BY <1>1, <2>1, <2>2 DEF MadeStores, MadeResources, Resource
<1>8. CASE UpdateStore(r)
  <2>1. UNCHANGED resources
    BY <1>8 DEF UpdateStore
  <2>2. \A x \in stores' :
          x \in stores \/ \E y \in stores : x = [y EXCEPT !.conn = CallOf(r).conn]
    BY <1>8 DEF UpdateStore, StoresOf
  <2> QED BY <1>1, <2>1, <2>2 DEF MadeStores, MadeResources, Store
<1>9. CASE UNCHANGED << stores, resources >>
  BY <1>9 DEF MadeStores, MadeResources
<1> QED BY <1>2, <1>3, <1>4, <1>5, <1>6, <1>7, <1>8, <1>9, RowsUntouched
-----------------------------------------------------------------------------
(* Types.                                                                  *)

LEMMA StepTables ==
    ASSUME TypeOK, ProgressOK, NEW r \in Requests, Step(r) PROVE TablesOK'
<1>1. TablesOK /\ CallOf(r) \in Call /\ req[r] \in Request
  BY CallType DEF TypeOK, TablesOK
<1>2. CASE CreateWorkspace(r) \/ UpdateWorkspace(r) \/ DeleteWorkspace(r)
  BY <1>1, <1>2, WorkspaceTables
<1>3. CASE CreateStore(r) \/ UpdateStore(r) \/ DeleteStore(r)
  BY <1>1, <1>3, StoreTables
<1>4. CASE CreateResource(r) \/ DeleteResource(r) \/ PatchFeatureType(r)
  BY <1>1, <1>4, ResourceTables
<1>5. CASE CreateLayer(r) \/ UpdateLayer(r) \/ PatchLayer(r) \/ DeleteLayer(r)
  BY <1>1, <1>5, LayerTables
<1>6. CASE CreateStyle(r) \/ UpdateStyle(r) \/ DeleteStyle(r)
  BY <1>1, <1>6, StyleTables
<1>7. CASE UNCHANGED tables
  BY <1>1, <1>7 DEF TablesOK, tables
<1> QED BY <1>2, <1>3, <1>4, <1>5, <1>6, <1>7 DEF Step, WorkspaceStep, StoreStep, ResourceStep,
      LayerStep, StyleStep, CreateStyle, GetStyle, UpdateStyle, DeleteStyle,
      CountStores, UpdateStore, CountResources, IngestGeoJSON, GetLayer,
      Publish, PublishFails, StatementFails, Kill

LEMMA KeyType == ASSUME NEW call \in Call PROVE KeyOf(call) \in LayerKeys
BY DEF Call, KeyOf, LayerKeys

LEMMA StepPending ==
    ASSUME TypeOK, NEW r \in Requests, Step(r)
    PROVE  /\ pending' \in [LayerKeys -> SUBSET Requests]
           /\ \A k \in LayerKeys : pending'[k] \subseteq pending[k] \cup {r}
<1>1. pending \in [LayerKeys -> SUBSET Requests] /\ KeyOf(CallOf(r)) \in LayerKeys
  BY CallType, KeyType DEF TypeOK
<1>2. CASE Changed(r)
  BY <1>1, <1>2 DEF Changed
<1>3. CASE UNCHANGED pending
  BY <1>1, <1>3
<1>4. CASE IngestGeoJSON(r)
  BY <1>1, <1>4 DEF IngestGeoJSON
<1>5. CASE Publish(r)
  BY <1>1, <1>5 DEF Publish
<1>6. CASE UpdateLayer(r)
  BY <1>2, <1>6 DEF UpdateLayer
<1> QED BY <1>2, <1>3, <1>4, <1>5, <1>6 DEF Step, WorkspaceStep, StoreStep, ResourceStep,
      LayerStep, StyleStep, CreateStyle, GetStyle, UpdateStyle, DeleteStyle,
      CreateWorkspace, UpdateWorkspace, CountStores, DeleteWorkspace, CreateStore,
      UpdateStore, CountResources, DeleteStore, CreateResource, DeleteResource,
      PatchFeatureType, CreateLayer, GetLayer, PatchLayer, DeleteLayer, PublishFails,
      StatementFails, Kill

LEMMA StepBudget ==
    ASSUME TypeOK, NEW r \in Requests, Step(r)
    PROVE  budget' \in [errors : Nat, lost : Nat, kills : Nat]
<1>1. budget \in [errors : Nat, lost : Nat, kills : Nat]
  BY DEF TypeOK
<1>2. CASE PublishFails(r) \/ StatementFails(r) \/ Kill(r)
  BY <1>1, <1>2 DEF PublishFails, StatementFails, Kill
<1>3. CASE UNCHANGED budget
  BY <1>1, <1>3
<1>4. CASE UpdateLayer(r)
  BY <1>3, <1>4 DEF UpdateLayer
<1> QED BY <1>2, <1>3, <1>4 DEF Step, WorkspaceStep, StoreStep, ResourceStep,
      LayerStep, StyleStep, CreateStyle, GetStyle, UpdateStyle, DeleteStyle,
      CreateWorkspace, UpdateWorkspace, CountStores, DeleteWorkspace, CreateStore,
      UpdateStore, CountResources, DeleteStore, CreateResource, DeleteResource,
      PatchFeatureType, IngestGeoJSON, CreateLayer, GetLayer, PatchLayer, DeleteLayer, Publish

LEMMA StepType ==
    ASSUME TypeOK, ProgressOK, NEW r \in Requests, Step(r) PROVE TypeOK'
BY StepMoves, StepTables, StepPending, StepBudget DEF TypeOK, TablesOK, Moved

LEMMA StepProgress ==
    ASSUME TypeOK, ProgressOK, NEW r \in Requests, Step(r) PROVE ProgressOK'
<1>1. Moved(r) /\ req[r].status = "running" /\ CallOf(r) \in Call
  BY StepMoves, StepRunning, CallType
<1>2. req[r].at \in 1 .. Len(StepsOf(CallOf(r))) /\ Len(StepsOf(CallOf(r))) \in Nat
  BY <1>1, StepsDistinct DEF ProgressOK
<1>3. /\ req'[r].status # "new"
      /\ req'[r].status = "running" =>
           req'[r].at \in 1 .. Len(StepsOf(CallOf(r))) /\ CallOf(r)' = CallOf(r)
  BY <1>1, <1>2 DEF Moved, Ahead, Gone, CallOf
<1>4. ASSUME NEW q \in Requests, req'[q].status \in {"new", "running"}
      PROVE  /\ req'[q].at \in 1 .. Len(StepsOf(CallOf(q)'))
             /\ req'[q].status = "new" => req'[q].at = 1
  <2>1. CASE q = r
    BY <1>3, <1>4, <2>1
  <2>2. CASE q # r
    BY <1>1, <1>4, <2>2 DEF Moved, Others, ProgressOK, CallOf
  <2> QED BY <2>1, <2>2
<1> QED BY <1>4 DEF ProgressOK, StepsOf
-----------------------------------------------------------------------------
(* Who made the rows.                                                      *)

LEMMA DoneKept ==
    ASSUME TypeOK, NEW r \in Requests, Moved(r), NEW q \in Requests, NEW steps, Done(q, steps)
    PROVE  Done(q, steps)'
<1>1. req[q].at \in Nat
  BY DEF TypeOK, Request
<1>2. CallOf(q)' = CallOf(q) /\ req'[q].at \in {req[q].at, req[q].at + 1}
  BY DEF Moved, Others, Ahead, Gone, CallOf
<1>3. PICK i \in 1 .. Len(StepsOf(CallOf(q))) :
        i < req[q].at /\ StepsOf(CallOf(q))[i] \in steps
  BY DEF Done
<1>4. i < req'[q].at
  BY <1>1, <1>2, <1>3
<1> QED BY <1>2, <1>3, <1>4 DEF Done, StepsOf

(* A request makes a row once.                                             *)
LEMMA DoneOnce ==
    ASSUME TypeOK, ProgressOK, NEW r \in Requests,
           NEW steps, steps \in {{"CreateStore", "EnsureStore"}, {"CreateResource"}},
           AtStep(r, steps)
    PROVE  /\ ~Done(r, steps)
           /\ Ahead(r) => Done(r, steps)'
<1>1. /\ CallOf(r) \in Call /\ req[r].at \in 1 .. Len(StepsOf(CallOf(r)))
      /\ StepsOf(CallOf(r))[req[r].at] \in steps
  BY AtFacts
<1>2. ~Done(r, steps)
  <2>1. SUFFICES ASSUME NEW i \in 1 .. Len(StepsOf(CallOf(r))), i < req[r].at,
                        StepsOf(CallOf(r))[i] \in steps
                 PROVE  FALSE
    BY DEF Done
  <2>2. i = req[r].at
    BY <1>1, <2>1, StepsDistinct
  <2> QED BY <2>1, <2>2
<1>3. ASSUME Ahead(r) PROVE Done(r, steps)'
  <2>1. CallOf(r)' = CallOf(r) /\ req[r].at < req'[r].at
    BY <1>1, <1>3 DEF Ahead, CallOf
  <2> QED BY <1>1, <2>1 DEF Done, StepsOf
<1> QED BY <1>2, <1>3

LEMMA SeenKept ==
    ASSUME NEW r \in Requests, Moved(r), NEW q \in Requests
    PROVE  req'[q].seen = req[q].seen /\ CallOf(q)' = CallOf(q)
BY DEF Moved, Others, Ahead, Gone, CallOf

LEMMA StepAuthors ==
    ASSUME TypeOK, ProgressOK, AuthorsOK, NEW r \in Requests, Step(r) PROVE AuthorsOK'
<1>1. Moved(r) /\ MadeStores(r) /\ MadeResources(r)
  BY StepMoves, StepMakes
<1>2. ASSUME NEW x, StoreMade(x) PROVE StoreMade(x)'
  BY <1>1, <1>2, DoneKept DEF StoreMade
<1>3. ASSUME NEW x, ResourceMade(x) PROVE ResourceMade(x)'
  BY <1>1, <1>3, DoneKept DEF ResourceMade
<1>4. \A x \in stores' : StoreMade(x)'
  <2>1. ASSUME NEW x \in stores', x.by = r, Ahead(r), AtStep(r, {"CreateStore", "EnsureStore"})
        PROVE  StoreMade(x)'
    BY <2>1, DoneOnce DEF StoreMade
  <2>2. ASSUME NEW x \in stores', NEW y \in stores, x.by = y.by PROVE StoreMade(x)'
    BY <1>2, <2>2 DEF StoreMade, AuthorsOK
  <2> QED BY <1>1, <2>1, <2>2 DEF MadeStores
<1>5. \A x \in resources' : ResourceMade(x)'
  <2>1. ASSUME NEW x \in resources', x.by = r, Ahead(r), AtStep(r, {"CreateResource"})
        PROVE  ResourceMade(x)'
    BY <2>1, DoneOnce DEF ResourceMade
  <2>2. ASSUME NEW x \in resources', NEW y \in resources, x.by = y.by PROVE ResourceMade(x)'
    BY <1>3, <2>2 DEF ResourceMade, AuthorsOK
  <2> QED BY <1>1, <2>1, <2>2 DEF MadeResources
<1>6. ASSUME NEW q \in Requests
      PROVE  /\ \A y \in req'[q].seen \cap Store : StoreMade(y)'
             /\ \A y \in req'[q].seen \cap Resource : ResourceMade(y)'
  BY <1>1, <1>2, <1>3, SeenKept DEF AuthorsOK
<1> QED BY <1>4, <1>5, <1>6 DEF AuthorsOK
-----------------------------------------------------------------------------
(* What deletes find after their count.                                    *)

(* A count that lets its delete go on found nothing.                       *)
LEMMA Counted ==
    ASSUME TypeOK, ProgressOK, NEW r \in Requests, Step(r), Ahead(r)
    PROVE  /\ AtStep(r, {"CountResources"}) =>
                /\ UNCHANGED << stores, resources >>
                /\ \A x \in resources : ~(x.ws = CallOf(r).ws /\ x.store = CallOf(r).store)
           /\ AtStep(r, {"CountStores"}) =>
                /\ UNCHANGED << stores, resources >>
                /\ \A s \in stores : s.ws # CallOf(r).ws
<1>1. req \in [Requests -> Request]
  BY DEF TypeOK
<1>2. ASSUME AtStep(r, {"CountResources", "CountStores"}) PROVE ~Refuse(r) /\ ~Kill(r)
  BY <1>1, <1>2, GotoFacts DEF Refuse, AtStep, Unchecked, Ahead, Gone, Kill, Goto
<1>3. ASSUME AtStep(r, {"CountResources"}) PROVE CountResources(r)
  <2>1. ~StatementFails(r) /\ ~Kill(r)
    BY <1>2, <1>3 DEF StatementFails, AtStep
  <2> QED BY <1>3, <2>1 DEF Step, WorkspaceStep, StoreStep, ResourceStep, LayerStep, StyleStep, AtStep,
     CreateStyle, GetStyle, UpdateStyle, DeleteStyle,
     CreateWorkspace, UpdateWorkspace, CountStores, DeleteWorkspace, CreateStore,
     UpdateStore, DeleteStore, CreateResource, DeleteResource,
     PatchFeatureType, IngestGeoJSON, CreateLayer, GetLayer, UpdateLayer, PatchLayer,
     DeleteLayer, Publish, PublishFails
<1>4. ASSUME AtStep(r, {"CountStores"}) PROVE CountStores(r)
  <2>1. ~StatementFails(r) /\ ~Kill(r)
    BY <1>2, <1>4 DEF StatementFails, AtStep
  <2> QED BY <1>4, <2>1 DEF Step, WorkspaceStep, StoreStep, ResourceStep, LayerStep, StyleStep, AtStep,
     CreateStyle, GetStyle, UpdateStyle, DeleteStyle,
     CreateWorkspace, UpdateWorkspace, CountResources, DeleteWorkspace, CreateStore,
     UpdateStore, DeleteStore, CreateResource, DeleteResource,
     PatchFeatureType, IngestGeoJSON, CreateLayer, GetLayer, UpdateLayer, PatchLayer,
     DeleteLayer, Publish, PublishFails
<1>5. AtStep(r, {"CountResources"}) => ~Refuse(r)
  BY <1>2 DEF AtStep
<1>6. AtStep(r, {"CountStores"}) => ~Refuse(r)
  BY <1>2 DEF AtStep
<1> QED BY <1>3, <1>4, <1>5, <1>6 DEF CountResources, CountStores, tables

(* The first step of a delete that stands at its statement was the count.  *)
LEMMA DeleteAfterCount ==
    ASSUME TypeOK, ProgressOK, ProgressOK', TypeOK', NEW r \in Requests, Step(r), Moved(r),
           ~CallOf(r).recurse
    PROVE  /\ AtStep(r, {"DeleteStore"})' => Ahead(r) /\ AtStep(r, {"CountResources"})
           /\ AtStep(r, {"DeleteWorkspace"})' => Ahead(r) /\ AtStep(r, {"CountStores"})
<1>1. /\ CallOf(r) \in Call /\ CallOf(r)' = CallOf(r)
      /\ req[r].status = "running"
  BY CallType, SeenKept, StepRunning
<1>2. ASSUME NEW st \in {"DeleteStore", "DeleteWorkspace"}, AtStep(r, {st})'
      PROVE  /\ Ahead(r) /\ req[r].at = 1
             /\ StepsOf(CallOf(r))[2] = st /\ 2 \in 1 .. Len(StepsOf(CallOf(r)))
  <2>1. req'[r].status = "running" /\ StepsOf(CallOf(r))[req'[r].at] = st
    BY <1>1, <1>2 DEF AtStep, StepsOf
  <2>2. Ahead(r) /\ req[r].at \in Nat
    BY <2>1 DEF Moved, Gone, TypeOK, Request
  <2>3. req'[r].at \in 1 .. Len(StepsOf(CallOf(r)))
    BY <1>1, <2>1 DEF ProgressOK, StepsOf
  <2>4. req'[r].at = 2
    BY <1>1, <2>1, <2>3, StepsCounted
  <2> QED BY <2>1, <2>2, <2>3, <2>4 DEF Ahead
<1> QED BY <1>1, <1>2, StepsCounted DEF AtStep

LEMMA NoResources ==
    ASSUME TypeOK, NEW ws, \A s \in stores : s.ws # ws
    PROVE  \A x \in resources : x.ws # ws
BY DEF TypeOK, WellFormed

(* What another request adds is by an author unknown to the delete.        *)
LEMMA NewToOthers ==
    ASSUME TypeOK, ProgressOK, AuthorsOK, NEW r \in Requests, NEW q \in Requests
    PROVE  /\ AtStep(r, {"CreateStore", "EnsureStore"}) =>
                \A y \in req[q].seen \cap Store : y.by # r
           /\ AtStep(r, {"CreateResource"}) =>
                \A y \in req[q].seen \cap Resource : y.by # r
BY DoneOnce DEF AuthorsOK, StoreMade, ResourceMade

LEMMA StepSpared ==
    ASSUME TypeOK, ProgressOK, AuthorsOK, SparedOK, NEW r \in Requests, Step(r)
    PROVE  SparedOK'
<1>1. /\ Moved(r) /\ MadeStores(r) /\ MadeResources(r) /\ ProgressOK' /\ TypeOK'
      /\ \A q \in Requests : req'[q].seen = req[q].seen /\ CallOf(q)' = CallOf(q)
  BY StepMoves, StepMakes, StepProgress, StepType, SeenKept
<1>2. ASSUME NEW q \in Requests, ~CallOf(q).recurse, AtStep(q, {"DeleteStore"})',
             NEW x \in resources', NEW y \in req[q].seen \cap Resource,
             x.ws = CallOf(q).ws, x.store = CallOf(q).store
      PROVE  x.by # y.by
  <2>1. CASE q = r
    BY <1>1, <1>2, <2>1, DeleteAfterCount, Counted
  <2>2. CASE q # r
    <3>1. AtStep(q, {"DeleteStore"})
      BY <1>1, <1>2, <2>2 DEF AtStep, Moved, Others, CallOf
    <3>2. CASE \E z \in resources : x.ws = z.ws /\ x.store = z.store /\ x.by = z.by
      BY <1>2, <3>1, <3>2 DEF SparedOK
    <3>3. CASE x.by = r /\ AtStep(r, {"CreateResource"})
      BY <1>2, <3>3, NewToOthers
    <3> QED BY <1>1, <3>2, <3>3 DEF MadeResources
  <2> QED BY <2>1, <2>2
<1>3. ASSUME NEW q \in Requests, ~CallOf(q).recurse, AtStep(q, {"DeleteWorkspace"})',
             NEW x \in stores', NEW y \in req[q].seen \cap Store, x.ws = CallOf(q).ws
      PROVE  x.by # y.by
  <2>1. CASE q = r
    BY <1>1, <1>3, <2>1, DeleteAfterCount, Counted
  <2>2. CASE q # r
    <3>1. AtStep(q, {"DeleteWorkspace"})
      BY <1>1, <1>3, <2>2 DEF AtStep, Moved, Others, CallOf
    <3>2. CASE \E z \in stores : x.ws = z.ws /\ x.by = z.by
      BY <1>3, <3>1, <3>2 DEF SparedOK
    <3>3. CASE x.by = r /\ AtStep(r, {"CreateStore", "EnsureStore"})
      BY <1>3, <3>3, NewToOthers
    <3> QED BY <1>1, <3>2, <3>3 DEF MadeStores
  <2> QED BY <2>1, <2>2
<1>4. ASSUME NEW q \in Requests, ~CallOf(q).recurse, AtStep(q, {"DeleteWorkspace"})',
             NEW x \in resources', NEW y \in req[q].seen \cap Resource, x.ws = CallOf(q).ws
      PROVE  x.by # y.by
  <2>1. CASE q = r
    BY <1>1, <1>4, <2>1, DeleteAfterCount, Counted, NoResources
  <2>2. CASE q # r
    <3>1. AtStep(q, {"DeleteWorkspace"})
      BY <1>1, <1>4, <2>2 DEF AtStep, Moved, Others, CallOf
    <3>2. CASE \E z \in resources : x.ws = z.ws /\ x.store = z.store /\ x.by = z.by
      BY <1>4, <3>1, <3>2 DEF SparedOK
    <3>3. CASE x.by = r /\ AtStep(r, {"CreateResource"})
      BY <1>4, <3>3, NewToOthers
    <3> QED BY <1>1, <3>2, <3>3 DEF MadeResources
  <2> QED BY <2>1, <2>2
<1> QED BY <1>1, <1>2, <1>3, <1>4 DEF SparedOK
-----------------------------------------------------------------------------
(* What events have yet to follow.                                         *)

(* A handler tiles hear does not end before its events.                    *)
LEMMA NotYetOk ==
    ASSUME TypeOK, ProgressOK, NEW r \in Requests, Step(r), CallOf(r).op \in Heard, ~Publish(r)
    PROVE  req'[r].status # "ok"
<1>1. Moved(r) /\ CallOf(r) \in Call /\ req[r].status = "running"
  BY StepMoves, StepRunning, CallType
<1>2. \/ ~AtStep(r, {"Publish"})
      \/ Goto(r, "mute") \/ Goto(r, "killed")
  BY DEF Step, WorkspaceStep, StoreStep, ResourceStep, LayerStep, StyleStep, AtStep,
     CreateStyle, GetStyle, UpdateStyle, DeleteStyle,
     CreateWorkspace, UpdateWorkspace, CountStores, DeleteWorkspace, CreateStore,
     UpdateStore, CountResources, DeleteStore, CreateResource, DeleteResource,
     PatchFeatureType, IngestGeoJSON, CreateLayer, GetLayer, UpdateLayer, PatchLayer,
     DeleteLayer, PublishFails, StatementFails, Kill
<1>3. CASE ~AtStep(r, {"Publish"})
  <2>1. req[r].at \in 1 .. Len(StepsOf(CallOf(r)))
    BY <1>1 DEF ProgressOK
  <2>2. req[r].at # Len(StepsOf(CallOf(r)))
    BY <1>1, <1>3, <2>1, StepsAnnounced DEF AtStep
  <2> QED BY <1>1, <2>2 DEF Moved, Ahead, Gone
<1>4. CASE Goto(r, "mute") \/ Goto(r, "killed")
  BY <1>4, GotoFacts DEF TypeOK, Gone
<1> QED BY <1>2, <1>3, <1>4

(* What a layer shows depends on the resources and layers of its name.     *)
Under(key) == {x \in resources : x.ws = key[1] /\ x.name = key[2]}

LEMMA ShownSame ==
    ASSUME NEW k \in LayerKeys, Under(k)' = Under(k), UNCHANGED << stores, styles >>,
           LayersOf(k[1], k[2])' = LayersOf(k[1], k[2])
    PROVE  Shown(k)' = Shown(k)
<1>1. FeatureTypes(k)' = FeatureTypes(k)
  <2>1. \A x : x \in FeatureTypes(k) <=> x \in Under(k) /\ x.kind = "featuretype"
    BY DEF FeatureTypes, Under
  <2>2. \A x : x \in FeatureTypes(k)' <=> x \in Under(k)' /\ x.kind = "featuretype"
    BY DEF FeatureTypes, Under
  <2> QED BY <2>1, <2>2
<1>2. Coverages(k)' = Coverages(k)
  <2> DEFINE Drawn(p) == /\ p[1].kind = "coverage"
                         /\ p[2].ws = p[1].ws /\ p[2].name = p[1].store
                         /\ p[2].conn \in Rasters
  <2>1. Coverages(k) = {p \in Under(k) \X stores : Drawn(p)}
    BY DEF Coverages, Under
  <2>2. Coverages(k)' = {p \in Under(k)' \X stores' : Drawn(p)}
    BY DEF Coverages, Under
  <2> QED BY <2>1, <2>2
<1>3. \A ws, name : StyleShown(ws, name)' = StyleShown(ws, name)
  BY DEF StyleShown, StylesOf
<1> QED BY <1>1, <1>2, <1>3 DEF Shown

(* Only the named layer changes, by a handler that tiles hear or by the    *)
(* delete of a coverage.                                                   *)
LEMMA ShownElsewhere ==
    ASSUME TypeOK, ProgressOK, NEW r \in Requests, NEW k \in LayerKeys, Shown(k)' # Shown(k),
           \/ CreateResource(r) \/ DeleteResource(r) \/ PatchFeatureType(r)
           \/ CreateLayer(r) \/ UpdateLayer(r) \/ PatchLayer(r) \/ DeleteLayer(r)
    PROVE  k = KeyOf(CallOf(r)) /\ CallOf(r).op \in Heard \cup Unheard
<1> DEFINE c == CallOf(r)
<1>1. /\ k = KeyOf(c) <=> k[1] = c.ws /\ k[2] = c.name
      /\ KeyOf(c)[1] = c.ws /\ KeyOf(c)[2] = c.name
      /\ resources \subseteq Resource /\ layers \subseteq Layer
  BY DEF LayerKeys, KeyOf, TypeOK, WellFormed
<1>2. c.op \in Heard \cup Unheard
  <2>1. AtStep(r, OfResources \cup OfLayers \cup {"DeleteResource", "DeleteLayer", "DropLayer"})
    <3>1. CASE CreateResource(r) \/ DeleteResource(r) \/ PatchFeatureType(r)
      BY <3>1 DEF CreateResource, DeleteResource, PatchFeatureType, AtStep, OfResources
    <3>2. CASE CreateLayer(r) \/ PatchLayer(r) \/ DeleteLayer(r)
      BY <3>2 DEF CreateLayer, PatchLayer, DeleteLayer, AtStep, OfLayers
    <3>3. CASE UpdateLayer(r)
      BY <3>3 DEF UpdateLayer, AtStep, OfLayers
    <3> QED BY <3>1, <3>2, <3>3
  <2> QED BY <2>1, AtFacts, StepsAnnounced
<1> SUFFICES ASSUME ~(k[1] = c.ws /\ k[2] = c.name) PROVE Shown(k)' = Shown(k)
  BY <1>1, <1>2
<1>3. CASE CreateResource(r)
  <2>1. UNCHANGED << stores, layers, styles >>
    BY <1>3 DEF CreateResource
  <2>2. Under(k)' = Under(k)
    BY <1>3 DEF CreateResource, Under
  <2> QED BY <2>1, <2>2, ShownSame DEF LayersOf
<1>4. CASE DeleteResource(r)
  <2>1. UNCHANGED << stores, layers, styles >>
    BY <1>4 DEF DeleteResource
  <2>2. Under(k)' = Under(k)
    BY <1>4 DEF DeleteResource, Under, ResourcesOf
  <2> QED BY <2>1, <2>2, ShownSame DEF LayersOf
<1>5. CASE PatchFeatureType(r)
  <2> DEFINE rows == FeatureTypes(KeyOf(c))
             Patched(x) == [x EXCEPT !.meta = c.meta]
  <2>1. UNCHANGED << stores, layers, styles >>
    BY <1>5 DEF PatchFeatureType
  <2>2. /\ \A x \in rows : x \in resources /\ x.ws = c.ws /\ x.name = c.name
        /\ \A x \in Resource : Patched(x).ws = x.ws /\ Patched(x).name = x.name
    BY <1>1 DEF FeatureTypes, Resource
  <2>3. UNCHANGED resources \/ resources' = (resources \ rows) \cup {Patched(x) : x \in rows}
    BY <1>5 DEF PatchFeatureType
  <2> HIDE DEF Patched, rows
  <2>4. Under(k)' = Under(k)
    <3>1. CASE resources' = (resources \ rows) \cup {Patched(x) : x \in rows}
      <4>1. \A x \in Under(k)' : x \in Under(k)
        BY <1>1, <2>2, <3>1 DEF Under
      <4>2. \A x \in Under(k) : x \in Under(k)'
        BY <1>1, <2>2, <3>1 DEF Under
      <4> QED BY <4>1, <4>2
    <3>2. CASE UNCHANGED resources
      BY <3>2 DEF Under
    <3> QED BY <2>3, <3>1, <3>2
  <2> QED BY <2>1, <2>4, ShownSame DEF LayersOf
<1>6. CASE CreateLayer(r) \/ UpdateLayer(r) \/ PatchLayer(r) \/ DeleteLayer(r)
  <2> DEFINE rows == LayersOf(c.ws, c.name)
  <2>1. UNCHANGED << stores, resources, styles >>
    <3>1. CASE UpdateLayer(r)
      BY <3>1 DEF UpdateLayer
    <3> QED BY <1>6, <3>1 DEF CreateLayer, PatchLayer, DeleteLayer
  <2>2. /\ \A l \in layers' : l \in layers \/ (l.ws = c.ws /\ l.name = c.name)
        /\ \A l \in layers : l \in layers' \/ (l.ws = c.ws /\ l.name = c.name)
    <3>1. rows \subseteq Layer /\ \A l \in rows : l.ws = c.ws /\ l.name = c.name
      BY <1>1 DEF LayersOf
    <3>2. CASE CreateLayer(r)
      BY <3>2 DEF CreateLayer
    <3>3. CASE UpdateLayer(r)
      <4>1. PICK old \in req[r].read :
              LET style == IF c.style = Keep THEN old.style ELSE c.style IN
              layers' = (layers \ rows) \cup
                 {[l EXCEPT !.style = style, !.enabled = old.enabled] : l \in rows}
        BY <3>3 DEF UpdateLayer
      <4> QED BY <3>1, <4>1 DEF Layer
    <3>4. CASE PatchLayer(r)
      <4> DEFINE Patched(l) == [l EXCEPT !.style = IF c.style = Keep THEN @ ELSE c.style,
                               !.enabled = IF c.enabled = Keep THEN @ ELSE c.enabled = "true"]
      <4>1. layers' = (layers \ rows) \cup {Patched(l) : l \in rows}
        BY <3>4 DEF PatchLayer
      <4>2. \A l \in Layer : Patched(l).ws = l.ws /\ Patched(l).name = l.name
        BY DEF Layer
      <4> HIDE DEF Patched
      <4> QED BY <3>1, <4>1, <4>2
    <3>5. CASE DeleteLayer(r)
      BY <3>1, <3>5 DEF DeleteLayer
    <3> QED BY <1>6, <3>2, <3>3, <3>4, <3>5
  <2>3. LayersOf(k[1], k[2])' = LayersOf(k[1], k[2])
    BY <2>2 DEF LayersOf
  <2> QED BY <2>1, <2>3, ShownSame DEF Under
<1> QED BY <1>3, <1>4, <1>5, <1>6

LEMMA StepNewPending ==
    ASSUME TypeOK, ProgressOK, NEW r \in Requests, Step(r), NEW k \in LayerKeys,
           r \in pending'[k], r \notin pending[k]
    PROVE  \/ CallOf(r).op \in Cascades \cup Unheard
           \/ CallOf(r).op = "v1Ingest" /\ k # KeyOf(CallOf(r))
           \/ CallOf(r).op \in Heard /\ k = KeyOf(CallOf(r)) /\ ~Publish(r)
<1>1. pending \in [LayerKeys -> SUBSET Requests] /\ KeyOf(CallOf(r)) \in LayerKeys
  BY CallType, KeyType DEF TypeOK
<1>2. CASE DeleteWorkspace(r) \/ DeleteStore(r)
  BY <1>2, AtFacts, StepsAnnounced DEF DeleteWorkspace, DeleteStore
<1>3. CASE \/ CreateResource(r) \/ DeleteResource(r) \/ PatchFeatureType(r)
           \/ CreateLayer(r) \/ UpdateLayer(r) \/ PatchLayer(r) \/ DeleteLayer(r)
  <2>1. Changed(r) /\ ~Publish(r)
    <3>1. CASE UpdateLayer(r)
      BY <3>1 DEF UpdateLayer, Publish, AtStep
    <3> QED BY <1>3, <3>1 DEF CreateResource, DeleteResource, PatchFeatureType,
          CreateLayer, PatchLayer, DeleteLayer, Publish, AtStep
  <2>2. Shown(k)' # Shown(k)
    BY <2>1 DEF Changed
  <2> QED BY <1>3, <2>1, <2>2, ShownElsewhere
<1>4. CASE UpdateStore(r) \/ CreateStyle(r) \/ UpdateStyle(r) \/ DeleteStyle(r)
  <2>1. AtStep(r, OfUnheard)
    BY <1>4 DEF UpdateStore, CreateStyle, UpdateStyle, DeleteStyle, AtStep, OfUnheard
  <2> QED BY <2>1, AtFacts, StepsAnnounced
<1>5. CASE IngestGeoJSON(r)
  <2>1. CallOf(r).op = "v1Ingest" /\ ~Publish(r)
    BY <1>5, AtFacts, StepsAnnounced DEF IngestGeoJSON, Publish, AtStep
  <2> QED BY <2>1 DEF Heard
<1>6. CASE Publish(r)
  BY <1>1, <1>6 DEF Publish
<1>7. CASE UNCHANGED pending
  BY <1>7
<1> QED BY <1>2, <1>3, <1>4, <1>5, <1>6, <1>7 DEF Step, WorkspaceStep, StoreStep, ResourceStep,
      LayerStep, StyleStep, CreateWorkspace, UpdateWorkspace, CountStores, CreateStore,
      CountResources, GetLayer, GetStyle, PublishFails, StatementFails, Kill

LEMMA StepPendingOK ==
    ASSUME TypeOK, ProgressOK, PendingOK, NEW r \in Requests, Step(r) PROVE PendingOK'
<1>1. /\ Moved(r) /\ \A q \in Requests : CallOf(q)' = CallOf(q)
      /\ pending \in [LayerKeys -> SUBSET Requests]
      /\ pending' \in [LayerKeys -> SUBSET Requests]
      /\ \A k \in LayerKeys : pending'[k] \subseteq pending[k] \cup {r}
  BY StepMoves, SeenKept, StepPending DEF TypeOK
<1>2. ASSUME NEW k \in LayerKeys, NEW q \in pending'[k]
      PROVE  \/ CallOf(q).op \in Cascades \cup Unheard
             \/ CallOf(q).op = "v1Ingest" /\ k # KeyOf(CallOf(q))
             \/ CallOf(q).op \in Heard /\ k = KeyOf(CallOf(q)) /\ req'[q].status # "ok"
  <2>1. CASE q # r
    <3>1. q \in pending[k] /\ q \in Requests
      BY <1>1, <1>2, <2>1
    <3>2. req'[q] = req[q]
      BY <1>1, <2>1, <3>1 DEF Moved, Others
    <3> QED BY <3>1, <3>2 DEF PendingOK
  <2>2. CASE q = r
    <3>1. \/ CallOf(r).op \in Cascades \cup Unheard
          \/ CallOf(r).op = "v1Ingest" /\ k # KeyOf(CallOf(r))
          \/ CallOf(r).op \in Heard /\ k = KeyOf(CallOf(r))
      BY <1>2, <2>2, StepNewPending DEF PendingOK
    <3>2. CASE CallOf(r).op \in Heard /\ k = KeyOf(CallOf(r))
      <4>1. ~Publish(r)
        BY <1>1, <1>2, <2>2, <3>2 DEF Publish
      <4> QED BY <2>2, <3>2, <4>1, NotYetOk
    <3> QED BY <2>2, <3>1, <3>2
  <2> QED BY <2>1, <2>2
<1> QED BY <1>1, <1>2 DEF PendingOK
-----------------------------------------------------------------------------
(* A request that comes in.                                                *)

LEMMA StoresAreNoResources == Store \cap Resource = {}
BY DEF Store, Resource

LEMMA SendFacts ==
    ASSUME TypeOK, NEW r \in Requests, Send(r)
    PROVE  /\ req' \in [Requests -> Request] /\ Others(r)
           /\ req'[r].call = req[r].call /\ req'[r].at = req[r].at
           /\ req'[r].status = "running" /\ req'[r].seen = stores \cup resources
<1>1. /\ req \in [Requests -> Request] /\ req[r] \in Request
      /\ stores \cup resources \in SUBSET (Store \cup Resource)
      /\ req' = [req EXCEPT ![r].status = "running", ![r].seen = stores \cup resources]
  BY DEF TypeOK, WellFormed, Send
<1>2. \A seen \in SUBSET (Store \cup Resource) :
        [req[r] EXCEPT !.status = "running", !.seen = seen] \in Request
  BY <1>1 DEF Request
<1>3. req'[r] = [req[r] EXCEPT !.status = "running", !.seen = stores \cup resources]
  BY <1>1
<1>4. req'[r] \in Request
  BY <1>1, <1>2, <1>3
<1> QED BY <1>1, <1>3, <1>4 DEF Others, Request

LEMMA SendInv == ASSUME Inv, NEW r \in Requests, Send(r) PROVE Inv'
<1>1. /\ UNCHANGED << workspaces, stores, resources, layers, styles, budget, pending >>
      /\ req[r].status = "new"
      /\ req' \in [Requests -> Request] /\ Others(r)
      /\ req'[r].call = req[r].call /\ req'[r].at = req[r].at
      /\ req'[r].status = "running" /\ req'[r].seen = stores \cup resources
  BY SendFacts DEF Inv, Send, tables
<1>2. \A q \in Requests : CallOf(q)' = CallOf(q) /\ req'[q].at = req[q].at
  BY <1>1 DEF Others, CallOf
<1>3. TypeOK'
  BY <1>1 DEF Inv, TypeOK
<1>4. ProgressOK'
  BY <1>1, <1>2 DEF Inv, ProgressOK, Others, StepsOf
<1>5. ASSUME NEW x PROVE /\ StoreMade(x)' <=> StoreMade(x)
                         /\ ResourceMade(x)' <=> ResourceMade(x)
  BY <1>2 DEF StoreMade, ResourceMade, Done, StepsOf
<1>6. AuthorsOK'
  <2>1. ASSUME NEW q \in Requests
        PROVE  /\ \A y \in req'[q].seen \cap Store : StoreMade(y)
               /\ \A y \in req'[q].seen \cap Resource : ResourceMade(y)
    <3>1. CASE q # r
      BY <1>1, <3>1 DEF Inv, AuthorsOK, Others
    <3>2. CASE q = r
      <4>1. stores \cap Resource = {} /\ resources \cap Store = {}
        BY StoresAreNoResources DEF Inv, TypeOK, WellFormed
      <4> QED BY <1>1, <3>2, <4>1 DEF Inv, AuthorsOK
    <3> QED BY <3>1, <3>2
  <2> QED BY <1>1, <1>5, <2>1 DEF Inv, AuthorsOK
<1>7. SparedOK'
  <2>1. ASSUME NEW q \in Requests, q # r, NEW steps
        PROVE  AtStep(q, steps)' <=> AtStep(q, steps)
    BY <1>1, <2>1 DEF AtStep, Others, CallOf
  <2>2. ASSUME ~CallOf(r).recurse
        PROVE  ~AtStep(r, {"DeleteStore"})' /\ ~AtStep(r, {"DeleteWorkspace"})'
    <3>1. /\ CallOf(r) \in Call /\ req[r].at = 1
          /\ 1 \in 1 .. Len(StepsOf(CallOf(r)))
      BY <1>1, CallType DEF Inv, ProgressOK
    <3>2. StepsOf(CallOf(r))[1] \notin {"DeleteStore", "DeleteWorkspace"}
      BY <2>2, <3>1, StepsCounted
    <3> QED BY <1>2, <3>1, <3>2 DEF AtStep, StepsOf
  <2>3. ASSUME NEW q \in Requests, q # r
        PROVE  CallOf(q)' = CallOf(q) /\ req'[q].seen = req[q].seen
    BY <1>1, <2>3 DEF Others, CallOf
  <2>4. ASSUME NEW q \in Requests, ~CallOf(q)'.recurse, AtStep(q, {"DeleteStore"})'
        PROVE  \A x \in resources, y \in req'[q].seen \cap Resource :
                 x.ws = CallOf(q)'.ws /\ x.store = CallOf(q)'.store => x.by # y.by
    <3>1. q # r
      BY <1>2, <2>2, <2>4
    <3>2. AtStep(q, {"DeleteStore"}) /\ ~CallOf(q).recurse
      BY <2>1, <2>3, <2>4, <3>1
    <3> QED BY <2>3, <3>1, <3>2 DEF Inv, SparedOK
  <2>5. ASSUME NEW q \in Requests, ~CallOf(q)'.recurse, AtStep(q, {"DeleteWorkspace"})'
        PROVE  /\ \A x \in stores, y \in req'[q].seen \cap Store :
                    x.ws = CallOf(q)'.ws => x.by # y.by
               /\ \A x \in resources, y \in req'[q].seen \cap Resource :
                    x.ws = CallOf(q)'.ws => x.by # y.by
    <3>1. q # r
      BY <1>2, <2>2, <2>5
    <3>2. AtStep(q, {"DeleteWorkspace"}) /\ ~CallOf(q).recurse
      BY <2>1, <2>3, <2>5, <3>1
    <3> QED BY <2>3, <3>1, <3>2 DEF Inv, SparedOK
  <2> QED BY <1>1, <2>4, <2>5 DEF SparedOK
<1>8. PendingOK'
  <2>1. ASSUME NEW k \in LayerKeys, NEW q \in pending[k]
        PROVE  /\ q \in Requests
               /\ req'[q].status = req[q].status \/ req'[q].status # "ok"
    BY <1>1 DEF Inv, TypeOK, Others
  <2> QED BY <1>1, <1>2, <2>1 DEF Inv, PendingOK
<1> QED BY <1>3, <1>4, <1>6, <1>7, <1>8 DEF Inv
-----------------------------------------------------------------------------
(* The invariant holds at the start and after every step.                  *)

LEMMA SomeSteps ==
    ASSUME NEW op, NEW s, \/ HeardSteps(op, s) \/ QuietSteps(op, s)
                          \/ CountedSteps(op, s) \/ CascadeSteps(op, s)
    PROVE  1 \in 1 .. Len(s)
<1>1. CASE HeardSteps(op, s)
  BY <1>1 DEF HeardSteps
<1>2. CASE QuietSteps(op, s)
  <2>1. (\E x : s = << x >>) \/ (\E x, y : s = << x, y >>) \/ (\E x, y, z : s = << x, y, z >>)
    BY <1>2, Zenon DEF QuietSteps
  <2> QED BY <2>1
<1>3. CASE CountedSteps(op, s) \/ CascadeSteps(op, s)
  BY <1>3 DEF CountedSteps, CascadeSteps
<1> QED BY <1>1, <1>2, <1>3

LEMMA FirstStep == ASSUME NEW call \in Call PROVE 1 \in 1 .. Len(StepsOf(call))
BY CallSteps, SomeSteps

LEMMA InitInv == Init => Inv
<1> SUFFICES ASSUME Init PROVE Inv
  OBVIOUS
<1>1. PICK c \in Catalogs :
        /\ workspaces = c.workspaces /\ stores = c.stores /\ resources = c.resources
        /\ layers = c.layers /\ styles = c.styles
  BY DEF Init
<1>2. WellFormed(c) /\ \A x \in stores \cup resources : x.by = Seeder
  BY <1>1
<1>3. \A r \in Requests :
        /\ req[r] \in [status : {"new"}, call : Calls, at : {1}, read : {{}}, seen : {{}}]
        /\ req[r].status = "new" /\ req[r].call \in Calls /\ req[r].at = 1
        /\ req[r].read = {} /\ req[r].seen = {}
  BY DEF Init
<1>4. TablesOK
  BY <1>1, <1>2 DEF TablesOK, WellFormed
<1>5. TypeOK
  <2>1. req \in [Requests -> Request]
    BY <1>3 DEF Init, Request
  <2>2. budget \in [errors : Nat, lost : Nat, kills : Nat]
    BY DEF Init
  <2>3. pending \in [LayerKeys -> SUBSET Requests]
    BY DEF Init
  <2> QED BY <1>4, <2>1, <2>2, <2>3 DEF TypeOK, TablesOK
<1>6. ProgressOK
  BY <1>3, <1>5, CallType, FirstStep DEF ProgressOK
<1>7. AuthorsOK
  BY <1>2, <1>3 DEF AuthorsOK, StoreMade, ResourceMade
<1>8. SparedOK
  BY <1>3 DEF SparedOK, AtStep
<1>9. PendingOK
  BY DEF Init, PendingOK
<1> QED BY <1>5, <1>6, <1>7, <1>8, <1>9 DEF Inv

LEMMA NextSteps == Next <=> \E r \in Requests : Send(r) \/ Step(r)
BY DEF Next, Step

LEMMA StutterInv == ASSUME Inv, UNCHANGED vars PROVE Inv'
<1>1. /\ UNCHANGED << workspaces, stores, resources, layers, styles >>
      /\ req' = req /\ budget' = budget /\ pending' = pending
  BY DEF vars, tables
<1>2. TypeOK' /\ ProgressOK' /\ PendingOK'
  BY <1>1 DEF Inv, TypeOK, ProgressOK, PendingOK, CallOf, StepsOf
<1>3. AuthorsOK'
  BY <1>1 DEF Inv, AuthorsOK, StoreMade, ResourceMade, Done, CallOf, StepsOf
<1>4. SparedOK'
  BY <1>1 DEF Inv, SparedOK, AtStep, CallOf, StepsOf
<1> QED BY <1>2, <1>3, <1>4 DEF Inv

LEMMA NextInv == Inv /\ [Next]_vars => Inv'
<1> SUFFICES ASSUME Inv, [Next]_vars PROVE Inv'
  OBVIOUS
<1>1. CASE UNCHANGED vars
  BY <1>1, StutterInv
<1>2. ASSUME NEW r \in Requests, Send(r) PROVE Inv'
  BY <1>2, SendInv
<1>3. ASSUME NEW r \in Requests, Step(r) PROVE Inv'
  BY <1>3, StepType, StepProgress, StepAuthors, StepSpared, StepPendingOK DEF Inv
<1> QED BY <1>1, <1>2, <1>3, NextSteps

(* Types, where the requests stand, who made the rows, what deletes meet   *)
(* and what events have yet to follow, together.                           *)
THEOREM CatalogInvariant == Spec => []Inv
BY InitInv, NextInv, PTL DEF Spec

(* Whatever the requests do and whatever fails, the state keeps its form,  *)
(* and the rows their keys and references: each statement checks what the  *)
(* schema demands (internal/store).                                        *)
THEOREM CatalogTypeCorrect == Spec => []TypeOK
<1>1. Inv => TypeOK
  BY DEF Inv
<1> QED BY <1>1, CatalogInvariant, PTL

(* A request that has ended well leaves no change of what a layer's tiles  *)
(* show without a later event about that layer: the events are the last    *)
(* step of every handler that tiles hear (rest, events.Publish).  Excepted *)
(* are cascades, uploads for the other layers of the same table, and the   *)
(* handlers of Unheard, by which a store, a style or a deleted coverage    *)
(* changes images with no event that tiles hear.                           *)
THEOREM ChangesAreAnnounced == Spec => []ChangesAnnounced
<1>1. Inv => ChangesAnnounced
  BY DEF Inv, PendingOK, ChangesAnnounced, Cascades
<1> QED BY <1>1, CatalogInvariant, PTL
-----------------------------------------------------------------------------
(* What a delete without recurse takes with it.                            *)

(* A row the delete has seen and takes would not be by its own author.     *)
LEMMA StoreSpared ==
    ASSUME Inv, NEW r \in Requests, ~CallOf(r).recurse, DeleteStore(r)
    PROVE  req[r].seen \cap resources \subseteq resources'
<1>1. SUFFICES ASSUME NEW x \in req[r].seen \cap resources, x \notin resources' PROVE FALSE
  OBVIOUS
<1>2. AtStep(r, {"DeleteStore"}) /\ x \in Resource
  BY DEF DeleteStore, Inv, TypeOK, WellFormed
<1>3. x.ws = CallOf(r).ws /\ x.store = CallOf(r).store
  BY <1>1 DEF DeleteStore, StoresOf
<1> QED BY <1>1, <1>2, <1>3 DEF Inv, SparedOK

LEMMA WorkspaceSpared ==
    ASSUME Inv, NEW r \in Requests, ~CallOf(r).recurse, DeleteWorkspace(r)
    PROVE  req[r].seen \cap (stores \cup resources) \subseteq stores' \cup resources'
<1>1. SUFFICES ASSUME NEW x \in req[r].seen, x \in stores \cup resources,
                      x \notin stores' \cup resources'
               PROVE  FALSE
  OBVIOUS
<1>2. AtStep(r, {"DeleteWorkspace"}) /\ stores \subseteq Store /\ resources \subseteq Resource
  BY DEF DeleteWorkspace, Inv, TypeOK, WellFormed
<1>3. x.ws = CallOf(r).ws
  BY <1>1 DEF DeleteWorkspace, tables
<1> QED BY <1>1, <1>2, <1>3 DEF Inv, SparedOK

(* At its delete a request takes it, or its step changes no table.         *)
LEMMA OtherSteps ==
    ASSUME NEW r \in Requests, Step(r), AtStep(r, {"DeleteStore", "DeleteWorkspace"})
    PROVE  DeleteStore(r) \/ DeleteWorkspace(r) \/ UNCHANGED tables
BY DEF Step, WorkspaceStep, StoreStep, ResourceStep, LayerStep, StyleStep, AtStep,
     CreateStyle, GetStyle, UpdateStyle, DeleteStyle,
     CreateWorkspace, UpdateWorkspace, CountStores, CreateStore, UpdateStore,
     CountResources, CreateResource, DeleteResource, PatchFeatureType, IngestGeoJSON,
     CreateLayer, GetLayer, UpdateLayer, PatchLayer, DeleteLayer, Publish, PublishFails,
     StatementFails, Kill

Spared(q) ==
    /\ AtStep(q, {"DeleteStore"}) =>
         req[q].seen \cap resources \subseteq resources'
    /\ AtStep(q, {"DeleteWorkspace"}) =>
         req[q].seen \cap (stores \cup resources) \subseteq stores' \cup resources'

LEMMA StepSpares ==
    ASSUME Inv, NEW r \in Requests, Step(r), ~CallOf(r).recurse PROVE Spared(r)
<1>1. AtStep(r, {"DeleteStore"}) => DeleteStore(r) \/ UNCHANGED tables
  BY OtherSteps DEF AtStep, DeleteWorkspace
<1>2. AtStep(r, {"DeleteWorkspace"}) => DeleteWorkspace(r) \/ UNCHANGED tables
  BY OtherSteps DEF AtStep, DeleteStore
<1> QED BY <1>1, <1>2, StoreSpared, WorkspaceSpared DEF Spared, tables

(* A delete without recurse cascades to no store and no resource that was  *)
(* there when it came in: between its count and its statement only rows    *)
(* of requests that had made none by then can come in its way (store.go    *)
(* DeleteWorkspace, DeleteStore).                                          *)
THEOREM DeletesSpare == Spec => DeletesSpareWhatTheySaw
<1>1. ASSUME Inv, [Next]_vars, NEW q \in Requests, req'[q] # req[q], ~CallOf(q).recurse
      PROVE  Spared(q)
  <2>1. PICK r \in Requests : Send(r) \/ Step(r)
    BY <1>1, NextSteps DEF vars
  <2>2. CASE Send(r)
    <3>1. q = r /\ req[r].status = "new"
      BY <1>1, <2>2 DEF Send, Inv, TypeOK
    <3> QED BY <3>1 DEF Spared, AtStep
  <2>3. CASE Step(r)
    <3>1. q = r
      BY <1>1, <2>3, StepMoves DEF Inv, Moved, Others
    <3> QED BY <1>1, <2>3, <3>1, StepSpares
  <2> QED BY <2>1, <2>2, <2>3
<1>2. Inv /\ [Next]_vars =>
        [\A r \in Requests :
           req'[r] # req[r] /\ ~CallOf(r).recurse =>
             /\ AtStep(r, {"DeleteStore"}) =>
                  req[r].seen \cap resources \subseteq resources'
             /\ AtStep(r, {"DeleteWorkspace"}) =>
                  req[r].seen \cap (stores \cup resources) \subseteq stores' \cup resources'
        ]_vars
  BY <1>1 DEF Spared
<1> QED BY <1>2, CatalogInvariant, PTL DEF Spec, DeletesSpareWhatTheySaw

=============================================================================
