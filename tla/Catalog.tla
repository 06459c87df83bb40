------------------------------- MODULE Catalog -------------------------------
(***************************************************************************)
(* The catalog service (services/catalog): workspaces, stores, resources,  *)
(* layers and styles in Postgres, the REST handlers that change them.  A    *)
(* handler is a sequence of statements, each a transaction of its own, and *)
(* ends by publishing events on NATS, which the tile service answers by     *)
(* dropping the tiles of the layer the event names.  A handler is given     *)
(* here as the sequence of its steps; the requests in progress take theirs  *)
(* in any order.                                                            *)
(*                                                                         *)
(* Layer groups and settings are left out: single statements about rows    *)
(* nothing here refers to.                                                 *)
(***************************************************************************)
EXTENDS Naturals, Sequences

CONSTANTS
    Workspaces, StoreNames, Names, Metas,
    Styles, Bodies, \* names of styles, and what is in them
    Conns,          \* what a store connects to
    Rasters,        \* the connections of coverage stores
    sanitizeIdent,  \* [Names -> Names], the table an upload goes to
    Requests,       \* the requests in progress at some time
    Calls,          \* what a request may ask for
    Catalogs,       \* the catalogs a behaviour may start from
    Seeder,         \* the author of the rows a behaviour starts from
    MaxDbErrors,    \* bound: statements that fail
    MaxLost,        \* bound: publications that fail
    MaxKills        \* bound: requests whose process dies

Kinds == {"featuretype", "coverage"}
Keep == "keep"      \* a field a patch leaves alone
Global == ""        \* the workspace of a style of none

ASSUME BudgetAssumption ==
    MaxDbErrors \in Nat /\ MaxLost \in Nat /\ MaxKills \in Nat
ASSUME SeederAssumption == Seeder \notin Requests
\* New rows take some metadata and some style.
ASSUME DefaultsAssumption == Metas # {} /\ Styles # {}
ASSUME IdentAssumption == sanitizeIdent \in [Names -> Names]

VARIABLES
    workspaces, \* names
    stores,     \* rows [ws, name, conn, by]
    resources,  \* rows [ws, store, name, native, kind, meta, by]
    layers,     \* rows [ws, name, type, style, enabled]
    styles,     \* rows [ws, name, body]
    req,        \* [Requests -> Request]
    budget,     \* what is left of the bounds
    pending     \* history: for each layer, the requests that changed what its
                \* tiles show and that no event about it has followed

tables == << workspaces, stores, resources, layers, styles >>
vars == << tables, req, budget, pending >>

-----------------------------------------------------------------------------
(* Types.                                                                  *)

Authors == Requests \cup {Seeder}

\* by tells a row from one created later under the same key.
Store == [ws : Workspaces, name : StoreNames, conn : Conns, by : Authors]
Resource == [ws : Workspaces, store : StoreNames, name : Names, native : Names,
             kind : Kinds, meta : Metas, by : Authors]
Layer == [ws : Workspaces, name : Names, type : {"VECTOR", "RASTER"},
          style : Styles, enabled : BOOLEAN]
Style == [ws : Workspaces \cup {Global}, name : Styles, body : Bodies]

\* The names under which the tile service caches.
LayerKeys == Workspaces \X Names

\* Types of the rows, their keys and their references (0001_init.sql).
WellFormed(c) ==
    /\ c.workspaces \subseteq Workspaces
    /\ c.stores \subseteq Store
    /\ c.resources \subseteq Resource
    /\ c.layers \subseteq Layer
    /\ c.styles \subseteq Style
    /\ \A s \in c.stores : s.ws \in c.workspaces
    /\ \A x \in c.resources : \E s \in c.stores : s.ws = x.ws /\ s.name = x.store
    /\ \A l \in c.layers : l.ws \in c.workspaces
    /\ \A s, t \in c.stores : s.ws = t.ws /\ s.name = t.name => s = t
    /\ \A x, y \in c.resources :
         x.ws = y.ws /\ x.store = y.store /\ x.name = y.name => x = y
    /\ \A l, m \in c.layers : l.ws = m.ws /\ l.name = m.name => l = m
    /\ \A y, z \in c.styles : y.ws = z.ws /\ y.name = z.name => y = z

ASSUME CatalogsAssumption ==
    \A c \in Catalogs :
        WellFormed(c) /\ \A x \in c.stores \cup c.resources : x.by = Seeder

-----------------------------------------------------------------------------
(* The handlers.                                                           *)

createWorkspace    == << "CreateWorkspace", "Publish" >>
updateWorkspace    == << "UpdateWorkspace", "Publish" >>
deleteWorkspace    == << "CountStores", "DeleteWorkspace", "Publish" >>
createStoreH       == << "CreateStore", "Publish" >>
updateStoreH       == << "UpdateStore", "Publish" >>
deleteStoreH       == << "CountResources", "DeleteStore", "Publish" >>
v1CreateStore      == << "CreateStore", "Publish" >>
v1UpdateStore      == << "UpdateStore" >>
v1DeleteStore      == << "CountResources", "DeleteStore" >>
\* Slip: the events are published first.
createFeatureTypePublishFirst == << "Publish", "CreateResource", "CreateLayer" >>
createFeatureType  == << "CreateResource", "CreateLayer", "Publish" >>
deleteFeatureType  == << "DeleteResource", "Publish" >>
createCoverage     == << "CreateResource", "CreateLayer", "Publish" >>
deleteCoverage     == << "DeleteResource", "Publish" >>
updateLayer        == << "GetLayer", "UpdateLayer", "Publish" >>
deleteLayer        == << "DeleteLayer", "Publish" >>
v1PatchLayer       == << "PatchLayer", "Publish" >>
v1PatchFeatureType == << "PatchFeatureType", "Publish" >>
createStyle        == << "CreateStyle", "Publish" >>
createStyleWS      == << "CreateStyle", "Publish" >>
updateStyle        == << "GetStyle", "UpdateStyle", "Publish" >>
deleteStyle        == << "DeleteStyle", "Publish" >>
v1CreateStyle      == << "CreateStyle" >>
v1UpdateStyle      == << "UpdateStyle", "Publish" >>
v1DeleteStyle      == << "DeleteStyle" >>
v1Ingest == << "IngestGeoJSON", "EnsureWorkspace", "EnsureStore",
               "CreateResource", "EnsureLayer", "Publish" >>
v1RegisterCoverage == << "EnsureWorkspace", "EnsureStore", "CreateResource",
                         "EnsureLayer", "Publish" >>

Handler ==
    [createWorkspace |-> createWorkspace, updateWorkspace |-> updateWorkspace,
     deleteWorkspace |-> deleteWorkspace, createStoreH |-> createStoreH,
     updateStoreH |-> updateStoreH, deleteStoreH |-> deleteStoreH,
     v1CreateStore |-> v1CreateStore, v1UpdateStore |-> v1UpdateStore,
     v1DeleteStore |-> v1DeleteStore, createFeatureType |-> createFeatureType,
     deleteFeatureType |-> deleteFeatureType, createCoverage |-> createCoverage,
     deleteCoverage |-> deleteCoverage, updateLayer |-> updateLayer,
     deleteLayer |-> deleteLayer, v1PatchLayer |-> v1PatchLayer,
     v1PatchFeatureType |-> v1PatchFeatureType, v1Ingest |-> v1Ingest,
     v1RegisterCoverage |-> v1RegisterCoverage, createStyle |-> createStyle,
     createStyleWS |-> createStyleWS, updateStyle |-> updateStyle,
     deleteStyle |-> deleteStyle, v1CreateStyle |-> v1CreateStyle,
     v1UpdateStyle |-> v1UpdateStyle, v1DeleteStyle |-> v1DeleteStyle]

\* With ?recurse=true a delete counts nothing, or takes the layer first.
Recursing ==
    [Handler EXCEPT !.deleteWorkspace = Tail(@), !.deleteStoreH = Tail(@),
                    !.v1DeleteStore = Tail(@),
                    !.deleteFeatureType = << "DropLayer", @[1], @[2] >>,
                    !.deleteCoverage = << "DropLayer", @[1], @[2] >>]

\* Steps whose error the handler discards.
Unchecked == {"EnsureWorkspace", "EnsureStore", "EnsureLayer", "DropLayer"}

\* Operations on coverages, and operations whose events name a layer the tile
\* service listens to (catalog.layer.*, catalog.featuretype.*).
OnCoverages == {"createCoverage", "deleteCoverage", "v1RegisterCoverage"}
Heard == {"createFeatureType", "deleteFeatureType", "createCoverage",
          "updateLayer", "deleteLayer", "v1PatchLayer", "v1PatchFeatureType",
          "v1Ingest", "v1RegisterCoverage"}

\* to: the new name of a workspace; recurse: the query parameter; style: the
\* default style of a layer, or the name of a style.
Call == [op : DOMAIN Handler, ws : Workspaces, to : Workspaces,
         store : StoreNames, conn : Conns, name : Names, native : Names,
         recurse : BOOLEAN, style : Styles \cup {Keep}, body : Bodies,
         enabled : {"true", "false", Keep}, meta : Metas \cup {Keep}]

StepsOf(call) == (IF call.recurse THEN Recursing ELSE Handler)[call.op]

ASSUME CallsAssumption == Calls \subseteq Call

\* status "mute": answered with success, the event was lost.
\* read: the layer row updateLayer has read; seen: the stores and resources
\* that were there when the request came in.
Request == [status : {"new", "running", "ok", "mute", "error", "killed"},
            call : Calls, at : Nat, read : SUBSET Layer,
            seen : SUBSET (Store \cup Resource)]

CallOf(r) == req[r].call
KindOf(call) == IF call.op \in OnCoverages THEN "coverage" ELSE "featuretype"
KeyOf(call) == << call.ws, call.name >>
\* The routes of single workspaces create styles, those of none do all the rest.
ScopeOf(call) == IF call.op = "createStyleWS" THEN call.ws ELSE Global

StoresOf(ws, name) == {s \in stores : s.ws = ws /\ s.name = name}
ResourcesOf(ws, store, name) ==
    {x \in resources : x.ws = ws /\ x.store = store /\ x.name = name}
LayersOf(ws, name) == {l \in layers : l.ws = ws /\ l.name = name}
StylesOf(ws, name) == {y \in styles : y.ws = ws /\ y.name = name}

\* The style of a workspace shadows the global one (wms meta.rs style_body).
StyleShown(ws, name) ==
    IF StylesOf(ws, name) # {} THEN StylesOf(ws, name) ELSE StylesOf(Global, name)

\* The rows tiles' meta.rs looks for, all that vector tiles show.
FeatureTypes(key) ==
    {x \in resources : x.ws = key[1] /\ x.name = key[2] /\ x.kind = "featuretype"}

\* The rows of wms' resolve_coverage: a coverage and what its store connects to.
Coverages(key) ==
    {p \in resources \X stores :
       /\ p[1].ws = key[1] /\ p[1].name = key[2] /\ p[1].kind = "coverage"
       /\ p[2].ws = p[1].ws /\ p[2].name = p[1].store /\ p[2].conn \in Rasters}

\* What the tiles of a layer show.  Images are drawn by wms: a coverage if there
\* is one, else the feature type in the layer's default style.
Shown(key) ==
    << FeatureTypes(key), Coverages(key),
       IF Coverages(key) # {} \/ FeatureTypes(key) = {} THEN {}
       ELSE {<< l.style, StyleShown(l.ws, l.style) >> : l \in LayersOf(key[1], key[2])} >>

Init ==
    /\ \E c \in Catalogs :
         /\ workspaces = c.workspaces
         /\ stores = c.stores
         /\ resources = c.resources
         /\ layers = c.layers
         /\ styles = c.styles
    /\ req \in [Requests -> [status : {"new"}, call : Calls, at : {1},
                             read : {{}}, seen : {{}}]]
    /\ budget = [errors |-> MaxDbErrors, lost |-> MaxLost, kills |-> MaxKills]
    /\ pending = [k \in LayerKeys |-> {}]

-----------------------------------------------------------------------------
(* Taking a step.                                                          *)

AtStep(r, steps) ==
    req[r].status = "running" /\ StepsOf(CallOf(r))[req[r].at] \in steps

Goto(r, status) == req' = [req EXCEPT ![r].status = status]

\* After the last step the handler answers.
Advance(r) ==
    req' = [req EXCEPT ![r].at = @ + 1,
                       ![r].status = IF req[r].at = Len(StepsOf(CallOf(r)))
                                     THEN "ok" ELSE "running"]

\* The statement returned an error: httpErr, or nothing.
Refuse(r) == IF AtStep(r, Unchecked) THEN Advance(r) ELSE Goto(r, "error")

\* What r has just changed.
Changed(r) ==
    pending' = [k \in LayerKeys |-> IF Shown(k)' # Shown(k)
                                    THEN pending[k] \cup {r} ELSE pending[k]]

\* A request comes in.
Send(r) ==
    /\ req[r].status = "new"
    /\ req' = [req EXCEPT ![r].status = "running",
                          ![r].seen = stores \cup resources]
    /\ UNCHANGED << tables, budget, pending >>

-----------------------------------------------------------------------------
(* The statements (internal/store).                                        *)

CreateWorkspace(r) ==
    /\ AtStep(r, {"CreateWorkspace", "EnsureWorkspace"})
    /\ IF CallOf(r).ws \in workspaces
       THEN Refuse(r) /\ UNCHANGED workspaces
       ELSE Advance(r) /\ workspaces' = workspaces \cup {CallOf(r).ws}
    /\ UNCHANGED << stores, resources, layers, styles, budget, pending >>

\* Another row of that name, or rows that refer to the old one, are errors.
UpdateWorkspace(r) ==
    /\ AtStep(r, {"UpdateWorkspace"})
    /\ LET ws == CallOf(r).ws
           to == CallOf(r).to
           taken == to # ws /\ to \in workspaces
           referred == to # ws /\ \E row \in stores \cup layers : row.ws = ws
       IN IF ws \in workspaces /\ ~taken /\ ~referred
          THEN Advance(r) /\ workspaces' = (workspaces \ {ws}) \cup {to}
          ELSE Refuse(r) /\ UNCHANGED workspaces
    /\ UNCHANGED << stores, resources, layers, styles, budget, pending >>

\* Slip: the result is not looked at.
CountStoresUnread(r) ==
    AtStep(r, {"CountStores"}) /\ Advance(r) /\ UNCHANGED << tables, budget, pending >>

CountStores(r) ==
    /\ AtStep(r, {"CountStores"})
    /\ IF \E s \in stores : s.ws = CallOf(r).ws THEN Refuse(r) ELSE Advance(r)
    /\ UNCHANGED << tables, budget, pending >>

\* The stores, their resources and the layers go with it.
DeleteWorkspace(r) ==
    /\ AtStep(r, {"DeleteWorkspace"})
    /\ LET ws == CallOf(r).ws IN
       IF ws \in workspaces
       THEN /\ Advance(r)
            /\ workspaces' = workspaces \ {ws}
            /\ stores' = {s \in stores : s.ws # ws}
            /\ resources' = {x \in resources : x.ws # ws}
            /\ layers' = {l \in layers : l.ws # ws}
       ELSE Refuse(r) /\ UNCHANGED << workspaces, stores, resources, layers >>
    /\ UNCHANGED << styles, budget >>
    /\ Changed(r)

CreateStore(r) ==
    /\ AtStep(r, {"CreateStore", "EnsureStore"})
    /\ LET ws == CallOf(r).ws
           name == CallOf(r).store
       IN IF ws \in workspaces /\ StoresOf(ws, name) = {}
          THEN /\ Advance(r)
               /\ stores' = stores \cup
                    {[ws |-> ws, name |-> name, conn |-> CallOf(r).conn, by |-> r]}
          ELSE Refuse(r) /\ UNCHANGED stores
    /\ UNCHANGED << workspaces, resources, layers, styles, budget, pending >>

\* A store of the other kind is not found.
UpdateStore(r) ==
    /\ AtStep(r, {"UpdateStore"})
    /\ LET c == CallOf(r)
           rows == {s \in StoresOf(c.ws, c.store) : s.conn \in Rasters <=> c.conn \in Rasters}
       IN /\ IF rows = {} THEN Refuse(r) ELSE Advance(r)
          /\ stores' = (stores \ rows) \cup {[s EXCEPT !.conn = c.conn] : s \in rows}
    /\ UNCHANGED << workspaces, resources, layers, styles, budget >>
    /\ Changed(r)

CountResources(r) ==
    /\ AtStep(r, {"CountResources"})
    /\ IF \E x \in resources : x.ws = CallOf(r).ws /\ x.store = CallOf(r).store
       THEN Refuse(r) ELSE Advance(r)
    /\ UNCHANGED << tables, budget, pending >>

\* Slip: no cascade.
DeleteStoreAlone(r) ==
    /\ AtStep(r, {"DeleteStore"})
    /\ Advance(r)
    /\ stores' = stores \ StoresOf(CallOf(r).ws, CallOf(r).store)
    /\ UNCHANGED << workspaces, resources, layers, styles, budget, pending >>

\* The resources go with it, their layers stay.
DeleteStore(r) ==
    /\ AtStep(r, {"DeleteStore"})
    /\ LET gone == StoresOf(CallOf(r).ws, CallOf(r).store) IN
       /\ IF gone = {} THEN Refuse(r) ELSE Advance(r)
       /\ stores' = stores \ gone
       /\ resources' = {x \in resources : \A s \in gone : << x.ws, x.store >> # << s.ws, s.name >>}
    /\ UNCHANGED << workspaces, layers, styles, budget >>
    /\ Changed(r)

\* CreateFeatureType, CreateCoverage.
CreateResource(r) ==
    /\ AtStep(r, {"CreateResource"})
    /\ LET c == CallOf(r) IN
       IF StoresOf(c.ws, c.store) # {} /\ ResourcesOf(c.ws, c.store, c.name) = {}
       THEN /\ Advance(r)
            /\ resources' = resources \cup
                 {[ws |-> c.ws, store |-> c.store, name |-> c.name,
                   native |-> IF c.op = "v1Ingest" THEN c.name ELSE c.native,
                   kind |-> KindOf(c), meta |-> CHOOSE m \in Metas : TRUE, by |-> r]}
       ELSE Refuse(r) /\ UNCHANGED resources
    /\ UNCHANGED << workspaces, stores, layers, styles, budget >>
    /\ Changed(r)

\* DeleteFeatureType, DeleteCoverage.
DeleteResource(r) ==
    /\ AtStep(r, {"DeleteResource"})
    /\ LET c == CallOf(r)
           gone == {x \in ResourcesOf(c.ws, c.store, c.name) : x.kind = KindOf(c)}
       IN /\ IF gone = {} THEN Refuse(r) ELSE Advance(r)
          /\ resources' = resources \ gone
    /\ UNCHANGED << workspaces, stores, layers, styles, budget >>
    /\ Changed(r)

\* An empty patch succeeds whether the feature type exists or not.
PatchFeatureType(r) ==
    /\ AtStep(r, {"PatchFeatureType"})
    /\ LET c == CallOf(r)
           rows == FeatureTypes(KeyOf(c))
       IN IF c.meta = Keep
          THEN Advance(r) /\ UNCHANGED resources
          ELSE /\ IF rows = {} THEN Refuse(r) ELSE Advance(r)
               /\ resources' = (resources \ rows) \cup
                                 {[x EXCEPT !.meta = c.meta] : x \in rows}
    /\ UNCHANGED << workspaces, stores, layers, styles, budget >>
    /\ Changed(r)

CreateLayer(r) ==
    /\ AtStep(r, {"CreateLayer", "EnsureLayer"})
    /\ LET c == CallOf(r) IN
       IF c.ws \in workspaces /\ LayersOf(c.ws, c.name) = {}
       THEN /\ Advance(r)
            /\ layers' = layers \cup
                 {[ws |-> c.ws, name |-> c.name,
                   type |-> IF KindOf(c) = "coverage" THEN "RASTER" ELSE "VECTOR",
                   style |-> CHOOSE s \in Styles : TRUE, enabled |-> TRUE]}
       ELSE Refuse(r) /\ UNCHANGED layers
    /\ UNCHANGED << workspaces, stores, resources, styles, budget >>
    /\ Changed(r)

GetLayer(r) ==
    /\ AtStep(r, {"GetLayer"})
    /\ LET rows == LayersOf(CallOf(r).ws, CallOf(r).name) IN
       IF rows = {} THEN Refuse(r)
       ELSE req' = [req EXCEPT ![r].at = @ + 1, ![r].read = rows]
    /\ UNCHANGED << tables, budget, pending >>

\* The style of the call if it has one, the enabled flag that was read.
UpdateLayer(r) ==
    /\ AtStep(r, {"UpdateLayer"})
    /\ \E old \in req[r].read :
         LET c == CallOf(r)
             rows == LayersOf(c.ws, c.name)
             style == IF c.style = Keep THEN old.style ELSE c.style
         IN /\ IF rows = {} THEN Refuse(r) ELSE Advance(r)
            /\ layers' = (layers \ rows) \cup
                 {[l EXCEPT !.style = style, !.enabled = old.enabled] : l \in rows}
    /\ UNCHANGED << workspaces, stores, resources, styles, budget >>
    /\ Changed(r)

\* An empty patch succeeds whether the layer exists or not.
PatchLayer(r) ==
    /\ AtStep(r, {"PatchLayer"})
    /\ LET c == CallOf(r)
           rows == LayersOf(c.ws, c.name)
       IN /\ IF rows = {} /\ {c.style, c.enabled} # {Keep} THEN Refuse(r) ELSE Advance(r)
          /\ layers' = (layers \ rows) \cup
               {[l EXCEPT !.style = IF c.style = Keep THEN @ ELSE c.style,
                          !.enabled = IF c.enabled = Keep THEN @ ELSE c.enabled = "true"] :
                  l \in rows}
    /\ UNCHANGED << workspaces, stores, resources, styles, budget >>
    /\ Changed(r)

DeleteLayer(r) ==
    /\ AtStep(r, {"DeleteLayer", "DropLayer"})
    /\ LET rows == LayersOf(CallOf(r).ws, CallOf(r).name) IN
       /\ IF rows = {} THEN Refuse(r) ELSE Advance(r)
       /\ layers' = layers \ rows
    /\ UNCHANGED << workspaces, stores, resources, styles, budget >>
    /\ Changed(r)

\* The table is replaced, whichever layers show it.
IngestGeoJSON(r) ==
    /\ AtStep(r, {"IngestGeoJSON"})
    /\ Advance(r)
    /\ LET table == sanitizeIdent[CallOf(r).name] IN
       pending' = [k \in LayerKeys |-> IF \E x \in FeatureTypes(k) : x.native = table
                                       THEN pending[k] \cup {r} ELSE pending[k]]
    /\ UNCHANGED << tables, budget >>

\* A style has a name.
CreateStyle(r) ==
    /\ AtStep(r, {"CreateStyle"})
    /\ LET c == CallOf(r) IN
       IF c.style # Keep /\ StylesOf(ScopeOf(c), c.style) = {}
       THEN /\ Advance(r)
            /\ styles' = styles \cup {[ws |-> ScopeOf(c), name |-> c.style, body |-> c.body]}
       ELSE Refuse(r) /\ UNCHANGED styles
    /\ UNCHANGED << workspaces, stores, resources, layers, budget >>
    /\ Changed(r)

GetStyle(r) ==
    /\ AtStep(r, {"GetStyle"})
    /\ IF StylesOf(ScopeOf(CallOf(r)), CallOf(r).style) = {} THEN Refuse(r) ELSE Advance(r)
    /\ UNCHANGED << tables, budget, pending >>

UpdateStyle(r) ==
    /\ AtStep(r, {"UpdateStyle"})
    /\ LET rows == StylesOf(ScopeOf(CallOf(r)), CallOf(r).style) IN
       /\ IF rows = {} THEN Refuse(r) ELSE Advance(r)
       /\ styles' = (styles \ rows) \cup {[y EXCEPT !.body = CallOf(r).body] : y \in rows}
    /\ UNCHANGED << workspaces, stores, resources, layers, budget >>
    /\ Changed(r)

DeleteStyle(r) ==
    /\ AtStep(r, {"DeleteStyle"})
    /\ LET rows == StylesOf(ScopeOf(CallOf(r)), CallOf(r).style) IN
       /\ IF rows = {} THEN Refuse(r) ELSE Advance(r)
       /\ styles' = styles \ rows
    /\ UNCHANGED << workspaces, stores, resources, layers, budget >>
    /\ Changed(r)

-----------------------------------------------------------------------------
(* Events and faults.                                                      *)

\* Publish, of every event of the handler.
Publish(r) ==
    /\ AtStep(r, {"Publish"})
    /\ Advance(r)
    /\ pending' = IF CallOf(r).op \in Heard
                  THEN [pending EXCEPT ![KeyOf(CallOf(r))] = {}] ELSE pending
    /\ UNCHANGED << tables, budget >>

\* Publish logs an error and returns nothing.
PublishFails(r) ==
    /\ AtStep(r, {"Publish"})
    /\ budget.lost > 0
    /\ budget' = [budget EXCEPT !.lost = @ - 1]
    /\ Goto(r, "mute")
    /\ UNCHANGED << tables, pending >>

StatementFails(r) ==
    /\ req[r].status = "running"
    /\ ~AtStep(r, {"Publish"})
    /\ budget.errors > 0
    /\ budget' = [budget EXCEPT !.errors = @ - 1]
    /\ Refuse(r)
    /\ UNCHANGED << tables, pending >>

Kill(r) ==
    /\ req[r].status = "running"
    /\ budget.kills > 0
    /\ budget' = [budget EXCEPT !.kills = @ - 1]
    /\ Goto(r, "killed")
    /\ UNCHANGED << tables, pending >>

-----------------------------------------------------------------------------
(* Specification.                                                          *)

WorkspaceStep(r) ==
    \/ CreateWorkspace(r) \/ UpdateWorkspace(r) \/ CountStores(r) \/ DeleteWorkspace(r)

StoreStep(r) ==
    CreateStore(r) \/ UpdateStore(r) \/ CountResources(r) \/ DeleteStore(r)

ResourceStep(r) ==
    CreateResource(r) \/ DeleteResource(r) \/ PatchFeatureType(r) \/ IngestGeoJSON(r)

LayerStep(r) ==
    CreateLayer(r) \/ GetLayer(r) \/ UpdateLayer(r) \/ PatchLayer(r) \/ DeleteLayer(r)

StyleStep(r) ==
    CreateStyle(r) \/ GetStyle(r) \/ UpdateStyle(r) \/ DeleteStyle(r)

Next ==
    \E r \in Requests :
        \/ Send(r)
        \/ WorkspaceStep(r) \/ StoreStep(r) \/ ResourceStep(r) \/ LayerStep(r)
        \/ StyleStep(r)
        \/ Publish(r) \/ PublishFails(r) \/ StatementFails(r) \/ Kill(r)

Spec == Init /\ [][Next]_vars

-----------------------------------------------------------------------------
(* Properties.                                                             *)

\* Types of the variables; rows keep their keys and references.
TypeOK ==
    /\ WellFormed([workspaces |-> workspaces, stores |-> stores,
                   resources |-> resources, layers |-> layers, styles |-> styles])
    /\ req \in [Requests -> Request]
    /\ pending \in [LayerKeys -> SUBSET Requests]
    /\ budget \in [errors : Nat, lost : Nat, kills : Nat]

\* Operations whose changes no event tells the tile service of: it listens to
\* catalog.layer.* and catalog.featuretype.* alone (events.rs), and to these
\* belong catalog.store.*, catalog.style.*, catalog.coverage.deleted or none.
Unheard ==
    {"updateStoreH", "v1UpdateStore", "deleteCoverage", "createStyle", "createStyleWS",
     "updateStyle", "deleteStyle", "v1CreateStyle", "v1UpdateStyle", "v1DeleteStyle"}

\* "edit a layer in catalog, its tiles drop" (docs/services/tiles.md:36): a
\* change of what a layer's tiles show is followed by an event about that layer,
\* the request's own or a later one.  Open are the requests still running and
\* those a fault or an error has ended, the cascades of a workspace or a store,
\* an upload for the other layers that show the same table, and the changes of
\* image tiles by way of a store, of a style or of a deleted coverage.
ChangesAnnounced ==
    \A k \in LayerKeys : \A r \in pending[k] :
        \/ req[r].status # "ok"
        \/ CallOf(r).op \in {"deleteWorkspace", "deleteStoreH", "v1DeleteStore"} \cup Unheard
        \/ CallOf(r).op = "v1Ingest" /\ k # KeyOf(CallOf(r))

\* A delete without recurse cascades to no store and no resource that was there
\* when it came in, whatever the other requests do between its count and its
\* statement (store.go DeleteWorkspace, DeleteStore).
DeletesSpareWhatTheySaw ==
    [][\A r \in Requests :
         req'[r] # req[r] /\ ~CallOf(r).recurse =>
           /\ AtStep(r, {"DeleteStore"}) =>
                req[r].seen \cap resources \subseteq resources'
           /\ AtStep(r, {"DeleteWorkspace"}) =>
                req[r].seen \cap (stores \cup resources) \subseteq stores' \cup resources'
      ]_vars

=============================================================================
