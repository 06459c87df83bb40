----------------------------- MODULE MCCatalog -----------------------------
(* TLC instances of Catalog: calls about a layer n, and uploads under a name *)
(* m that go to the table of n.                                              *)
EXTENDS Catalog, TLC

CONSTANTS w, v, s, u, n, m

MCStyles == {"generic", "roads"}
MCBodies == {"b0", "b1"}
MCMetas == {"m0", "m1"}
MCConns == {"self", "other", "a.tif", "b.tif"}
MCRasters == {"a.tif", "b.tif"}
MCSanitizeIdent == [x \in Names |-> n]

On(op) ==
    [op |-> op, ws |-> w, to |-> w, store |-> s, name |-> n, native |-> n,
     conn |-> IF op = "v1RegisterCoverage" THEN "a.tif" ELSE "self",
     recurse |-> FALSE, style |-> Keep, enabled |-> Keep, meta |-> Keep, body |-> "b1"]

OnStyles == {"createStyle", "createStyleWS", "updateStyle", "deleteStyle",
             "v1CreateStyle", "v1UpdateStyle", "v1DeleteStyle"}

MCCalls ==
    {On(op) : op \in DOMAIN Handler \ OnStyles}
      \cup {[On(op) EXCEPT !.style = "generic"] : op \in OnStyles}
      \cup {[On(op) EXCEPT !.recurse = TRUE] :
              op \in {"deleteWorkspace", "deleteStoreH", "deleteFeatureType", "deleteCoverage"}}
      \cup {[On("createFeatureType") EXCEPT !.store = u],
            [On("updateWorkspace") EXCEPT !.to = v],
            [On("updateStoreH") EXCEPT !.conn = "b.tif"],
            [On("v1Ingest") EXCEPT !.ws = v],
            [On("v1Ingest") EXCEPT !.name = m],
            [On("updateLayer") EXCEPT !.style = "roads"],
            [On("v1PatchLayer") EXCEPT !.enabled = "false"],
            [On("v1PatchFeatureType") EXCEPT !.meta = "m1"]}

Empty == [workspaces |-> {}, stores |-> {}, resources |-> {}, layers |-> {},
          styles |-> {[ws |-> Global, name |-> "generic", body |-> "b0"]}]

StoreRow(name, conn) == [ws |-> w, name |-> name, conn |-> conn, by |-> Seeder]
ResourceRow(store, kind) ==
    [ws |-> w, store |-> store, name |-> n, native |-> n, kind |-> kind,
     meta |-> "m0", by |-> Seeder]
LayerRow(type) ==
    [ws |-> w, name |-> n, type |-> type, style |-> "generic", enabled |-> TRUE]

\* Two stores, and a layer of the first.
Published ==
    [Empty EXCEPT !.workspaces = {w},
                  !.stores     = {StoreRow(s, "self"), StoreRow(u, "other")},
                  !.resources  = {ResourceRow(s, "featuretype")},
                  !.layers     = {LayerRow("VECTOR")}]

PublishedImage ==
    [Empty EXCEPT !.workspaces = {w},
                  !.stores     = {StoreRow(s, "a.tif"), StoreRow(u, "other")},
                  !.resources  = {ResourceRow(s, "coverage")},
                  !.layers     = {LayerRow("RASTER")}]

MCCatalogs == {[Empty EXCEPT !.workspaces = {w}],
               [Empty EXCEPT !.workspaces = {w}, !.stores = {StoreRow(s, "self")}],
               Published, PublishedImage}

Symmetry == Permutations(Requests)
=============================================================================
