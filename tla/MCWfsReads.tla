----------------------------- MODULE MCWfsReads -----------------------------
(* A request that reads features of a layer with three rows, in one of two  *)
(* databases, while another one describes the layer.                       *)
EXTENDS WfsReads

Full == [geom |-> "geom", cols |-> {"id", "name"}]
MCShapes == {Full, NoTable}
\* With a column qi refuses.
Other == [geom |-> "shape", cols |-> {"id", "e-mail"}]
MCNamesakes == {Other, NoTable}

On(cols, S) == [cols |-> cols, sel |-> S, bad |-> FALSE]
Bad == [NoFilter EXCEPT !.bad = TRUE]
Ask(kind) == [NoQuery EXCEPT !.kind = kind]

Reads ==
    { Ask("hits"),
      [Ask("json") EXCEPT !.given = << On({"name"}, {1, 2}), On({"geom"}, {2, 3}) >>,
                          !.grant = On({"id"}, {1, 2})],
      [Ask("csv") EXCEPT !.given = << Bad >>],
      [Ask("gml") EXCEPT !.grant = Bad, !.props = {"id", "shape"},
                         !.sort = "DESC", !.offset = 1, !.limit = 1],
      [Ask("values") EXCEPT !.props = {"name"}, !.limit = 1] }

MCAsks == ("r1" :> Reads) @@ ("r2" :> {Ask("describe")})
=============================================================================
