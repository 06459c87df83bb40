--------------------------- MODULE MCFilterPaths ---------------------------
(* Filters over the columns a, n and g, in which every kind of test occurs. *)
EXTENDS FilterPaths

MCLocalName == ("topp:n" :> "n") @@ ("topp:AND" :> "AND")
MCBadNames == {"b-d"}
MCMalformed == {"1-2"}
MCRank == ("1" :> 1) @@ ("2" :> 2) @@ ("3" :> 3) @@ ("TRUE" :> 4) @@ ("x" :> 5) @@ ("X" :> 6)
            @@ ("(" :> 7)
MCRows == [a : {"1", "2", NULL}, n : {"x", "X", NULL}, g : {"geom", NULL}, AND : {"1"}]
MCLikeTrue == {<<"LIKE", "x", "x">>, <<"ILIKE", "x", "x">>, <<"ILIKE", "X", "x">>}

Num(t) == Lit("number", t)
Str(t) == Lit("string", t)
a == Prop("a")
n == Prop("n")
Point == <<"POINT", "(", "1", "2", ")">>
Ring == <<"POLYGON", "(", "(", "1", "1", ",", "2", "1", ",", "2", "3", ",", "1", "1", ")", ")">>
MCSpatialTrue == {<<"ST_Intersects", Ring>>, <<"ST_DWithin", Point, "3">>,
                  <<"&&", "1", "2", "3", "3">>}

Tests ==
  {Compare(c, a, Num("2")) : c \in {"=", "<>", "<", "<=", ">", ">="}}
  \cup {Compare("=", n, Str("x")), Compare("<", n, a), Compare("=", a, Lit("bool", "TRUE")),
        Compare("=", Prop("b-d"), Num("1")), IncludeAll}
  \cup {Like(n, Str("x").text, ci, neg) : ci, neg \in BOOLEAN}
  \cup {In(a, <<Num("1"), Num("3")>>, neg) : neg \in BOOLEAN}
  \cup {In(a, <<n>>, FALSE), Between(a, n, Num("2"), FALSE)}
  \cup {Between(a, Num("2"), Num("3"), neg) : neg \in BOOLEAN}
  \cup {IsNull(n, neg) : neg \in BOOLEAN}
  \cup {BBox("g", <<"1", "2", "3", "3">>, s) : s \in {"", "x"}}
  \cup {Spatial("INTERSECTS", "g", Ring), Spatial("WITHIN", "g", Point)}
  \cup {DWithin("g", Point, "3", "metres", b) : b \in BOOLEAN}

Few == {Compare("=", a, Num("1")), Between(a, Num("1"), Num("2"), FALSE),
        DWithin("g", Point, "3", "metres", TRUE)}
Joins(S, T) == {Logic(l, <<x, y>>) : l \in {"AND", "OR"}, x \in S, y \in T}
Larger(S) == S \cup {Not(x) : x \in S} \cup Joins(S, S)

MCExprs == Tests \cup {Not(x) : x \in Tests} \cup Joins(Tests, Tests) \cup Larger(Larger(Few))
MCLimitExprs == Larger(Few)
MCVocabulary == {Word("a"), Word("topp:AND"), Word("AND"), Word("NOT"), Word("OR"),
                 Word("BETWEEN"), Word("IS"), Word("NULL"), Word("EXCLUDE"), Tok("op", "="),
                 Number("1"), Number("1-2"), Punct("("), Punct(")")}
=============================================================================
