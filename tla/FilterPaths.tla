---------------------------- MODULE FilterPaths ----------------------------
(***************************************************************************)
(* One filter on its way through libs/ogc-kit/filter: from the text or the *)
(* document a client or an administrator wrote, to the syntax tree, to the *)
(* WHERE clause PostgreSQL reads.  What the author meant, how it is written*)
(* down and how PostgreSQL reads the clause are reference definitions of   *)
(* this module; everything between is Filters.                             *)
(***************************************************************************)
EXTENDS Filters

CONSTANTS
  NULL, Rows,        \* the null of a column and the rows of a table
  Rank,              \* text -> its place in the order of the values
  LikeTrue,          \* <<LIKE or ILIKE, text, pattern>> that match
  SpatialTrue,       \* the spatial tests that are true of a geometry
  Exprs,             \* the filters a client means
  LimitExprs,        \* the constraints of LIMIT rules
  Vocabulary, MaxTokens  \* the tokens and length of texts nobody meant

VARIABLES
  form,    \* how it is written: "cql", "limits", "typed", "gml3", "gml2", "cut"
  wanted,  \* what its author means
  doc,     \* the text or the document
  pc,      \* "write", "read", "parsed", "compiled", "refused"
  ast,     \* the tree the reader made of it
  sql      \* [start, clause]: the clause and its first placeholder

vars == <<form, wanted, doc, pc, ast, sql>>
-----------------------------------------------------------------------------
(* How an author writes a filter, with no parenthesis more than needed.    *)
Written(n) == IF \E p \in DOMAIN LocalName : LocalName[p] = n
              THEN CHOOSE p \in DOMAIN LocalName : LocalName[p] = n ELSE n

Value(v) == IF v.op = "prop" THEN Word(Written(v.name))
            ELSE IF v.kind = "bool" THEN Word(v.text) ELSE Tok(v.kind, v.text)
Number(t) == Tok("number", t)
Words(ts) == [i \in DOMAIN ts |-> Word(ts[i])]
Geometry(w) == [i \in DOMAIN w |-> IF w[i] \in {"(", ")", ","} THEN Punct(w[i])
                                   ELSE IF i = 1 THEN Word(w[i]) ELSE Number(w[i])]
Listed(tss) == Joined(tss, <<Punct(",")>>)
Call(f, tss) == <<Word(f), Punct("(")>> \o Listed(tss) \o <<Punct(")")>>
Level(e) == CASE e.op = "logic" -> IF e.link = "OR" THEN 1 ELSE 2
              [] e.op = "not" /\ e.expr # IncludeAll -> 3
              [] OTHER -> 4

RECURSIVE SpellAt(_, _)
SpellAt(level, e) ==
  LET name == <<Word(Written(IF "name" \in DOMAIN e THEN e.name ELSE e.prop.name))>>
      not  == IF e.neg THEN <<Word("NOT")>> ELSE <<>>
      text ==
        CASE e.op = "all" -> <<Word("INCLUDE")>>
          [] e.op = "not" -> IF e.expr = IncludeAll THEN <<Word("EXCLUDE")>>
                             ELSE <<Word("NOT")>> \o SpellAt(3, e.expr)
          [] e.op = "logic" -> SpellAt(Level(e), e.exprs[1]) \o <<Word(e.link)>>
                                 \o SpellAt(Level(e) + 1, e.exprs[2])
          [] e.op = "cmp" -> <<Value(e.left), Tok("op", e.cmp), Value(e.right)>>
          [] e.op = "like" -> name \o not \o <<Word(IF e.ci THEN "ILIKE" ELSE "LIKE"),
                                               Tok("string", e.pattern)>>
          [] e.op = "in" -> name \o not \o Call("IN", [i \in DOMAIN e.vals |-> <<Value(e.vals[i])>>])
          [] e.op = "btw" -> name \o not \o <<Word("BETWEEN"), Value(e.lo), Word("AND"),
                                              Value(e.hi)>>
          [] e.op = "null" -> name \o <<Word("IS")>> \o not \o <<Word("NULL")>>
          [] e.op = "bbox" ->
               Call("BBOX", <<name>> \o [i \in 1..4 |-> <<Number(e.box[i])>>]
                            \o IF e.srs = "" THEN <<>> ELSE <<<<Tok("string", e.srs)>>>>)
          [] e.op = "spatial" -> Call(e.fn, <<name, Geometry(e.wkt)>>)
          [] e.op = "dwithin" -> Call(IF e.beyond THEN "BEYOND" ELSE "DWITHIN",
               <<name, Geometry(e.wkt), <<Number(e.dist)>>, <<Word(e.units)>>>>)
  IN IF Level(e) < level THEN <<Punct("(")>> \o text \o <<Punct(")")>> ELSE text
Spell(e) == SpellAt(1, e)

(* The filters Filter XML can express, and their documents in two styles.  *)
RECURSIVE InXml(_)
InXml(e) ==
  CASE e.op = "logic" -> InXml(e.exprs[1]) /\ InXml(e.exprs[2])
    [] e.op = "not" -> InXml(e.expr)
    [] e.op = "cmp" -> e.right.op = "lit"
    [] e.op = "like" -> ~e.ci /\ ~e.neg
    [] e.op = "null" -> ~e.neg
    [] e.op = "btw" -> ~e.neg /\ e.lo.op = "lit" /\ e.hi.op = "lit"
    [] OTHER -> e.op \in {"bbox", "spatial"}

(* What the document says: every literal of a document is text. *)
RECURSIVE AsText(_)
AsText(e) ==
  CASE e.op = "logic" -> Logic(e.link, <<AsText(e.exprs[1]), AsText(e.exprs[2])>>)
    [] e.op = "not" -> Not(AsText(e.expr))
    [] e.op = "cmp" -> [e EXCEPT !.right.kind = "string"]
    [] e.op = "btw" -> [e EXCEPT !.lo.kind = "string", !.hi.kind = "string"]
    [] OTHER -> e

KeyOf(f, x) == CHOOSE k \in DOMAIN f : f[k] = x
Singles(ns) == [i \in DOMAIN ns |-> <<ns[i]>>]
Pairs(ns) == [i \in 1..(Len(ns) \div 2) |-> <<ns[2*i - 1], ns[2*i]>>]

RECURSIVE XmlOf(_, _), Operands(_, _, _)
Operands(style, link, e) ==
  IF e.op = "logic" /\ e.link = link
  THEN Append(Operands(style, link, e.exprs[1]), XmlOf(style, e.exprs[2]))
  ELSE <<XmlOf(style, e)>>
XmlOf(style, e) ==
  LET gml3 == style = "gml3"
      Ref(n) == TextElement(IF gml3 THEN "ValueReference" ELSE "PropertyName", Written(n))
      Literal(t) == TextElement("Literal", t)
      Pos(tag, ns) == IF gml3 THEN Coordinates(tag, Singles(ns))
                      ELSE Coordinates("coordinates", Pairs(ns))
      Gml(w) == LET ns == SelectSeq(Tail(w), LAMBDA t : t \notin {"(", ")", ","}) IN
                IF w[1] = "POINT" THEN Element("Point", <<Pos("pos", ns)>>)
                ELSE Element("Polygon", <<Element("exterior", <<Element("LinearRing",
                       <<Pos("posList", ns)>>)>>)>>)
      Box(b) == IF gml3 THEN <<Pos("lowerCorner", SubSeq(b, 1, 2)),
                               Pos("upperCorner", SubSeq(b, 3, 4))>>
                ELSE <<Pos("", b)>>
  IN CASE e.op = "logic" ->
            Element(IF e.link = "AND" THEN "And" ELSE "Or", Operands(style, e.link, e))
       [] e.op = "not" -> Element("Not", <<XmlOf(style, e.expr)>>)
       [] e.op = "cmp" -> Element(KeyOf(CompareOp, e.cmp),
                                  <<Ref(e.left.name), Literal(e.right.text)>>)
       [] e.op = "like" -> Element("PropertyIsLike", <<Ref(e.prop.name), Literal(e.pattern)>>)
       [] e.op = "null" -> Element("PropertyIsNull", <<Ref(e.prop.name)>>)
       [] e.op = "btw" -> Element("PropertyIsBetween", <<Ref(e.prop.name),
            Element("LowerBoundary", <<Literal(e.lo.text)>>),
            TextElement("UpperBoundary", e.hi.text)>>)
       [] e.op = "bbox" -> Element("BBOX", <<Ref(e.name),
            [Element(IF gml3 THEN "Envelope" ELSE "Box", Box(e.box)) EXCEPT !.text = e.srs]>>)
       [] e.op = "spatial" -> Element(KeyOf(SpatialOp, e.fn), <<Ref(e.name), Gml(e.wkt)>>)
-----------------------------------------------------------------------------
(* What a filter selects: "T", "F" or, about a null, "U".                   *)
Truth(b) == IF b THEN "T" ELSE "F"
Not3(x) == CASE x = "T" -> "F" [] x = "F" -> "T" [] OTHER -> "U"
And3(x, y) == IF "F" \in {x, y} THEN "F" ELSE IF "U" \in {x, y} THEN "U" ELSE "T"
Or3(x, y) == Not3(And3(Not3(x), Not3(y)))
Neg3(neg, x) == IF neg THEN Not3(x) ELSE x

Cmp3(c, x, y) ==
  IF NULL \in {x, y} THEN "U"
  ELSE LET i == Rank[x]
           j == Rank[y] IN
       Truth(CASE c = "=" -> i = j  [] c = "<>" -> i # j [] c = "<" -> i < j
               [] c = "<=" -> i <= j [] c = ">" -> i > j [] c = ">=" -> i >= j)
Like3(op, x, p) == IF x = NULL THEN "U" ELSE Truth(<<op, x, p>> \in LikeTrue)
In3(x, vs) == IF x = NULL THEN "U" ELSE Truth(\E i \in DOMAIN vs : Rank[vs[i]] = Rank[x])
Between3(x, lo, hi) == And3(Cmp3("<=", lo, x), Cmp3("<=", x, hi))
Spatial3(g, test) == IF g = NULL THEN "U" ELSE Truth(test \in SpatialTrue)

(* The srs of a BBOX and the units of a DWITHIN are taken for those of the  *)
(* column: the clause carries neither (sql.go:148-169), so what a filter    *)
(* means by others is not compared here.                                    *)
RECURSIVE Meaning(_, _)
Meaning(e, row) ==
  LET Cell(v) == IF v.op = "prop" THEN row[v.name] ELSE v.text
  IN CASE e.op = "all" -> "T"
       [] e.op = "not" -> Not3(Meaning(e.expr, row))
       [] e.op = "logic" ->
            LET x == Meaning(e.exprs[1], row)
                y == Meaning(e.exprs[2], row)
            IN IF e.link = "AND" THEN And3(x, y) ELSE Or3(x, y)
       [] e.op = "cmp" -> Cmp3(e.cmp, Cell(e.left), Cell(e.right))
       [] e.op = "like" -> Neg3(e.neg, Like3(IF e.ci THEN "ILIKE" ELSE "LIKE",
                                             Cell(e.prop), e.pattern))
       [] e.op = "in" -> Neg3(e.neg, In3(Cell(e.prop), Texts(e.vals)))
       [] e.op = "btw" -> Neg3(e.neg, Between3(Cell(e.prop), e.lo.text, e.hi.text))
       [] e.op = "null" -> Truth((Cell(e.prop) = NULL) # e.neg)
       [] e.op = "bbox" -> Spatial3(row[e.name], <<"&&">> \o e.box)
       [] e.op = "spatial" -> Spatial3(row[e.name], <<SqlFunction[e.fn], e.wkt>>)
       [] e.op = "dwithin" -> Neg3(e.beyond, Spatial3(row[e.name],
                                                      <<"ST_DWithin", e.wkt, e.dist>>))

(* How PostgreSQL reads a clause: OR binds weakest, then AND, then NOT.     *)
RECURSIVE SqlMeaning(_, _, _)
SqlMeaning(ts, bound, row) ==
  LET Is(i, t) == i \in DOMAIN ts /\ ts[i] = Tok("sql", t)
      depth(i) == Cardinality({j \in 1..i : Is(j, "(")}) - Cardinality({j \in 1..i : Is(j, ")")})
      tops(t) == {i \in DOMAIN ts : Is(i, t) /\ depth(i) = 0 /\ ~Is(i - 2, "BETWEEN")}
      left(i) == SqlMeaning(SubSeq(ts, 1, i - 1), bound, row)
      right(i) == SqlMeaning(SubSeq(ts, i + 1, Len(ts)), bound, row)
      Cell(t) == IF t.kind = "column" THEN row[t.text] ELSE bound[t.place]
      args == SelectSeq(ts, LAMBDA t : t.kind = "arg")
      vals == [i \in DOMAIN args |-> Cell(args[i])]
      col == SelectSeq(ts, LAMBDA t : t.kind = "column")
      neg == Is(2, "NOT") \/ Is(3, "NOT")
      key == IF Is(2, "NOT") THEN ts[3].text ELSE ts[2].text
  IN CASE tops("OR") # {} -> Or3(left(Max(tops("OR"))), right(Max(tops("OR"))))
       [] tops("OR") = {} /\ tops("AND") # {} ->
            And3(left(Max(tops("AND"))), right(Max(tops("AND"))))
       [] tops("OR") \cup tops("AND") = {} /\ Is(1, "NOT") -> Not3(right(1))
       [] tops("OR") \cup tops("AND") = {} /\ Is(1, "(") ->
            SqlMeaning(SubSeq(ts, 2, Len(ts) - 1), bound, row)
       [] Is(1, "TRUE") /\ Len(ts) = 1 -> "T"
       [] ts[1].kind = "sql" /\ Is(2, "(") /\ ~Is(1, "NOT") ->
            Spatial3(Cell(col[1]), <<ts[1].text>> \o vals)
       [] OTHER ->
            CASE key = "&&" -> Spatial3(Cell(col[1]), <<"&&">> \o vals)
              [] key \in {"LIKE", "ILIKE"} -> Neg3(neg, Like3(key, Cell(ts[1]), vals[1]))
              [] key = "IN" -> Neg3(neg, In3(Cell(ts[1]), vals))
              [] key = "BETWEEN" -> Neg3(neg, Between3(Cell(ts[1]), vals[1], vals[2]))
              [] key = "IS" -> Truth((Cell(ts[1]) = NULL) # neg)
              [] OTHER -> Cmp3(key, Cell(ts[1]), Cell(ts[3]))
-----------------------------------------------------------------------------
(* The ways a filter comes in. *)
XmlFilter(style, e) == Element("Filter", <<XmlOf(style, e)>>)
(* The document that lost the first part of its test or connective. *)
Cut(root) == [root EXCEPT !.kids[1].kids = Tail(@)]

Init ==
  /\ ast = IncludeAll /\ sql = [start |-> 1, clause |-> NoClause]
  /\ \/ /\ form = "typed" /\ pc = "write"
        /\ wanted = IncludeAll /\ doc = <<>>
     \/ /\ pc = "read"
        /\ \/ form = "cql" /\ wanted \in Exprs /\ doc = Spell(wanted)
           \/ /\ form = "limits"
              /\ \E a, b \in LimitExprs : /\ wanted = Logic("AND", <<a, b>>)
                                          /\ doc = AndCQL(Spell(a), Spell(b))
           \/ /\ wanted \in {e \in Exprs : InXml(e)}
              /\ \/ form \in {"gml3", "gml2"} /\ doc = XmlFilter(form, wanted)
                 \/ form = "cut" /\ doc = Cut(XmlFilter("gml3", wanted))

Type(t) ==
  /\ pc = "write" /\ Len(doc) < MaxTokens
  /\ doc' = Append(doc, t)
  /\ UNCHANGED <<form, wanted, pc, ast, sql>>

Submit ==
  /\ pc = "write" /\ pc' = "read"
  /\ UNCHANGED <<form, wanted, doc, ast, sql>>

Reading == IF form \in {"cql", "limits", "typed"} THEN ParseCQL(doc) ELSE ParseFilterXML(doc)

Read ==
  /\ pc = "read" /\ Reading.ok
  /\ ast' = Reading.val /\ pc' = "parsed"
  /\ UNCHANGED <<form, wanted, doc, sql>>

Refuse ==
  /\ \/ pc = "read" /\ ~Reading.ok
     \/ pc = "parsed" /\ ~ToSQL(ast, 1).ok
  /\ pc' = "refused"
  /\ UNCHANGED <<form, wanted, doc, ast, sql>>

(* A transaction compiles its filter behind the values it writes. *)
Compile(start) ==
  /\ pc = "parsed" /\ ToSQL(ast, start).ok
  /\ sql' = [start |-> start, clause |-> ToSQL(ast, start)]
  /\ pc' = "compiled"
  /\ UNCHANGED <<form, wanted, doc, ast>>

Next ==
  \/ \E t \in Vocabulary : Type(t)
  \/ Submit \/ Read \/ Refuse
  \/ \E start \in {1, 3} : Compile(start)

Spec == Init /\ [][Next]_vars
-----------------------------------------------------------------------------
(* The state has its form, and a clause a placeholder for every value it   *)
(* binds, numbered in their order from the first (sql.go argctr).          *)
TypeOK ==
  /\ form \in {"cql", "limits", "typed", "gml3", "gml2", "cut"}
  /\ pc \in {"write", "read", "parsed", "compiled", "refused"}
  /\ form = "typed" => doc \in Seq(Vocabulary) /\ Len(doc) <= MaxTokens
  /\ sql.start \in {1, 3} /\ sql.clause.ok = (pc = "compiled")
  /\ LET args == SelectSeq(sql.clause.toks, LAMBDA t : t.kind = "arg")
     IN /\ Len(args) = Len(sql.clause.args)
        /\ \A i \in DOMAIN args : args[i].place = sql.start + i - 1

(* A text written with no parenthesis more than needed is read as it was   *)
(* meant: NOT binds tighter than AND, AND tighter than OR, the AND of a    *)
(* BETWEEN is no connective, equal connectives group to the left; and two  *)
(* constraints the auth service joined as text are both in force, whatever *)
(* connectives they are made of (cql.go parseOr to parseWKT, rules.go      *)
(* andCQL).                                                                *)
ReadAsMeant ==
  form \in {"cql", "limits"} => /\ pc # "refused" \/ ~ToSQL(wanted, 1).ok
                                /\ pc \in {"parsed", "compiled"} => ast = wanted

(* Both styles of a document are read as the filter the text would be,     *)
(* with more than two operands of a connective too, and a document that    *)
(* lost a part is refused, never read as a wider filter (xml.go).          *)
FrontEndsAgree ==
  /\ form \in {"gml3", "gml2"} /\ pc \in {"parsed", "compiled"} => ast = AsText(wanted)
  /\ form = "cut" /\ pc \in {"parsed", "compiled"} =>
       wanted.op = "logic" /\ Len(doc.kids[1].kids) >= 2

(* Whatever tokens come, a text is refused or all of it counts: written    *)
(* again from its tree it is the same text up to parentheses (ParseCQL     *)
(* refuses what follows the filter).                                       *)
Bare(ts) ==
  LET Plain(t) == CASE t.kind = "string" /\ t.text = "(" -> Punct("(")
                    [] t.kind = "ident" -> Word(StripPrefix(t.text))
                    [] OTHER -> t
      plain == [i \in DOMAIN ts |-> Plain(ts[i])]
  IN SelectSeq(plain, LAMBDA t : t \notin {Punct("("), Punct(")")})
NothingDropped ==
  form = "typed" /\ pc \in {"parsed", "compiled"} => Bare(Spell(ast)) = Bare(doc)

(* The clause, read by PostgreSQL with its values bound behind those of    *)
(* the statement it stands in, selects exactly the rows the filter means   *)
(* (sql.go emit: parentheses, negations and the numbers of placeholders),  *)
(* with a box and a distance in the srs and the units of the column.       *)
SelectsWhatIsMeant ==
  pc = "compiled" /\ form \notin {"typed", "cut"} =>
    LET bound == [i \in 1..(sql.start - 1) |-> "1"] \o sql.clause.args
    IN \A row \in Rows :
         (SqlMeaning(sql.clause.toks, bound, row) = "T") = (Meaning(wanted, row) = "T")
=============================================================================
